-------------------------- MODULE Aggregator_proofs --------------------------
(***************************************************************************)
(* The aggregator for any records, shards, caps and number of readers.     *)
(*                                                                         *)
(* AInv, the lock order of Ingest and flush: no port is accounted to a     *)
(* window that ends before its flow's, and a final flush leaves no earlier *)
(* record behind.  CInv, the counters: each accumulator, in a shard, under *)
(* way or in the channel, is what a pass over its records computes.        *)
(* Conserved: every record is in one place.  PInv, the port trackers.      *)
(***************************************************************************)
EXTENDS Aggregator, FiniteSetTheorems, WellFoundedInduction, TLAPS

Windows ==
  /\ trace \in Seq(Meta)
  /\ Len(trace) <= MaxPackets
  /\ flowWindow \in [Ids -> Nat]
  /\ portWindow \in [Ids -> Nat \cup {Unseen}]
  /\ reading \in [Readers -> 0 .. Len(trace)]
  /\ runPC \in RunPCs
  /\ shardAt \in Shards
  /\ window \in Nat
  /\ Flushing => window > 0
  /\ cancelled \in BOOLEAN
  /\ atCancel \in 0 .. Len(trace)
  /\ runPC \in {"ports_final", "flows_final", "emit_final", "close", "done"}
       => cancelled
  /\ \A i \in Ids : /\ flowWindow[i] <= window
                    /\ portWindow[i] <= window
                    /\ i > Len(trace) => /\ flowWindow[i] = 0
                                         /\ portWindow[i] = Unseen

\* The flush in progress has yet to reach the flow shard of record i.
Ahead(i) ==
  LET s == shardIndex(FlowKey(trace[i]))
  IN  \/ runPC \in {"ports", "ports_final"}
      \/ runPC \in {"flows", "flows_final"} /\ s >= shardAt
      \/ runPC \in {"emit", "emit_final"} /\ s > shardAt

\* A port in a snapshot belongs to a flow already taken, or to one that the
\* flush in progress will take.
PortsBehindFlows ==
  \A i \in 1 .. Len(trace) : portWindow[i] > 0 =>
    \/ flowWindow[i] > 0 /\ flowWindow[i] <= portWindow[i]
    \/ flowWindow[i] = 0 /\ portWindow[i] = window /\ Ahead(i)

\* What the final flush has still to take lies ahead of it.
FinalFlush ==
  runPC \in {"ports_final", "flows_final", "emit_final", "close", "done"} =>
    \A i \in 1 .. atCancel : flowWindow[i] = 0 => Ahead(i)

\* The inductive invariant.
AInv == Windows /\ PortsBehindFlows /\ FinalFlush

-----------------------------------------------------------------------------
USE DEF tables, flushing, channel, ghosts, ending, Unseen, Ids

\* The flow of every accepted record is in some shard.
LEMMA ShardOfRecord ==
  ASSUME trace \in Seq(Meta), NEW i \in 1 .. Len(trace)
  PROVE  /\ shardIndex(FlowKey(trace[i])) \in 1 .. numShards
         /\ i \in DOMAIN trace
         /\ trace[i] \in Meta
<1>1. trace[i] \in Meta /\ i \in DOMAIN trace
  OBVIOUS
<1>2. FlowKey(trace[i]) \in FlowKeys
  BY <1>1 DEF FlowKeys
<1> QED
  BY <1>1, <1>2, AggregatorAssumption DEF Shards

\* A new aggregator satisfies the invariant.
LEMMA InitAInv == Init => AInv
<1> SUFFICES ASSUME Init PROVE AInv
  OBVIOUS
<1> USE AggregatorAssumption
<1>1. trace \in Seq(Meta) /\ Len(trace) = 0 /\ atCancel = 0 /\ window = 0
  BY DEF Init
<1>2. cancelled \in BOOLEAN
  BY Zenon DEF Init
<1>3. runPC = "select" /\ shardAt \in Shards
  BY DEF Init, Shards
<1>4. reading \in [Readers -> 0 .. Len(trace)]
  BY <1>1 DEF Init
<1>5. Windows
  BY <1>1, <1>2, <1>3, <1>4 DEF Init, Windows, RunPCs, Flushing
<1>6. PortsBehindFlows /\ FinalFlush
  BY <1>1, <1>3 DEF PortsBehindFlows, FinalFlush
<1> QED
  BY <1>5, <1>6 DEF AInv

\* Every step of a reader, of Run, of the consumer or of whoever cancels
\* preserves the invariant.
LEMMA StepAInv == AInv /\ [Next]_vars => AInv'
<1> SUFFICES ASSUME AInv, [Next]_vars PROVE AInv'
  OBVIOUS
<1> USE AggregatorAssumption
<1>0. Windows /\ PortsBehindFlows /\ FinalFlush
  BY DEF AInv
<1>a. trace \in Seq(Meta) /\ Len(trace) \in Nat
  BY <1>0 DEF Windows
<1>1. ASSUME NEW r \in Readers, NEW m \in Meta, IngestFlow(r, m) PROVE AInv'
  <2> USE <1>0, <1>1 DEF IngestFlow
  <2>1. /\ trace' \in Seq(Meta) /\ Len(trace') = Len(trace) + 1
        /\ \A i \in 1 .. Len(trace) : trace'[i] = trace[i]
    BY <1>a
  <2>2. Windows'
    <3>1. Len(trace') <= MaxPackets
      BY <2>1, <1>a
    <3>2. reading' \in [Readers -> 0 .. Len(trace')]
      BY <2>1, <1>a DEF Windows
    <3>3. atCancel' \in 0 .. Len(trace')
      BY <2>1, <1>a DEF Windows
    <3>4. \A i \in Ids : i > Len(trace') => i > Len(trace)
      BY <2>1, <1>a
    <3> QED
      BY <2>1, <3>1, <3>2, <3>3, <3>4 DEF Windows, Flushing
  <2>3. PortsBehindFlows'
    <3> SUFFICES ASSUME NEW i \in 1 .. Len(trace'), portWindow[i] > 0
                 PROVE  \/ flowWindow[i] > 0 /\ flowWindow[i] <= portWindow[i]
                        \/ flowWindow[i] = 0 /\ portWindow[i] = window /\ Ahead(i)'
      BY DEF PortsBehindFlows
    <3>1. i \in 1 .. Len(trace)
      <4>1. i \in Ids
        BY <2>1, <1>a
      <4> QED
        BY <4>1, <2>1, <1>a DEF Windows
    <3> QED
      BY <3>1, <2>1 DEF PortsBehindFlows, Ahead
  <2>4. FinalFlush'
    BY <2>1, <1>a DEF FinalFlush, Ahead, Windows
  <2> QED
    BY <2>2, <2>3, <2>4 DEF AInv
<1>2. ASSUME NEW r \in Readers, NEW m \in Meta, IngestRejected(r, m) PROVE AInv'
  BY <1>0, <1>2
     DEF IngestRejected, AInv, Windows, Flushing, PortsBehindFlows, FinalFlush, Ahead
<1>3. ASSUME NEW r \in Readers, IngestPort(r) PROVE AInv'
  <2> USE <1>0, <1>3 DEF IngestPort
  <2>1. reading[r] \in 1 .. Len(trace) /\ reading[r] \in Ids
    BY <1>a DEF Windows
  <2>2. portWindow' = [portWindow EXCEPT ![reading[r]] = 0]
    OBVIOUS
  <2>3. Windows'
    BY <2>1, <2>2, <1>a DEF Windows, Flushing
  <2>4. PortsBehindFlows'
    BY <2>1, <2>2, <1>a DEF Windows, PortsBehindFlows, Ahead
  <2>5. FinalFlush'
    BY DEF FinalFlush, Ahead
  <2> QED
    BY <2>3, <2>4, <2>5 DEF AInv
<1>4. CASE Cancel
  <2> USE <1>0, <1>4 DEF Cancel
  <2>1. Windows'
    BY <1>a DEF Windows, Flushing
  <2>2. PortsBehindFlows'
    BY DEF PortsBehindFlows, Ahead
  <2>3. FinalFlush'
    BY DEF FinalFlush, Windows
  <2> QED
    BY <2>1, <2>2, <2>3 DEF AInv
<1>5. ASSUME NEW final \in BOOLEAN, BeginFlush(final) PROVE AInv'
  <2> USE <1>0, <1>5 DEF BeginFlush
  <2>1. runPC' \in {"ports", "ports_final"}
    BY Zenon
  <2>2. runPC' = "ports_final" => cancelled
    BY Zenon
  <2>3. Windows'
    BY <2>1, <2>2, <1>a DEF Windows, Flushing, RunPCs, Shards
  <2>4. PortsBehindFlows'
    BY <2>1 DEF PortsBehindFlows, Ahead, Windows
  <2>5. FinalFlush'
    BY <2>1 DEF FinalFlush, Ahead
  <2> QED
    BY <2>3, <2>4, <2>5 DEF AInv
<1>6. CASE FlushPorts
  <2> USE <1>0, <1>6 DEF FlushPorts
  <2>1. \/ runPC' = runPC /\ shardAt' = shardAt + 1 /\ shardAt # numShards
        \/ runPC = "ports" /\ runPC' = "flows" /\ shardAt' = 1
        \/ runPC = "ports_final" /\ runPC' = "flows_final" /\ shardAt' = 1
    BY DEF NextShard, After
  <2>2. /\ portWindow' \in [Ids -> Nat \cup {Unseen}]
        /\ \A i \in Ids : \/ portWindow'[i] = portWindow[i]
                          \/ portWindow[i] = 0 /\ portWindow'[i] = window
    BY DEF Windows
  <2>3. Windows'
    BY <2>1, <2>2, <1>a DEF Windows, Flushing, RunPCs, Shards
  <2>4. ASSUME NEW i \in 1 .. Len(trace) PROVE Ahead(i)'
    <3>1. shardIndex(FlowKey(trace[i])) \in 1 .. numShards
      BY <2>4, <1>a, ShardOfRecord
    <3>2. trace' = trace /\ runPC \in {"ports", "ports_final"}
      OBVIOUS
    <3>3. CASE runPC' = runPC
      BY <3>2, <3>3 DEF Ahead
    <3>4. CASE runPC' \in {"flows", "flows_final"} /\ shardAt' = 1
      <4>1. shardIndex(FlowKey(trace'[i])) >= shardAt'
        BY <3>1, <3>2, <3>4, AggregatorAssumption
      <4> QED
        BY <4>1, <3>4 DEF Ahead
    <3> QED
      BY <2>1, <3>3, <3>4
  <2>5. PortsBehindFlows'
    <3> SUFFICES ASSUME NEW i \in 1 .. Len(trace), portWindow'[i] > 0
                 PROVE  \/ flowWindow[i] > 0 /\ flowWindow[i] <= portWindow'[i]
                        \/ flowWindow[i] = 0 /\ portWindow'[i] = window /\ Ahead(i)'
      BY DEF PortsBehindFlows
    <3>0. i \in Ids
      BY <1>a DEF Windows
    <3>1. flowWindow[i] \in Nat /\ flowWindow[i] <= window
      BY <3>0 DEF Windows
    <3>2. CASE portWindow'[i] = portWindow[i]
      BY <2>4, <3>1, <3>2 DEF PortsBehindFlows
    <3>3. CASE portWindow'[i] = window
      BY <2>4, <3>1, <3>3
    <3> QED
      BY <2>2, <3>0, <3>2, <3>3
  <2>6. FinalFlush'
    BY <2>4, <1>a DEF FinalFlush, Windows
  <2> QED
    BY <2>3, <2>5, <2>6 DEF AInv
<1>7. CASE FlushFlows
  <2> USE <1>0, <1>7 DEF FlushFlows, TakeFlows
  <2>1. \/ runPC = "flows" /\ runPC' = "emit" /\ shardAt' = shardAt
        \/ runPC = "flows_final" /\ runPC' = "emit_final" /\ shardAt' = shardAt
        \/ runPC' = runPC /\ shardAt' = shardAt + 1 /\ shardAt # numShards
        \/ runPC = "flows" /\ runPC' = "select" /\ shardAt' = 1 /\ shardAt = numShards
        \/ /\ runPC = "flows_final" /\ runPC' = "close" /\ shardAt' = 1
           /\ shardAt = numShards
    BY DEF NextShard, After
  <2>2. /\ flowWindow' \in [Ids -> Nat]
        /\ \A i \in Ids : \/ flowWindow'[i] = flowWindow[i]
                          \/ /\ flowWindow[i] = 0 /\ flowWindow'[i] = window
                             /\ i \in DOMAIN trace
        /\ \A i \in 1 .. Len(trace) :
             flowWindow'[i] = 0 => shardIndex(FlowKey(trace[i])) # shardAt
    <3>1. window \in Nat /\ window > 0
      BY DEF Windows, Flushing
    <3> QED
      BY <3>1, <1>a DEF Windows
  <2>3. Windows'
    BY <2>1, <2>2, <1>a DEF Windows, Flushing, RunPCs, Shards
  <2>4. ASSUME NEW i \in 1 .. Len(trace), flowWindow'[i] = 0, Ahead(i)
        PROVE  Ahead(i)'
    <3>1. /\ shardIndex(FlowKey(trace[i])) \in 1 .. numShards
          /\ shardIndex(FlowKey(trace[i])) # shardAt
          /\ shardAt \in 1 .. numShards
      BY <2>2, <2>4, <1>a, ShardOfRecord DEF Windows, Shards
    <3>2. shardIndex(FlowKey(trace[i])) > shardAt
      BY <2>4, <3>1 DEF Ahead
    <3> QED
      BY <2>1, <3>1, <3>2 DEF Ahead
  <2>5. PortsBehindFlows'
    <3> SUFFICES ASSUME NEW i \in 1 .. Len(trace), portWindow[i] > 0
                 PROVE  \/ flowWindow'[i] > 0 /\ flowWindow'[i] <= portWindow[i]
                        \/ flowWindow'[i] = 0 /\ portWindow[i] = window /\ Ahead(i)'
      BY DEF PortsBehindFlows
    <3>1. i \in Ids /\ flowWindow'[i] \in Nat /\ window > 0
      BY <2>2, <1>a DEF Windows, Flushing
    <3>2. CASE flowWindow[i] > 0
      BY <2>2, <3>1, <3>2 DEF PortsBehindFlows
    <3>3. CASE flowWindow[i] = 0 /\ portWindow[i] = window /\ Ahead(i)
      <4>1. CASE flowWindow'[i] = 0
        BY <2>4, <3>3, <4>1
      <4>2. CASE flowWindow'[i] = window
        BY <3>1, <3>3, <4>2
      <4> QED
        BY <2>2, <3>1, <3>3, <4>1, <4>2
    <3> QED
      BY <3>2, <3>3 DEF PortsBehindFlows
  <2>6. FinalFlush'
    <3> SUFFICES ASSUME runPC' \in {"flows_final", "emit_final", "close"},
                        NEW i \in 1 .. atCancel, flowWindow'[i] = 0
                 PROVE  Ahead(i)'
      BY <2>1 DEF FinalFlush
    <3>1. i \in 1 .. Len(trace) /\ i \in Ids
      BY <1>a DEF Windows
    <3>2. runPC = "flows_final" /\ flowWindow[i] = 0
      BY <2>1, <2>2, <3>1 DEF Windows, Flushing
    <3>3. Ahead(i)
      BY <3>2 DEF FinalFlush
    <3> QED
      BY <2>4, <3>1, <3>3
  <2> QED
    BY <2>3, <2>5, <2>6 DEF AInv
<1>8. ASSUME NEW f \in batch, EmitDone(f) PROVE AInv'
  <2> USE <1>0, <1>8 DEF EmitDone
  <2>1. \/ runPC' = runPC /\ shardAt' = shardAt
        \/ /\ runPC = "emit" /\ runPC' = "flows" /\ shardAt' = shardAt + 1
           /\ shardAt # numShards
        \/ /\ runPC = "emit_final" /\ runPC' = "flows_final"
           /\ shardAt' = shardAt + 1 /\ shardAt # numShards
        \/ runPC = "emit" /\ runPC' = "select" /\ shardAt' = 1 /\ shardAt = numShards
        \/ /\ runPC = "emit_final" /\ runPC' = "close" /\ shardAt' = 1
           /\ shardAt = numShards
    BY DEF NextShard, After
  <2>2. Windows'
    BY <2>1, <1>a DEF Windows, Flushing, RunPCs, Shards
  <2>3. ASSUME NEW i \in 1 .. Len(trace), Ahead(i) PROVE Ahead(i)'
    <3>1. /\ shardIndex(FlowKey(trace[i])) \in 1 .. numShards
          /\ shardAt \in 1 .. numShards
      BY <1>a, ShardOfRecord DEF Windows, Shards
    <3>2. shardIndex(FlowKey(trace[i])) > shardAt
      BY <2>3, <3>1 DEF Ahead
    <3> QED
      BY <2>1, <3>1, <3>2 DEF Ahead
  <2>4. PortsBehindFlows'
    BY <2>3 DEF PortsBehindFlows
  <2>5. FinalFlush'
    BY <2>1, <2>3, <1>a DEF FinalFlush, Windows
  <2> QED
    BY <2>2, <2>4, <2>5 DEF AInv
<1>9. CASE Close
  <2> USE <1>0, <1>9 DEF Close
  <2>1. Windows'
    BY <1>a DEF Windows, Flushing, RunPCs
  <2>2. PortsBehindFlows'
    BY DEF PortsBehindFlows, Ahead
  <2>3. FinalFlush'
    BY DEF FinalFlush, Ahead
  <2> QED
    BY <2>1, <2>2, <2>3 DEF AInv
<1>10. CASE Receive
  BY <1>0, <1>10
     DEF Receive, AInv, Windows, Flushing, PortsBehindFlows, FinalFlush, Ahead
<1>11. CASE UNCHANGED vars
  BY <1>0, <1>11
     DEF vars, AInv, Windows, Flushing, PortsBehindFlows, FinalFlush, Ahead
<1> QED
  BY <1>1, <1>2, <1>3, <1>4, <1>5, <1>6, <1>7, <1>8, <1>9, <1>10, <1>11
     DEF Next, EmitSend, EmitDrop

\* The invariant holds in every reachable state.
THEOREM AInvariance == Spec => []AInv
BY InitAInv, StepAInv, PTL DEF Spec

\* A port in the snapshot of a flush belongs to a flow that this flush, or an
\* earlier one, hands over: the order "ports first, then flows" in flush
\* matches the order "flow first, then port" in Ingest.
THEOREM EntropyOfThisWindow == Spec => []EntropyNotFromFuture
<1>1. AInv => EntropyNotFromFuture
  <2> SUFFICES ASSUME AInv, NEW i \in DOMAIN trace, portWindow[i] > 0
               PROVE  \/ flowWindow[i] \in 1 .. portWindow[i]
                      \/ flowWindow[i] = 0 /\ portWindow[i] = window /\ Flushing
    BY DEF EntropyNotFromFuture
  <2>1. i \in 1 .. Len(trace) /\ i \in Ids
    BY AggregatorAssumption DEF AInv, Windows
  <2>2. Ahead(i) => Flushing
    BY DEF Ahead, Flushing
  <2>3. flowWindow[i] \in Nat /\ portWindow[i] \in Nat
    BY <2>1 DEF AInv, Windows
  <2> QED
    BY <2>1, <2>2, <2>3 DEF AInv, PortsBehindFlows
<1> QED
  BY <1>1, AInvariance, PTL

\* Once Run has returned, every record that Ingest accepted before the
\* cancellation has been handed over by some flush.
THEOREM FinalFlushComplete == Spec => []NothingLeftBehind
<1>1. AInv => NothingLeftBehind
  BY DEF AInv, FinalFlush, Ahead, NothingLeftBehind
<1> QED
  BY <1>1, AInvariance, PTL

-----------------------------------------------------------------------------
(* Counting the records of a flow.                                         *)

\* A set of numbers has a least one.
LEMMA LeastNumber ==
  ASSUME NEW T, T \subseteq Nat, T # {}
  PROVE  \E x \in T : \A y \in T : x <= y
<1>1. PICK x \in T : \A y \in T : ~(<<y, x>> \in OpToRel(<, Nat))
  BY NatLessThanWellFounded, WFMin
<1>2. \A y \in T : ~(y < x)
  BY <1>1 DEF OpToRel
<1> QED
  BY <1>2

\* A set of positions has a first and a last one.
LEMMA FirstAndLast ==
  ASSUME NEW n \in Nat, NEW S, S \subseteq 1 .. n, S # {}
  PROVE  /\ Min(S) \in S /\ \A y \in S : Min(S) <= y
         /\ Max(S) \in S /\ \A y \in S : y <= Max(S)
<1>1. S \subseteq Nat
  OBVIOUS
<1>2. \E x \in S : \A y \in S : x <= y
  BY <1>1, LeastNumber
<1>3. Min(S) \in S /\ \A y \in S : Min(S) <= y
  BY <1>2 DEF Min
<1>4. \E x \in S : \A y \in S : x >= y
  <2> DEFINE T == {u \in Nat : \A y \in S : y <= u}
  <2>1. T \subseteq Nat /\ n \in T
    OBVIOUS
  <2>2. PICK u \in T : \A v \in T : u <= v
    BY <2>1, LeastNumber
  <2>3. u \in S
    <3>1. SUFFICES ASSUME u \notin S PROVE FALSE
      OBVIOUS
    <3>a. u \in Nat /\ \A y \in S : y \in Nat /\ y <= u /\ y # u
      BY <1>1, <3>1
    <3>b. PICK y \in S : y >= 1
      <4>1. \A y \in S : y >= 1
        OBVIOUS
      <4> QED
        BY <4>1, Zenon
    <3>2. u - 1 \in Nat /\ \A z \in S : z <= u - 1
      BY ONLY <3>a, <3>b, y \in S
    <3> QED
      BY <2>2, <3>2
  <2> QED
    BY <2>3
<1>5. Max(S) \in S /\ \A y \in S : Max(S) >= y
  BY <1>4 DEF Max
<1> QED
  BY <1>1, <1>3, <1>5

\* One more element is counted, or it is not.
LEMMA CountOneMore ==
  ASSUME NEW Q, NEW R, NEW x, IsFiniteSet(Q), x \notin Q, NEW c \in BOOLEAN,
         R = IF c THEN Q \cup {x} ELSE Q
  PROVE  Cardinality(R) = Cardinality(Q) + Count(c)
<1>1. Cardinality(Q) \in Nat
  BY FS_CardinalityType
<1>2. Cardinality(Q \cup {x}) = Cardinality(Q) + 1
  BY FS_AddElement
<1> QED
  BY <1>1, <1>2 DEF Count

\* Positions are finitely many.
LEMMA PositionsFinite ==
  ASSUME NEW n \in Nat, NEW S, S \subseteq 1 .. n
  PROVE  IsFiniteSet(S) /\ Cardinality(S) \in Nat
<1>1. IsFiniteSet(1 .. n)
  BY FS_Interval
<1> QED
  BY <1>1, FS_Subset, FS_CardinalityType

SynOf(t, S) == {i \in S : t[i].tcp /\ "SYN" \in t[i].flags}
AckPshOf(t, S) == {i \in S : t[i].tcp /\ t[i].flags \cap {"ACK", "PSH"} # {}}
LoOf(t, S) == {i \in S : srcIsLo(t[i])}
Gap(S, i) == {j \in S : j < i}
Spaced(t, S, i) ==
  /\ Gap(S, i) # {}
  /\ t[Max(Gap(S, i))].ts # 0
  /\ t[Max(Gap(S, i))].ts < t[i].ts
SpacedOf(t, S) == {i \in S : Spaced(t, S, i)}

\* The accumulator fa is what a pass over the records S of t leaves, the time
\* stamp of the last one included.
Tallies(t, fa, S) ==
  /\ fa.packetCount = Cardinality(S)
  /\ fa.forwardCount = Cardinality(LoOf(t, S))
  /\ fa.forwardCount + fa.reverseCount = fa.packetCount
  /\ fa.synCount = Cardinality(SynOf(t, S))
  /\ fa.ackPshCount = Cardinality(AckPshOf(t, S))
  /\ fa.iatSamples = Cardinality(SpacedOf(t, S))
  /\ fa.lastTimestamp = IF S = {} THEN 0 ELSE t[Max(S)].ts
  /\ S # {} => fa.first = Endpoints(t[Min(S)])

\* Only the records of S matter.
LEMMA TalliesFrame ==
  ASSUME NEW n \in Nat, NEW S, S \subseteq 1 .. n, NEW t, NEW u, \A i \in S : u[i] = t[i],
         NEW fa, Tallies(t, fa, S)
  PROVE  Tallies(u, fa, S)
<1>1. LoOf(u, S) = LoOf(t, S) /\ SynOf(u, S) = SynOf(t, S) /\ AckPshOf(u, S) = AckPshOf(t, S)
  BY Zenon DEF LoOf, SynOf, AckPshOf
<1>2. ASSUME NEW i \in S PROVE Spaced(u, S, i) <=> Spaced(t, S, i)
  <2>1. Gap(S, i) # {} => Max(Gap(S, i)) \in S
    <3>1. Gap(S, i) \subseteq 1 .. n /\ Gap(S, i) \subseteq S
      BY DEF Gap
    <3> QED
      BY <3>1, FirstAndLast, Zenon
  <2> QED
    BY <1>2, <2>1, Zenon DEF Spaced
<1>3. SpacedOf(u, S) = SpacedOf(t, S)
  BY <1>2, Zenon DEF SpacedOf
<1>4. S # {} => u[Max(S)] = t[Max(S)] /\ u[Min(S)] = t[Min(S)]
  BY FirstAndLast, Zenon
<1> QED
  BY <1>1, <1>3, <1>4, Zenon DEF Tallies

\* What observe does to each field.
LEMMA ObserveFields ==
  ASSUME NEW fa \in Accumulators, NEW m
  PROVE  LET g == ObserveFlow(fa, m)
         IN  /\ g.packetCount = fa.packetCount + 1
             /\ g.forwardCount = fa.forwardCount + Count(srcIsLo(m))
             /\ g.reverseCount = fa.reverseCount + Count(~srcIsLo(m))
             /\ g.synCount = fa.synCount + Count(m.tcp /\ "SYN" \in m.flags)
             /\ g.ackPshCount = fa.ackPshCount + Count(m.tcp /\ m.flags \cap {"ACK", "PSH"} # {})
             /\ g.lastTimestamp = m.ts
             /\ g.iatSamples =
                  fa.iatSamples + Count(fa.lastTimestamp # 0 /\ m.ts > fa.lastTimestamp)
             /\ g.first = IF fa.packetCount = 0 THEN Endpoints(m) ELSE fa.first
BY DEF ObserveFlow, ObserveCounters, Accumulators

\* A record, observed, makes the accumulator one of the larger set.
LEMMA ObserveTallies ==
  ASSUME NEW n \in Nat, NEW S, S \subseteq 1 .. n, NEW t, NEW u,
         \A i \in 1 .. n : u[i] = t[i], NEW m \in MetaType, u[n + 1] = m,
         NEW fa \in Accumulators, Tallies(t, fa, S)
  PROVE  Tallies(u, ObserveFlow(fa, m), S \cup {n + 1})
<1> DEFINE x == n + 1
           X == S \cup {x}
           g == ObserveFlow(fa, m)
<1>0. /\ x \notin S /\ X \subseteq 1 .. n + 1 /\ n + 1 \in Nat /\ X # {}
      /\ \A i \in S : i < x /\ i \in Nat /\ i \in 1 .. n
  <2>1. \A i \in S : i \in 1 .. n
    BY Zenon
  <2>2. \A i \in 1 .. n : i < n + 1 /\ i \in Nat /\ i \in 1 .. n + 1 /\ i # n + 1
    BY ONLY n \in Nat
  <2>3. n + 1 \in Nat /\ n + 1 \in 1 .. n + 1
    BY ONLY n \in Nat
  <2> QED
    BY <2>1, <2>2, <2>3, Zenon
<1>1. Tallies(u, fa, S)
  BY <1>0, TalliesFrame, Zenon
<1>2. IsFiniteSet(S) /\ \A Q : Q \subseteq S => IsFiniteSet(Q)
  BY PositionsFinite, FS_Subset
<1>3. g.packetCount = Cardinality(X)
  <2>1. Cardinality(X) = Cardinality(S) + 1
    BY <1>0, <1>2, FS_AddElement
  <2> QED
    BY <1>1, <2>1, ObserveFields DEF Tallies
<1>4. g.forwardCount = Cardinality(LoOf(u, X))
  <2> DEFINE c == srcIsLo(m)
  <2>1. LoOf(u, X) = IF c THEN LoOf(u, S) \cup {x} ELSE LoOf(u, S)
    BY <1>0 DEF LoOf
  <2>2. x \notin LoOf(u, S) /\ IsFiniteSet(LoOf(u, S)) /\ c \in BOOLEAN
    BY <1>0, <1>2 DEF LoOf, srcIsLo
  <2>3. Cardinality(LoOf(u, X)) = Cardinality(LoOf(u, S)) + Count(c)
    <3> HIDE DEF c, x, X
    <3> QED
      BY <2>1, <2>2, CountOneMore
  <2>a. fa.forwardCount = Cardinality(LoOf(u, S))
    BY <1>1, Zenon DEF Tallies
  <2>b. g.forwardCount = fa.forwardCount + Count(c)
    BY ObserveFields, Zenon
  <2> HIDE DEF g, c, X
  <2> QED
    BY <2>a, <2>b, <2>3, Zenon
<1>5. g.forwardCount + g.reverseCount = g.packetCount
  <2>1. /\ fa.forwardCount \in Nat /\ fa.reverseCount \in Nat /\ fa.packetCount \in Nat
        /\ fa.forwardCount + fa.reverseCount = fa.packetCount
    BY <1>1 DEF Tallies, Accumulators
  <2>2. /\ g.packetCount = fa.packetCount + 1
        /\ g.forwardCount = fa.forwardCount + Count(srcIsLo(m))
        /\ g.reverseCount = fa.reverseCount + Count(~srcIsLo(m))
    BY ObserveFields, Zenon
  <2>3. CASE srcIsLo(m)
    BY ONLY <2>1, <2>2, <2>3 DEF Count
  <2>4. CASE ~srcIsLo(m)
    BY ONLY <2>1, <2>2, <2>4 DEF Count
  <2> QED
    BY <2>3, <2>4
<1>6. g.synCount = Cardinality(SynOf(u, X))
  <2> DEFINE c == m.tcp /\ "SYN" \in m.flags
  <2>1. SynOf(u, X) = IF c THEN SynOf(u, S) \cup {x} ELSE SynOf(u, S)
    BY <1>0 DEF SynOf
  <2>2. x \notin SynOf(u, S) /\ IsFiniteSet(SynOf(u, S)) /\ c \in BOOLEAN
    BY <1>0, <1>2 DEF SynOf, MetaType
  <2>3. Cardinality(SynOf(u, X)) = Cardinality(SynOf(u, S)) + Count(c)
    <3> HIDE DEF c, x, X
    <3> QED
      BY <2>1, <2>2, CountOneMore
  <2>a. fa.synCount = Cardinality(SynOf(u, S))
    BY <1>1, Zenon DEF Tallies
  <2>b. g.synCount = fa.synCount + Count(c)
    BY ObserveFields, Zenon
  <2> HIDE DEF g, c, X
  <2> QED
    BY <2>a, <2>b, <2>3, Zenon
<1>7. g.ackPshCount = Cardinality(AckPshOf(u, X))
  <2> DEFINE c == m.tcp /\ m.flags \cap {"ACK", "PSH"} # {}
  <2>1. AckPshOf(u, X) = IF c THEN AckPshOf(u, S) \cup {x} ELSE AckPshOf(u, S)
    BY <1>0 DEF AckPshOf
  <2>2. x \notin AckPshOf(u, S) /\ IsFiniteSet(AckPshOf(u, S)) /\ c \in BOOLEAN
    BY <1>0, <1>2 DEF AckPshOf, MetaType
  <2>3. Cardinality(AckPshOf(u, X)) = Cardinality(AckPshOf(u, S)) + Count(c)
    <3> HIDE DEF c, x, X
    <3> QED
      BY <2>1, <2>2, CountOneMore
  <2>a. fa.ackPshCount = Cardinality(AckPshOf(u, S))
    BY <1>1, Zenon DEF Tallies
  <2>b. g.ackPshCount = fa.ackPshCount + Count(c)
    BY ObserveFields, Zenon
  <2> HIDE DEF g, c, X
  <2> QED
    BY <2>a, <2>b, <2>3, Zenon
<1>8. g.iatSamples = Cardinality(SpacedOf(u, X))
  <2> DEFINE c == fa.lastTimestamp # 0 /\ m.ts > fa.lastTimestamp
  <2>1. ASSUME NEW i \in S PROVE Spaced(u, X, i) <=> Spaced(u, S, i)
    <3>1. Gap(X, i) = Gap(S, i)
      BY <1>0 DEF Gap
    <3> QED
      BY <3>1, Zenon DEF Spaced
  <2>2. Spaced(u, X, x) <=> c
    <3>a. ~(x < x)
      BY <1>0
    <3>1. Gap(X, x) = S
      <4> HIDE DEF x
      <4> QED
        BY <1>0, <3>a, Zenon DEF Gap
    <3>2. fa.lastTimestamp = IF S = {} THEN 0 ELSE u[Max(S)].ts
      BY <1>1 DEF Tallies
    <3>3. u[x] = m
      OBVIOUS
    <3>4. CASE S = {}
      BY <3>1, <3>2, <3>4 DEF Spaced
    <3>5. CASE S # {}
      BY <3>1, <3>2, <3>3, <3>5 DEF Spaced, Accumulators, MetaType
    <3> QED
      BY <3>4, <3>5
  <2>3. SpacedOf(u, X) = IF c THEN SpacedOf(u, S) \cup {x} ELSE SpacedOf(u, S)
    <3> HIDE DEF c
    <3> QED
      BY <1>0, <2>1, <2>2, Zenon DEF SpacedOf
  <2>4. x \notin SpacedOf(u, S) /\ IsFiniteSet(SpacedOf(u, S)) /\ c \in BOOLEAN
    BY <1>0, <1>2 DEF SpacedOf
  <2>5. Cardinality(SpacedOf(u, X)) = Cardinality(SpacedOf(u, S)) + Count(c)
    <3> HIDE DEF c, x, X
    <3> QED
      BY <2>3, <2>4, CountOneMore
  <2>a. fa.iatSamples = Cardinality(SpacedOf(u, S))
    BY <1>1, Zenon DEF Tallies
  <2>b. g.iatSamples = fa.iatSamples + Count(c)
    BY ObserveFields, Zenon
  <2> HIDE DEF g, c, X
  <2> QED
    BY <2>a, <2>b, <2>5, Zenon
<1>9. g.lastTimestamp = IF X = {} THEN 0 ELSE u[Max(X)].ts
  <2>1. Max(X) = x
    <3>1. Max(X) \in X /\ \A y \in X : y <= Max(X)
      BY <1>0, FirstAndLast, Zenon
    <3> QED
      BY <1>0, <3>1
  <2> QED
    BY <1>0, <2>1, ObserveFields
<1>10. g.first = Endpoints(u[Min(X)])
  <2>1. Min(X) \in X /\ \A y \in X : Min(X) <= y
    BY <1>0, FirstAndLast, Zenon
  <2>2. CASE S = {}
    <3>1. fa.packetCount = 0
      BY <1>1, <2>2, FS_EmptySet DEF Tallies
    <3>2. Min(X) = x
      BY <2>1, <2>2
    <3> QED
      BY <3>1, <3>2, ObserveFields
  <2>3. CASE S # {}
    <3>1. fa.packetCount # 0
      BY <1>1, <1>2, <2>3, FS_EmptySet DEF Tallies
    <3>2. Min(S) \in S /\ \A y \in S : Min(S) <= y
      BY <2>3, FirstAndLast, Zenon
    <3>3. Min(X) = Min(S)
      BY <1>0, <2>1, <3>2
    <3>4. fa.first = Endpoints(u[Min(S)])
      BY <1>1, <2>3, Zenon DEF Tallies
    <3> QED
      BY <3>1, <3>3, <3>4, ObserveFields
  <2> QED
    BY <2>2, <2>3
<1> QED
  BY <1>3, <1>4, <1>5, <1>6, <1>7, <1>8, <1>9, <1>10, Zenon DEF Tallies

-----------------------------------------------------------------------------
(* What the tables, the flow map under way and the channel hold.           *)

TableTypes ==
  /\ flows \in [FlowKeys -> Accumulators]
  /\ ports \in [SrcIPs -> Trackers]
  /\ portSnapshot \in [SrcIPs -> Trackers]
  /\ closed \in BOOLEAN
  /\ droppedNewFlows \in Nat /\ droppedOutput \in Nat

\* Flows are under way only while flush emits them, and none is empty.
Batched ==
  /\ batch # {} => runPC \in {"emit", "emit_final"}
  /\ \A f \in batch : f[1] \in FlowKeys /\ f[2] \in Accumulators /\ f[2].packetCount > 0

\* The features in the channel are of nonempty flows of windows that began.
Queued ==
  /\ \E S : out \in Seq(S)
  /\ \A n \in 1 .. Len(out) :
       /\ out[n].key \in FlowKeys /\ out[n].acc \in Accumulators
       /\ out[n].acc.packetCount > 0
       /\ out[n].window \in Nat /\ 0 < out[n].window /\ out[n].window <= window

\* What this flush has taken lies behind it.
TakenBehind == \A i \in 1 .. Len(trace) : flowWindow[i] = window => ~Ahead(i)

\* The records of trace t that are of flow k and in window w by fw.
Recs(t, fw, k, w) == {i \in 1 .. Len(t) : FlowKey(t[i]) = k /\ fw[i] = w}

\* Each accumulator tallies its records, wherever it is.
Exact ==
  /\ \A k \in FlowKeys : Tallies(trace, flows[k], Recs(trace, flowWindow, k, 0))
  /\ \A f \in batch : Tallies(trace, f[2], Recs(trace, flowWindow, f[1], window))
  /\ \A n \in 1 .. Len(out) :
       Tallies(trace, out[n].acc, Recs(trace, flowWindow, out[n].key, out[n].window))

\* The inductive invariant of the counters.
CInv == AInv /\ TableTypes /\ Batched /\ Queued /\ TakenBehind /\ Exact

\* Observing keeps the accumulator one.
LEMMA ObserveType ==
  ASSUME NEW fa \in Accumulators, NEW m \in MetaType PROVE ObserveFlow(fa, m) \in Accumulators
<1>1. \A c : Count(c) \in Nat
  BY DEF Count
<1>2. Endpoints(m) \in [src : Nat, dst : Nat, sport : Nat, dport : Nat]
  BY DEF Endpoints, MetaType
<1>3. \A a \in Nat : \A c : a + Count(c) \in Nat
  BY <1>1
<1>4. ObserveCounters(fa, m) \in Accumulators
  <2> USE DEF Accumulators
  <2>1. fa.packetCount + 1 \in Nat /\ m.ts \in Nat
    BY DEF MetaType
  <2>2. /\ fa.forwardCount \in Nat /\ fa.reverseCount \in Nat /\ fa.synCount \in Nat
        /\ fa.ackPshCount \in Nat /\ fa.iatSamples \in Nat
    OBVIOUS
  <2>3. /\ fa.forwardCount + Count(srcIsLo(m)) \in Nat
        /\ fa.reverseCount + Count(~srcIsLo(m)) \in Nat
        /\ fa.synCount + Count(m.tcp /\ "SYN" \in m.flags) \in Nat
        /\ fa.ackPshCount + Count(m.tcp /\ m.flags \cap {"ACK", "PSH"} # {}) \in Nat
        /\ fa.iatSamples + Count(fa.lastTimestamp # 0 /\ m.ts > fa.lastTimestamp) \in Nat
    BY <1>3, <2>2, Zenon
  <2> QED
    BY <2>1, <2>3 DEF ObserveCounters
<1>5. \A g \in Accumulators : \A e \in [src : Nat, dst : Nat, sport : Nat, dport : Nat] :
         [g EXCEPT !.first = e] \in Accumulators
  BY DEF Accumulators
<1>6. (IF fa.packetCount = 0 THEN Endpoints(m) ELSE ObserveCounters(fa, m).first)
         \in [src : Nat, dst : Nat, sport : Nat, dport : Nat]
  BY <1>2, <1>4 DEF Accumulators
<1> QED
  BY <1>4, <1>5, <1>6, Zenon DEF ObserveFlow

\* Counting a port keeps the tracker one.
LEMMA ObservePortType ==
  ASSUME NEW pt \in Trackers, NEW p \in PortKeys PROVE ObservePort(pt, p) \in Trackers
<1>1. overflowPortKey \in PortKeys
  BY DEF PortKeys
<1>2. \A b \in PortKeys : [pt.counts EXCEPT ![b] = @ + 1] \in [PortKeys -> Nat]
  BY DEF Trackers
<1>3. pt.total + 1 \in Nat
  BY DEF Trackers
<1> QED
  BY <1>1, <1>2, <1>3 DEF ObservePort, Trackers

\* Empty accumulators and trackers.
LEMMA EmptyTypes == NoFlow \in Accumulators /\ NoTracker \in Trackers
BY DEF NoFlow, NoEndpoints, NoTracker, Accumulators, Trackers

\* A record's flow, source and port are among those there are.
LEMMA RecordKeys ==
  ASSUME NEW m \in Meta
  PROVE  FlowKey(m) \in FlowKeys /\ m.src \in SrcIPs /\ m.dport \in PortKeys /\ m \in MetaType
BY AggregatorAssumption DEF FlowKeys, SrcIPs, PortKeys

\* The tables keep their types.
LEMMA StepTableTypes == AInv /\ TableTypes /\ [Next]_vars => TableTypes'
<1> SUFFICES ASSUME AInv, TableTypes, [Next]_vars PROVE TableTypes'
  OBVIOUS
<1>0. trace \in Seq(Meta) /\ Len(trace) \in Nat /\ reading \in [Readers -> 0 .. Len(trace)]
  BY DEF AInv, Windows
<1>1. ASSUME NEW r \in Readers, NEW m \in Meta, IngestFlow(r, m) PROVE TableTypes'
  <2>1. ObserveFlow(flows[FlowKey(m)], m) \in Accumulators
    BY RecordKeys, ObserveType DEF TableTypes
  <2>2. flows' \in [FlowKeys -> Accumulators]
    BY <1>1, <2>1, RecordKeys DEF IngestFlow, TableTypes
  <2> QED
    BY <1>1, <2>2, Zenon DEF IngestFlow, TableTypes
<1>2. ASSUME NEW r \in Readers, NEW m \in Meta, IngestRejected(r, m) PROVE TableTypes'
  <2>1. droppedNewFlows' \in Nat
    BY <1>2 DEF IngestRejected, TableTypes
  <2> QED
    BY <1>2, <2>1, Zenon DEF IngestRejected, TableTypes
<1>3. ASSUME NEW r \in Readers, IngestPort(r) PROVE TableTypes'
  <2> DEFINE m == trace[reading[r]]
  <2>1. m \in Meta
    BY <1>0, <1>3 DEF IngestPort
  <2>2. ObservePort(ports[m.src], m.dport) \in Trackers
    BY <2>1, RecordKeys, ObservePortType DEF TableTypes
  <2>3. ports' = [ports EXCEPT ![m.src] = ObservePort(ports[m.src], m.dport)]
    BY <1>3 DEF IngestPort
  <2>4. ports' \in [SrcIPs -> Trackers]
    <3> HIDE DEF m
    <3> QED
      BY <2>2, <2>3 DEF TableTypes
  <2> QED
    BY <1>3, <2>4, Zenon DEF IngestPort, TableTypes
<1>4. CASE Cancel
  BY <1>4, Zenon DEF Cancel, TableTypes
<1>5. ASSUME NEW final \in BOOLEAN, BeginFlush(final) PROVE TableTypes'
  <2>1. portSnapshot' \in [SrcIPs -> Trackers]
    BY <1>5, EmptyTypes DEF BeginFlush
  <2> QED
    BY <1>5, <2>1, Zenon DEF BeginFlush, TableTypes
<1>6. CASE FlushPorts
  <2>1. ports' \in [SrcIPs -> Trackers] /\ portSnapshot' \in [SrcIPs -> Trackers]
    BY <1>6, EmptyTypes DEF FlushPorts, TableTypes
  <2> QED
    BY <1>6, <2>1, Zenon DEF FlushPorts, TableTypes
<1>7. CASE FlushFlows
  <2>1. flows' \in [FlowKeys -> Accumulators]
    BY <1>7, EmptyTypes DEF FlushFlows, TableTypes
  <2> QED
    BY <1>7, <2>1, Zenon DEF FlushFlows, TakeFlows, TableTypes
<1>8. ASSUME NEW f \in batch, EmitSend(f) PROVE TableTypes'
  BY <1>8, Zenon DEF EmitSend, EmitDone, TableTypes
<1>9. ASSUME NEW f \in batch, EmitDrop(f) PROVE TableTypes'
  <2>1. droppedOutput' \in Nat
    BY <1>9 DEF EmitDrop, TableTypes
  <2> QED
    BY <1>9, <2>1, Zenon DEF EmitDrop, EmitDone, TableTypes
<1>10. CASE Close
  BY <1>10, Zenon DEF Close, TableTypes
<1>11. CASE Receive
  BY <1>11, Zenon DEF Receive, TableTypes
<1>12. CASE UNCHANGED vars
  BY <1>12, Zenon DEF vars, TableTypes
<1> QED
  BY <1>1, <1>2, <1>3, <1>4, <1>5, <1>6, <1>7, <1>8, <1>9, <1>10, <1>11, <1>12 DEF Next

\* What a step does to the flow map under way.
LEMMA StepBatched == CInv /\ [Next]_vars => Batched'
<1> SUFFICES ASSUME CInv, [Next]_vars PROVE Batched'
  OBVIOUS
<1>0. Batched /\ TableTypes
  BY DEF CInv
<1>1. CASE FlushFlows
  <2>1. \A f \in batch' : f[1] \in FlowKeys /\ f[2] \in Accumulators /\ f[2].packetCount > 0
    BY <1>0, <1>1 DEF FlushFlows, TakeFlows, FlowsIn, TableTypes
  <2>2. batch' # {} => runPC' \in {"emit", "emit_final"}
    BY <1>1 DEF FlushFlows, TakeFlows
  <2> QED
    BY <2>1, <2>2 DEF Batched
<1>2. ASSUME NEW f \in batch, EmitSend(f) \/ EmitDrop(f) PROVE Batched'
  <2>1. batch' \subseteq batch /\ (batch' # {} => runPC' = runPC)
    BY <1>2, Zenon DEF EmitSend, EmitDrop, EmitDone
  <2>2. runPC \in {"emit", "emit_final"}
    BY <1>2, Zenon DEF EmitSend, EmitDrop, EmitDone
  <2> QED
    BY <1>0, <2>1, <2>2, Zenon DEF Batched
<1>3. CASE runPC \notin {"emit", "emit_final"} /\ batch' = batch
  BY <1>0, <1>3, Zenon DEF Batched
<1>4. CASE runPC' = runPC /\ batch' = batch
  BY <1>0, <1>4, Zenon DEF Batched
<1>5. ASSUME NEW r \in Readers, NEW m \in Meta, IngestFlow(r, m) \/ IngestRejected(r, m)
      PROVE  runPC' = runPC /\ batch' = batch
  BY <1>5, Zenon DEF IngestFlow, IngestRejected
<1>6. ASSUME NEW r \in Readers, IngestPort(r) PROVE runPC' = runPC /\ batch' = batch
  BY <1>6, Zenon DEF IngestPort
<1>7. CASE Cancel \/ Receive \/ UNCHANGED vars
  BY <1>4, <1>7, Zenon DEF Cancel, Receive, vars
<1>8. ASSUME NEW final \in BOOLEAN, BeginFlush(final) PROVE Batched'
  BY <1>3, <1>8 DEF BeginFlush
<1>9. CASE FlushPorts \/ Close
  BY <1>3, <1>9 DEF FlushPorts, Close
<1> QED
  BY <1>1, <1>2, <1>4, <1>5, <1>6, <1>7, <1>8, <1>9 DEF Next

\* The steps that leave the channel and the window alone.
LEMMA ChannelFrame ==
  ASSUME Next
  PROVE  \/ UNCHANGED <<out, window>>
         \/ \E final \in BOOLEAN : BeginFlush(final)
         \/ \E f \in batch : EmitSend(f)
         \/ Receive
<1>1. ASSUME NEW r \in Readers, NEW m \in Meta, IngestFlow(r, m) \/ IngestRejected(r, m)
      PROVE  UNCHANGED <<out, window>>
  BY <1>1, Zenon DEF IngestFlow, IngestRejected
<1>2. ASSUME NEW r \in Readers, IngestPort(r) PROVE UNCHANGED <<out, window>>
  BY <1>2, Zenon DEF IngestPort
<1>3. CASE Cancel \/ FlushPorts \/ FlushFlows \/ Close
  BY <1>3, Zenon DEF Cancel, FlushPorts, FlushFlows, TakeFlows, Close
<1>4. ASSUME NEW f \in batch, EmitDrop(f) PROVE UNCHANGED <<out, window>>
  BY <1>4, Zenon DEF EmitDrop, EmitDone
<1> QED
  BY <1>1, <1>2, <1>3, <1>4, Zenon DEF Next

\* What the channel gains.
LEMMA Appended ==
  ASSUME NEW S, NEW o \in Seq(S), NEW e
  PROVE  /\ \E T : Append(o, e) \in Seq(T)
         /\ Len(Append(o, e)) = Len(o) + 1
         /\ \A n \in 1 .. Len(o) : Append(o, e)[n] = o[n]
         /\ Append(o, e)[Len(o) + 1] = e
<1>1. o \in Seq(S \cup {e})
  OBVIOUS
<1>2. Append(o, e) \in Seq(S \cup {e})
  BY <1>1
<1> QED
  BY <1>1, <1>2

\* What the channel loses.
LEMMA Removed ==
  ASSUME NEW S, NEW o \in Seq(S), o # <<>>
  PROVE  /\ Tail(o) \in Seq(S) /\ Len(Tail(o)) = Len(o) - 1 /\ Len(o) \in Nat \ {0}
         /\ \A n \in 1 .. Len(o) - 1 : Tail(o)[n] = o[n + 1]
OBVIOUS

\* The channel holds features of windows that began.
LEMMA StepQueued == CInv /\ [Next]_vars => Queued'
<1> SUFFICES ASSUME CInv, [Next]_vars PROVE Queued'
  OBVIOUS
<1>0. Queued /\ Batched /\ window \in Nat /\ (Flushing => window > 0)
  BY Zenon DEF CInv, AInv, Windows
<1>1. PICK S : out \in Seq(S)
  BY <1>0, Zenon DEF Queued
<1>2. CASE UNCHANGED <<out, window>>
  BY <1>0, <1>2, Zenon DEF Queued
<1>3. ASSUME NEW final \in BOOLEAN, BeginFlush(final) PROVE Queued'
  <2>1. out' = out /\ window' = window + 1
    BY <1>3, Zenon DEF BeginFlush
  <2>2. \A w \in Nat : w <= window => w <= window'
    BY <1>0, <2>1
  <2> QED
    BY <1>0, <2>1, <2>2, Zenon DEF Queued
<1>4. ASSUME NEW f \in batch, EmitSend(f) PROVE Queued'
  <2> DEFINE e == Feature(f[1], f[2], window)
  <2>1. out' = Append(out, e) /\ window' = window /\ Flushing
    BY <1>4 DEF EmitSend, EmitDone, Flushing
  <2>2. e.key = f[1] /\ e.acc = f[2] /\ e.window = window
    BY DEF Feature
  <2>3. f[1] \in FlowKeys /\ f[2] \in Accumulators /\ f[2].packetCount > 0
    BY <1>0, <1>4, Zenon DEF Batched
  <2> HIDE DEF e
  <2>4. /\ \E T : out' \in Seq(T)
        /\ Len(out') = Len(out) + 1 /\ Len(out) \in Nat
        /\ \A n \in 1 .. Len(out) : out'[n] = out[n]
        /\ out'[Len(out) + 1] = e
    <3>1. Len(out) \in Nat
      BY <1>1
    <3>2. Len(Append(out, e)) = Len(out) + 1 /\ Append(out, e)[Len(out) + 1] = e
      BY <1>1, Appended, SMT
    <3>3. (\E T : Append(out, e) \in Seq(T)) /\ \A n \in 1 .. Len(out) : Append(out, e)[n] = out[n]
      BY <1>1, Appended, Zenon
    <3> QED
      BY <2>1, <3>1, <3>2, <3>3, Zenon
  <2>5. ASSUME NEW n \in 1 .. Len(out'), n \notin 1 .. Len(out) PROVE out'[n] = e
    BY <2>4, <2>5
  <2>6. window <= window /\ 0 < window
    BY <1>0, <2>1
  <2> QED
    BY <1>0, <2>1, <2>2, <2>3, <2>4, <2>5, <2>6, Zenon DEF Queued
<1>5. CASE Receive
  <2>1. out' = Tail(out) /\ window' = window /\ out # <<>>
    BY <1>5, Zenon DEF Receive
  <2>2. /\ out' \in Seq(S) /\ Len(out') = Len(out) - 1 /\ Len(out) \in Nat \ {0}
        /\ \A n \in 1 .. Len(out) - 1 : out'[n] = out[n + 1]
    BY <1>1, <2>1, Removed, Zenon
  <2>3. ASSUME NEW n \in 1 .. Len(out') PROVE n + 1 \in 1 .. Len(out) /\ out'[n] = out[n + 1]
    BY <2>2, <2>3
  <2> QED
    BY <1>0, <2>1, <2>2, <2>3, Zenon DEF Queued
<1> QED
  BY <1>2, <1>3, <1>4, <1>5, ChannelFrame, Zenon DEF vars

\* Past shard s, the second loop has s behind it.
LEMMA LoopMovesOn ==
  ASSUME AInv, NEW phase \in {"flows", "flows_final"}, NextShard(phase),
         NEW x \in 1 .. numShards, x <= shardAt
  PROVE  /\ runPC' \notin {"ports", "ports_final", "emit", "emit_final"}
         /\ runPC' \in {"flows", "flows_final"} => x < shardAt'
<1>1. shardAt \in Nat /\ numShards \in Nat
  BY AggregatorAssumption DEF AInv, Windows, Shards
<1> QED
  BY <1>1 DEF NextShard, After

\* What this flush has taken stays behind it.
LEMMA StepTakenBehind == CInv /\ [Next]_vars => TakenBehind'
<1> SUFFICES ASSUME CInv, [Next]_vars PROVE TakenBehind'
  OBVIOUS
<1>0. /\ AInv /\ TakenBehind /\ trace \in Seq(Meta) /\ Len(trace) \in Nat
      /\ window \in Nat /\ MaxPackets \in Nat /\ Len(trace) <= MaxPackets
      /\ flowWindow \in [Ids -> Nat] /\ shardAt \in Nat
      /\ \A i \in Ids : flowWindow[i] <= window /\ (i > Len(trace) => flowWindow[i] = 0)
      /\ Flushing => window > 0
  BY AggregatorAssumption DEF CInv, AInv, Windows, Shards
<1>a. \A i \in 1 .. Len(trace) : i \in Ids
  BY <1>0
<1>1. CASE UNCHANGED <<trace, flowWindow, window, runPC, shardAt>>
  BY <1>0, <1>1, Zenon DEF TakenBehind, Ahead
<1>2. ASSUME NEW r \in Readers, NEW m \in Meta, IngestFlow(r, m) PROVE TakenBehind'
  <2>1. /\ trace' = Append(trace, m) /\ Len(trace) < MaxPackets
        /\ UNCHANGED <<flowWindow, window, runPC, shardAt>>
    BY <1>2, Zenon DEF IngestFlow
  <2>2. Len(trace') = Len(trace) + 1 /\ \A i \in 1 .. Len(trace) : trace'[i] = trace[i]
    BY <1>0, <2>1
  <2>3. ASSUME NEW i \in 1 .. Len(trace'), flowWindow[i] = window PROVE ~Ahead(i)'
    <3>1. CASE i \in 1 .. Len(trace)
      BY <1>0, <2>1, <2>2, <2>3, <3>1, Zenon DEF TakenBehind, Ahead
    <3>2. CASE i = Len(trace) + 1
      <4>1. i \in Ids /\ i > Len(trace)
        BY <1>0, <2>1, <3>2
      <4>2. window = 0
        BY <1>0, <2>3, <4>1
      <4>3. ~Flushing
        BY <1>0, <4>2
      <4> QED
        BY <2>1, <4>3 DEF Flushing, Ahead
    <3> QED
      BY <1>0, <2>2, <3>1, <3>2
  <2> QED
    BY <2>1, <2>3, Zenon DEF TakenBehind
<1>3. ASSUME NEW final \in BOOLEAN, BeginFlush(final) PROVE TakenBehind'
  <2>1. window' = window + 1 /\ UNCHANGED <<flowWindow, trace>>
    BY <1>3, Zenon DEF BeginFlush
  <2>2. \A i \in 1 .. Len(trace) : flowWindow[i] # window + 1
    BY <1>0, <1>a
  <2> QED
    BY <2>1, <2>2, Zenon DEF TakenBehind
<1>4. CASE FlushPorts
  <2>1. UNCHANGED <<flowWindow, trace, window>> /\ runPC \in {"ports", "ports_final"}
    BY <1>4, Zenon DEF FlushPorts
  <2>2. \A i \in 1 .. Len(trace) : flowWindow[i] # window
    BY <1>0, <2>1, Zenon DEF TakenBehind, Ahead
  <2> QED
    BY <2>1, <2>2, Zenon DEF TakenBehind
<1>5. CASE FlushFlows
  <2>1. /\ runPC \in {"flows", "flows_final"} /\ UNCHANGED <<trace, window>>
        /\ \/ NextShard(runPC)
           \/ runPC' \in {"emit", "emit_final"} /\ shardAt' = shardAt
        /\ flowWindow' = [i \in Ids |->
                             IF /\ i \in DOMAIN trace /\ flowWindow[i] = 0
                                /\ shardIndex(FlowKey(trace[i])) = shardAt
                             THEN window ELSE flowWindow[i]]
    BY <1>5 DEF FlushFlows, TakeFlows
  <2>2. ASSUME NEW i \in 1 .. Len(trace), flowWindow'[i] = window PROVE ~Ahead(i)'
    <3> DEFINE x == shardIndex(FlowKey(trace[i]))
    <3>1. x \in 1 .. numShards
      BY <1>0, ShardOfRecord
    <3>2. \/ x = shardAt
          \/ flowWindow[i] = window
      BY <1>a, <2>1, <2>2
    <3>3. x <= shardAt
      <4>1. CASE flowWindow[i] = window
        <5>1. ~(x >= shardAt)
          BY <1>0, <2>1, <4>1, Zenon DEF TakenBehind, Ahead
        <5> QED
          BY <1>0, <3>1, <5>1
      <4>2. CASE x = shardAt
        BY <1>0, <4>2
      <4> QED
        BY <3>2, <4>1, <4>2
    <3>4. x = shardIndex(FlowKey(trace[i]))'
      BY <2>1
    <3> HIDE DEF x
    <3>5. CASE NextShard(runPC)
      <4>1. /\ runPC' \notin {"ports", "ports_final", "emit", "emit_final"}
            /\ runPC' \in {"flows", "flows_final"} => x < shardAt'
        BY <1>0, <2>1, <3>1, <3>3, <3>5, LoopMovesOn, Zenon
      <4>2. shardAt' \in Nat
        BY <1>0, <3>5, AggregatorAssumption DEF NextShard
      <4>3. runPC' \in {"flows", "flows_final"} => ~(x >= shardAt')
        BY <3>1, <4>1, <4>2
      <4> QED
        BY <3>4, <4>1, <4>3, Zenon DEF Ahead
    <3>6. CASE runPC' \in {"emit", "emit_final"} /\ shardAt' = shardAt
      <4>1. ~(x > shardAt')
        BY <1>0, <3>1, <3>3, <3>6
      <4> QED
        BY <3>4, <3>6, <4>1 DEF Ahead
    <3> QED
      BY <2>1, <3>5, <3>6
  <2> QED
    BY <2>1, <2>2, Zenon DEF TakenBehind
<1>6. ASSUME NEW f \in batch, EmitSend(f) \/ EmitDrop(f) PROVE TakenBehind'
  <2>1. /\ runPC \in {"emit", "emit_final"} /\ UNCHANGED <<trace, window, flowWindow>>
        /\ \/ \E phase \in {"flows", "flows_final"} : NextShard(phase)
           \/ UNCHANGED <<runPC, shardAt>>
    BY <1>6, Zenon DEF EmitSend, EmitDrop, EmitDone
  <2>2. CASE UNCHANGED <<runPC, shardAt>>
    BY <1>1, <2>1, <2>2
  <2>3. ASSUME NEW phase \in {"flows", "flows_final"}, NextShard(phase) PROVE TakenBehind'
    <3> SUFFICES ASSUME NEW i \in 1 .. Len(trace), flowWindow[i] = window PROVE ~Ahead(i)'
      BY <2>1, Zenon DEF TakenBehind
    <3> DEFINE x == shardIndex(FlowKey(trace[i]))
    <3>1. x \in 1 .. numShards
      BY <1>0, ShardOfRecord
    <3>2. ~(x > shardAt)
      BY <1>0, <2>1, Zenon DEF TakenBehind, Ahead
    <3>3. x <= shardAt
      BY <1>0, <3>1, <3>2
    <3>4. x = shardIndex(FlowKey(trace[i]))'
      BY <2>1
    <3> HIDE DEF x
    <3>5. /\ runPC' \notin {"ports", "ports_final", "emit", "emit_final"}
          /\ runPC' \in {"flows", "flows_final"} => x < shardAt'
      BY <1>0, <2>3, <3>1, <3>3, LoopMovesOn, Zenon
    <3>6. shardAt' \in Nat
      BY <1>0, <2>3, AggregatorAssumption DEF NextShard
    <3>7. runPC' \in {"flows", "flows_final"} => ~(x >= shardAt')
      BY <3>1, <3>5, <3>6
    <3> QED
      BY <3>4, <3>5, <3>7, Zenon DEF Ahead
  <2> QED
    BY <2>1, <2>2, <2>3
<1>7. CASE Close
  <2>1. runPC' = "done"
    BY <1>7 DEF Close
  <2> QED
    BY <2>1 DEF TakenBehind, Ahead
<1>8. ASSUME NEW r \in Readers, NEW m \in Meta, IngestRejected(r, m) PROVE TakenBehind'
  BY <1>1, <1>8, Zenon DEF IngestRejected
<1>9. ASSUME NEW r \in Readers, IngestPort(r) PROVE TakenBehind'
  BY <1>1, <1>9, Zenon DEF IngestPort
<1>10. CASE Cancel \/ Receive \/ UNCHANGED vars
  BY <1>1, <1>10, Zenon DEF Cancel, Receive, vars
<1> QED
  BY <1>2, <1>3, <1>4, <1>5, <1>6, <1>7, <1>8, <1>9, <1>10, Zenon DEF Next

\* A record counted joins the open records of its flow, and no others.
LEMMA RecsAppended ==
  ASSUME NEW n \in Nat, NEW t, NEW u, NEW m, NEW fw, Len(t) = n, Len(u) = n + 1,
         \A i \in 1 .. n : u[i] = t[i], u[n + 1] = m, fw[n + 1] = 0, NEW k, NEW w
  PROVE  Recs(u, fw, k, w) = IF k = FlowKey(m) /\ w = 0 THEN Recs(t, fw, k, w) \cup {n + 1}
                             ELSE Recs(t, fw, k, w)
<1>1. \A i : i \in 1 .. n + 1 <=> i \in 1 .. n \/ i = n + 1
  OBVIOUS
<1>2. \A i : i \in Recs(u, fw, k, w) <=>
             i \in Recs(t, fw, k, w) \/ (i = n + 1 /\ FlowKey(m) = k /\ w = 0)
  BY <1>1, Zenon DEF Recs
<1> QED
  BY <1>2

\* No records: the empty accumulator; some packets: some records.
LEMMA EmptyTallies ==
  ASSUME NEW t
  PROVE  /\ Tallies(t, NoFlow, {})
         /\ \A fa, S : Tallies(t, fa, S) /\ fa.packetCount > 0 => S # {}
<1>1. LoOf(t, {}) = {} /\ SynOf(t, {}) = {} /\ AckPshOf(t, {}) = {} /\ SpacedOf(t, {}) = {}
  BY DEF LoOf, SynOf, AckPshOf, SpacedOf
<1>2. Cardinality({}) = 0
  BY FS_EmptySet
<1>3. Tallies(t, NoFlow, {})
  BY <1>1, <1>2 DEF Tallies, NoFlow
<1>4. ASSUME NEW fa, NEW S, Tallies(t, fa, S), fa.packetCount > 0 PROVE S # {}
  BY <1>2, <1>4 DEF Tallies
<1> QED
  BY <1>3, <1>4, Zenon

\* The steps that leave the records and the flow tables alone.
LEMMA CountersFrame ==
  ASSUME Next
  PROVE  \/ UNCHANGED <<trace, flowWindow, flows>>
         \/ \E r \in Readers, m \in Meta : IngestFlow(r, m)
         \/ FlushFlows
<1>1. ASSUME NEW r \in Readers, NEW m \in Meta, IngestRejected(r, m)
      PROVE  UNCHANGED <<trace, flowWindow, flows>>
  BY <1>1, Zenon DEF IngestRejected
<1>2. ASSUME NEW r \in Readers, IngestPort(r) PROVE UNCHANGED <<trace, flowWindow, flows>>
  BY <1>2, Zenon DEF IngestPort
<1>3. CASE Cancel \/ FlushPorts \/ Close \/ Receive
  BY <1>3, Zenon DEF Cancel, FlushPorts, Close, Receive
<1>4. ASSUME NEW final \in BOOLEAN, BeginFlush(final) PROVE UNCHANGED <<trace, flowWindow, flows>>
  BY <1>4, Zenon DEF BeginFlush
<1>5. ASSUME NEW f \in batch, EmitSend(f) \/ EmitDrop(f)
      PROVE  UNCHANGED <<trace, flowWindow, flows>>
  BY <1>5, Zenon DEF EmitSend, EmitDrop, EmitDone
<1> QED
  BY <1>1, <1>2, <1>3, <1>4, <1>5, Zenon DEF Next

\* A record goes to the open accumulator of its flow, and to no other.
LEMMA IngestExact ==
  ASSUME CInv, NEW r \in Readers, NEW m \in Meta, IngestFlow(r, m)
  PROVE  Exact'
<1> DEFINE n == Len(trace)
<1>0. /\ trace \in Seq(Meta) /\ n \in Nat /\ MaxPackets \in Nat /\ n < MaxPackets
      /\ \A i \in Ids : i > n => flowWindow[i] = 0
      /\ flows \in [FlowKeys -> Accumulators] /\ window \in Nat
      /\ Flushing => window > 0
  BY AggregatorAssumption DEF CInv, AInv, Windows, TableTypes, IngestFlow
<1>1. /\ flows' = [flows EXCEPT ![FlowKey(m)] = ObserveFlow(flows[FlowKey(m)], m)]
      /\ trace' = Append(trace, m) /\ UNCHANGED <<flowWindow, window, batch, out>>
  BY Zenon DEF IngestFlow
<1>2. /\ Len(trace') = n + 1 /\ trace'[n + 1] = m
      /\ \A i \in 1 .. n : trace'[i] = trace[i]
  BY <1>0, <1>1
<1>3. flowWindow[n + 1] = 0
  BY <1>0
<1>4. m \in MetaType /\ FlowKey(m) \in FlowKeys
  BY RecordKeys
<1>5. \A k, w : Recs(trace, flowWindow, k, w) \subseteq 1 .. n
  BY DEF Recs
<1>6. Exact
  BY Zenon DEF CInv
<1>a. n = Len(trace)
  OBVIOUS
<1> HIDE DEF n
<1>7. \A k, w : Recs(trace', flowWindow, k, w) =
                  IF k = FlowKey(m) /\ w = 0 THEN Recs(trace, flowWindow, k, w) \cup {n + 1}
                  ELSE Recs(trace, flowWindow, k, w)
  <2> TAKE k, w
  <2> QED
    BY <1>0, <1>2, <1>3, <1>a, RecsAppended
<1>8. ASSUME NEW k, NEW w, NEW fa, ~(k = FlowKey(m) /\ w = 0),
             Tallies(trace, fa, Recs(trace, flowWindow, k, w))
      PROVE  Tallies(trace', fa, Recs(trace', flowWindow, k, w))
  <2>1. Recs(trace', flowWindow, k, w) = Recs(trace, flowWindow, k, w)
    BY <1>7, <1>8, Zenon
  <2>2. \A i \in Recs(trace, flowWindow, k, w) : trace'[i] = trace[i]
    BY <1>2, <1>5, Zenon
  <2>3. Tallies(trace', fa, Recs(trace, flowWindow, k, w))
    BY <1>0, <1>5, <1>8, <2>2, TalliesFrame, Zenon
  <2> QED
    BY <2>1, <2>3, Zenon
<1>9. ASSUME NEW k \in FlowKeys PROVE Tallies(trace', flows'[k], Recs(trace', flowWindow, k, 0))
  <2>1. CASE k = FlowKey(m)
    <3>1. Tallies(trace', ObserveFlow(flows[k], m), Recs(trace, flowWindow, k, 0) \cup {n + 1})
      <4>1. Tallies(trace, flows[k], Recs(trace, flowWindow, k, 0)) /\ flows[k] \in Accumulators
        BY <1>0, <1>6 DEF Exact
      <4> QED
        BY <1>0, <1>2, <1>4, <1>5, <4>1, ObserveTallies, Zenon
    <3>2. flows'[k] = ObserveFlow(flows[k], m)
      BY <1>0, <1>1, <2>1
    <3>3. Recs(trace', flowWindow, k, 0) = Recs(trace, flowWindow, k, 0) \cup {n + 1}
      BY <1>7, <2>1, Zenon
    <3> QED
      BY <3>1, <3>2, <3>3, Zenon
  <2>2. CASE k # FlowKey(m)
    <3>1. flows'[k] = flows[k]
      BY <1>0, <1>1, <2>2
    <3>2. Tallies(trace, flows[k], Recs(trace, flowWindow, k, 0))
      BY <1>6, Zenon DEF Exact
    <3> QED
      BY <1>8, <2>2, <3>1, <3>2, Zenon
  <2> QED
    BY <2>1, <2>2, Zenon
<1>10. ASSUME NEW f \in batch PROVE Tallies(trace', f[2], Recs(trace', flowWindow, f[1], window))
  <2>1. window # 0
    <3>1. Flushing
      BY <1>10 DEF CInv, Batched, Flushing
    <3> QED
      BY <1>0, <3>1
  <2>2. Tallies(trace, f[2], Recs(trace, flowWindow, f[1], window))
    BY <1>6, <1>10, Zenon DEF Exact
  <2> QED
    BY <1>8, <2>1, <2>2, Zenon
<1>11. ASSUME NEW j \in 1 .. Len(out)
       PROVE  Tallies(trace', out[j].acc, Recs(trace', flowWindow, out[j].key, out[j].window))
  <2>1. out[j].window # 0
    <3>1. out[j].window \in Nat /\ 0 < out[j].window
      BY <1>11, Zenon DEF CInv, Queued
    <3> QED
      BY <3>1
  <2>2. Tallies(trace, out[j].acc, Recs(trace, flowWindow, out[j].key, out[j].window))
    BY <1>6, <1>11, Zenon DEF Exact
  <2> QED
    BY <1>8, <2>1, <2>2, Zenon
<1> QED
  BY <1>1, <1>9, <1>10, <1>11, Zenon DEF Exact

\* A shard taken: its open accumulators become those of this window.
LEMMA FlushExact ==
  ASSUME CInv, FlushFlows
  PROVE  Exact'
<1> DEFINE mine(k) == shardIndex(k) = shardAt
<1>0. /\ trace \in Seq(Meta) /\ Len(trace) \in Nat /\ MaxPackets \in Nat /\ Len(trace) <= MaxPackets
      /\ flows \in [FlowKeys -> Accumulators] /\ window \in Nat /\ shardAt \in Nat
      /\ Flushing => window > 0
  BY AggregatorAssumption DEF CInv, AInv, Windows, TableTypes, Shards
<1>1. /\ runPC \in {"flows", "flows_final"} /\ UNCHANGED <<trace, window, out>>
      /\ batch' = {<<k, flows[k]>> : k \in FlowsIn(shardAt)}
      /\ flows' = [k \in FlowKeys |-> IF mine(k) THEN NoFlow ELSE flows[k]]
      /\ flowWindow' = [i \in Ids |->
                           IF /\ i \in DOMAIN trace /\ flowWindow[i] = 0
                              /\ shardIndex(FlowKey(trace[i])) = shardAt
                           THEN window ELSE flowWindow[i]]
  BY Zenon DEF FlushFlows, TakeFlows
<1>2. window # 0
  BY <1>0, <1>1 DEF Flushing
<1>3. \A i \in 1 .. Len(trace) :
        flowWindow'[i] = IF flowWindow[i] = 0 /\ mine(FlowKey(trace[i]))
                         THEN window ELSE flowWindow[i]
  BY <1>0, <1>1
<1>4. Exact
  BY Zenon DEF CInv
<1>5. ASSUME NEW k, mine(k) PROVE Recs(trace, flowWindow, k, window) = {}
  <2>1. ASSUME NEW i \in 1 .. Len(trace), FlowKey(trace[i]) = k PROVE Ahead(i)
    <3>1. shardIndex(FlowKey(trace[i])) >= shardAt
      BY <1>0, <1>5, <2>1
    <3> QED
      BY <1>1, <3>1, Zenon DEF Ahead
  <2> QED
    BY <2>1, Zenon DEF Recs, CInv, TakenBehind
<1>6. ASSUME NEW k, mine(k)
      PROVE  /\ Recs(trace, flowWindow', k, 0) = {}
             /\ Recs(trace, flowWindow', k, window) = Recs(trace, flowWindow, k, 0)
  <2>1. \A i \in 1 .. Len(trace) : FlowKey(trace[i]) = k => flowWindow[i] # window
    BY <1>5, <1>6, Zenon DEF Recs
  <2> QED
    BY <1>2, <1>3, <1>6, <2>1, Zenon DEF Recs
<1>7. \A k : ~mine(k) => \A w : Recs(trace, flowWindow', k, w) = Recs(trace, flowWindow, k, w)
  BY <1>3, Zenon DEF Recs
<1>8. \A k, w : w # 0 /\ w # window => Recs(trace, flowWindow', k, w) = Recs(trace, flowWindow, k, w)
  BY <1>3, Zenon DEF Recs
<1>10. ASSUME NEW k \in FlowKeys PROVE Tallies(trace, flows'[k], Recs(trace, flowWindow', k, 0))
  <2>1. CASE mine(k)
    <3>1. flows'[k] = NoFlow
      BY <1>1, <2>1
    <3> QED
      BY <1>6, <2>1, <3>1, EmptyTallies, Zenon
  <2>2. CASE ~mine(k)
    <3>1. flows'[k] = flows[k]
      BY <1>1, <2>2
    <3> QED
      BY <1>4, <1>7, <2>2, <3>1, Zenon DEF Exact
  <2> QED
    BY <2>1, <2>2, Zenon
<1>11. ASSUME NEW f \in batch' PROVE Tallies(trace, f[2], Recs(trace, flowWindow', f[1], window))
  <2>1. PICK k \in FlowKeys : mine(k) /\ f = <<k, flows[k]>>
    BY <1>1, <1>11 DEF FlowsIn
  <2>2. f[1] = k /\ f[2] = flows[k]
    BY <2>1
  <2>3. Recs(trace, flowWindow', k, window) = Recs(trace, flowWindow, k, 0)
    BY <1>6, <2>1, Zenon
  <2> QED
    BY <1>4, <2>2, <2>3, Zenon DEF Exact
<1>12. ASSUME NEW j \in 1 .. Len(out)
       PROVE  Tallies(trace, out[j].acc, Recs(trace, flowWindow', out[j].key, out[j].window))
  <2>1. out[j].window # 0 /\ out[j].acc.packetCount > 0
    <3>1. out[j].window \in Nat /\ 0 < out[j].window /\ out[j].acc.packetCount > 0
      BY <1>12, Zenon DEF CInv, Queued
    <3> QED
      BY <3>1
  <2>2. Tallies(trace, out[j].acc, Recs(trace, flowWindow, out[j].key, out[j].window))
    BY <1>4, <1>12, Zenon DEF Exact
  <2>3. Recs(trace, flowWindow, out[j].key, out[j].window) # {}
    BY <2>1, <2>2, EmptyTallies, Zenon
  <2>4. ~(mine(out[j].key) /\ out[j].window = window)
    BY <1>5, <2>3, Zenon
  <2>5. Recs(trace, flowWindow', out[j].key, out[j].window) =
          Recs(trace, flowWindow, out[j].key, out[j].window)
    BY <1>7, <1>8, <2>1, <2>4, Zenon
  <2> QED
    BY <2>2, <2>5, Zenon
<1> QED
  BY <1>1, <1>10, <1>11, <1>12, Zenon DEF Exact

\* Wherever it is, an accumulator keeps the tally of its records.
LEMMA StepExact == CInv /\ [Next]_vars => Exact'
<1> SUFFICES ASSUME CInv, [Next]_vars PROVE Exact'
  OBVIOUS
<1>0. Exact /\ Queued /\ Batched
  BY Zenon DEF CInv
<1>1. PICK S : out \in Seq(S)
  BY <1>0, Zenon DEF Queued
<1>2. CASE UNCHANGED <<trace, flowWindow, flows>>
  <2>1. \A k \in FlowKeys : Tallies(trace', flows'[k], Recs(trace', flowWindow', k, 0))
    BY <1>0, <1>2, Zenon DEF Exact
  <2>2. \A f \in batch' : Tallies(trace', f[2], Recs(trace', flowWindow', f[1], window'))
    <3>1. CASE batch' \subseteq batch /\ window' = window
      BY <1>0, <1>2, <3>1, Zenon DEF Exact
    <3>2. ASSUME NEW final \in BOOLEAN, BeginFlush(final) PROVE batch' = {}
      BY <1>0, <3>2 DEF BeginFlush, Batched
    <3>3. ASSUME NEW r \in Readers, NEW m \in Meta, IngestRejected(r, m) \/ IngestFlow(r, m)
          PROVE  UNCHANGED <<batch, window>>
      BY <3>3, Zenon DEF IngestRejected, IngestFlow
    <3>4. ASSUME NEW r \in Readers, IngestPort(r) PROVE UNCHANGED <<batch, window>>
      BY <3>4, Zenon DEF IngestPort
    <3>5. CASE Cancel \/ FlushPorts \/ Close \/ Receive \/ UNCHANGED vars
      BY <3>1, <3>5, Zenon DEF Cancel, FlushPorts, Close, Receive, vars
    <3>6. ASSUME NEW f \in batch, EmitSend(f) \/ EmitDrop(f)
          PROVE  batch' \subseteq batch /\ window' = window
      BY <3>6, Zenon DEF EmitSend, EmitDrop, EmitDone
    <3>7. CASE FlushFlows
      BY <3>7, FlushExact, Zenon DEF Exact
    <3> QED
      BY <3>1, <3>2, <3>3, <3>4, <3>5, <3>6, <3>7, Zenon DEF Next
  <2>3. ASSUME NEW j \in 1 .. Len(out')
        PROVE  Tallies(trace', out'[j].acc, Recs(trace', flowWindow', out'[j].key, out'[j].window))
    <3>1. CASE out' = out
      BY <1>0, <1>2, <2>3, <3>1, Zenon DEF Exact
    <3>2. ASSUME NEW f \in batch, EmitSend(f)
          PROVE  Tallies(trace', out'[j].acc, Recs(trace', flowWindow', out'[j].key, out'[j].window))
      <4> DEFINE e == Feature(f[1], f[2], window)
      <4>1. out' = Append(out, e)
        BY <3>2, Zenon DEF EmitSend
      <4>2. e.key = f[1] /\ e.acc = f[2] /\ e.window = window
        BY DEF Feature
      <4> HIDE DEF e
      <4>3. Len(Append(out, e)) = Len(out) + 1 /\ Append(out, e)[Len(out) + 1] = e
        BY <1>1, Appended, SMT
      <4>4. \A n \in 1 .. Len(out) : Append(out, e)[n] = out[n]
        BY <1>1, Appended, Zenon
      <4>5. j \in 1 .. Len(out) \/ j = Len(out) + 1
        <5>1. Len(out) \in Nat
          BY <1>1
        <5> QED
          BY <2>3, <4>1, <4>3, <5>1
      <4>6. CASE j \in 1 .. Len(out)
        BY <1>0, <1>2, <4>1, <4>4, <4>6, Zenon DEF Exact
      <4>7. CASE j = Len(out) + 1
        BY <1>0, <1>2, <3>2, <4>1, <4>2, <4>3, <4>7, Zenon DEF Exact
      <4> QED
        BY <4>5, <4>6, <4>7
    <3>3. CASE Receive
      <4>1. out' = Tail(out) /\ out # <<>>
        BY <3>3, Zenon DEF Receive
      <4>2. /\ Len(out') = Len(out) - 1 /\ Len(out) \in Nat \ {0}
            /\ \A n \in 1 .. Len(out) - 1 : out'[n] = out[n + 1]
        BY <1>1, <4>1, Removed, Zenon
      <4>3. j + 1 \in 1 .. Len(out) /\ out'[j] = out[j + 1]
        BY <2>3, <4>2
      <4> QED
        BY <1>0, <1>2, <4>3, Zenon DEF Exact
    <3>4. ASSUME NEW final \in BOOLEAN, BeginFlush(final) PROVE out' = out
      BY <3>4, Zenon DEF BeginFlush
    <3> QED
      BY <3>1, <3>2, <3>3, <3>4, ChannelFrame, Zenon DEF vars
  <2> QED
    BY <2>1, <2>2, <2>3, Zenon DEF Exact
<1> QED
  BY <1>2, IngestExact, FlushExact, CountersFrame, Zenon DEF vars

\* A new aggregator has counted nothing.
LEMMA InitCInv == Init => CInv
<1> SUFFICES ASSUME Init PROVE CInv
  OBVIOUS
<1>1. AInv
  BY InitAInv
<1>2. TableTypes
  BY EmptyTypes DEF Init, TableTypes
<1>3. Batched
  BY DEF Init, Batched
<1>4. trace = <<>> /\ out = <<>> /\ Len(trace) = 0 /\ Len(out) = 0 /\ batch = {}
  BY DEF Init
<1>5. 1 .. 0 = {}
  OBVIOUS
<1>6. Queued
  <2>1. out \in Seq({})
    BY <1>4
  <2> QED
    BY <1>4, <1>5, <2>1, Zenon DEF Queued
<1>7. TakenBehind
  BY <1>4, <1>5, Zenon DEF TakenBehind
<1>8. Exact
  <2>1. \A k, w : Recs(trace, flowWindow, k, w) = {}
    BY <1>4, <1>5, Zenon DEF Recs
  <2>2. \A k \in FlowKeys : flows[k] = NoFlow
    BY DEF Init
  <2> QED
    BY <1>4, <1>5, <2>1, <2>2, EmptyTallies, Zenon DEF Exact
<1> QED
  BY <1>1, <1>2, <1>3, <1>6, <1>7, <1>8, Zenon DEF CInv

\* The invariant of the counters holds throughout.
THEOREM CInvariance == Spec => []CInv
<1>1. CInv /\ [Next]_vars => CInv'
  BY StepAInv, StepTableTypes, StepBatched, StepQueued, StepTakenBehind, StepExact, Zenon DEF CInv
<1> QED
  BY <1>1, InitCInv, PTL DEF Spec

\* Every table, channel and counter keeps its type, the shard the flush is at
\* included.
THEOREM TypeCorrect == Spec => []TypeOK
<1>1. CInv => TypeOK
  <2> SUFFICES ASSUME CInv PROVE TypeOK
    OBVIOUS
  <2>1. DOMAIN flows = FlowKeys /\ \A k \in FlowKeys : flows[k] \in Accumulators
    BY DEF CInv, TableTypes
  <2>2. \A n \in DOMAIN out : out[n].acc \in Accumulators
    <3>1. PICK S : out \in Seq(S)
      BY Zenon DEF CInv, Queued
    <3>2. DOMAIN out = 1 .. Len(out)
      BY <3>1
    <3> QED
      BY <3>2, Zenon DEF CInv, Queued
  <2> QED
    BY <2>1, <2>2, Zenon DEF CInv, AInv, Windows, TableTypes, Batched, TypeOK
<1> QED
  BY <1>1, CInvariance, PTL

\* An accumulator that tallies records summarises them.
LEMMA TalliesSummarise ==
  ASSUME NEW fa, NEW S, Tallies(trace, fa, S)
  PROVE  Summarises(fa, S)
BY Zenon DEF Tallies, Summarises, Quantify, LoOf, SynOf, AckPshOf, SpacedOf, Spaced, Gap

\* Whatever the readers, the flush and the consumer interleave, the features
\* of a flow and window are those of exactly the records that flush took.
THEOREM FeaturesExact == Spec => []CountersExact
<1>1. CInv => CountersExact
  <2> SUFFICES ASSUME CInv PROVE CountersExact
    OBVIOUS
  <2>1. DOMAIN trace = 1 .. Len(trace)
    BY DEF CInv, AInv, Windows
  <2>2. \A k, w : RecordsOf(k, w) = Recs(trace, flowWindow, k, w)
    BY <2>1, Zenon DEF RecordsOf, Recs
  <2>3. DOMAIN out = 1 .. Len(out)
    <3>1. PICK S : out \in Seq(S)
      BY Zenon DEF CInv, Queued
    <3> QED
      BY <3>1
  <2> QED
    BY <2>2, <2>3, TalliesSummarise, Zenon DEF CInv, Exact, CountersExact
<1> QED
  BY <1>1, CInvariance, PTL

-----------------------------------------------------------------------------
(* The caps.                                                               *)

\* There are finitely many flows, and so in each shard.
LEMMA FlowsFinite ==
  /\ IsFiniteSet(FlowKeys)
  /\ \A S : S \subseteq FlowKeys => IsFiniteSet(S) /\ Cardinality(S) \in Nat
<1> DEFINE g == [m \in Meta |-> FlowKey(m)]
<1>1. g \in Surjection(Meta, FlowKeys)
  BY DEF Surjection, FlowKeys
<1>2. IsFiniteSet(Meta)
  BY AggregatorAssumption
<1>3. IsFiniteSet(FlowKeys)
  BY <1>1, <1>2, FS_Surjection, Zenon
<1> QED
  BY <1>3, FS_Subset, FS_CardinalityType

\* The caps hold: a record that would exceed one leaves the flow table, or
\* the channel, as it is.
THEOREM CapsHold == Spec => []Bounded
<1>a. Init => Bounded
  <2> SUFFICES ASSUME Init PROVE Bounded
    OBVIOUS
  <2>1. \A s \in Shards : FlowsIn(s) = {}
    BY DEF Init, FlowsIn, NoFlow
  <2>2. Cardinality({}) = 0 /\ Len(out) = 0
    BY FS_EmptySet DEF Init
  <2> QED
    BY <2>1, <2>2, AggregatorAssumption DEF Bounded
<1>b. ASSUME CInv, Bounded, [Next]_vars PROVE Bounded'
  <2>0. /\ maxFlowsPerShard \in Nat /\ outputBufferSize \in Nat
        /\ flows \in [FlowKeys -> Accumulators]
    BY <1>b, AggregatorAssumption DEF CInv, TableTypes
  <2>f. \A s : FlowsIn(s) \subseteq FlowKeys
    BY DEF FlowsIn
  <2>1. \A s \in Shards : Cardinality(FlowsIn(s)') <= maxFlowsPerShard
    <3>1. CASE UNCHANGED <<trace, flowWindow, flows>>
      BY <1>b, <3>1 DEF Bounded, FlowsIn
    <3>2. ASSUME NEW r \in Readers, NEW m \in Meta, IngestFlow(r, m), NEW s \in Shards
          PROVE  Cardinality(FlowsIn(s)') <= maxFlowsPerShard
      <4> DEFINE q == FlowKey(m)
      <4>1. /\ flows' = [flows EXCEPT ![q] = ObserveFlow(flows[q], m)] /\ HasRoom(q)
        BY <3>2, Zenon DEF IngestFlow
      <4>2. q \in FlowKeys
        BY RecordKeys
      <4>3. \A k \in FlowKeys : k # q => flows'[k] = flows[k]
        BY <2>0, <4>1, <4>2
      <4> HIDE DEF q
      <4>4. CASE shardIndex(q) = s /\ q \notin FlowsIn(s)
        <5>1. FlowsIn(s)' \subseteq FlowsIn(s) \cup {q}
          BY <4>3, Zenon DEF FlowsIn
        <5>2. Cardinality(FlowsIn(s)) < maxFlowsPerShard
          BY <4>1, <4>2, <4>4, Zenon DEF HasRoom, FlowsIn
        <5>3. IsFiniteSet(FlowsIn(s)) /\ Cardinality(FlowsIn(s)) \in Nat
          BY <2>f, FlowsFinite, Zenon
        <5>4. /\ IsFiniteSet(FlowsIn(s) \cup {q})
              /\ Cardinality(FlowsIn(s) \cup {q}) = Cardinality(FlowsIn(s)) + 1
          BY <4>4, <5>3, FS_AddElement
        <5>5. /\ Cardinality(FlowsIn(s)') <= Cardinality(FlowsIn(s) \cup {q})
              /\ Cardinality(FlowsIn(s)') \in Nat
          BY <5>1, <5>4, FS_Subset, FS_CardinalityType
        <5> QED
          BY <2>0, <5>2, <5>3, <5>4, <5>5
      <4>5. CASE shardIndex(q) # s \/ q \in FlowsIn(s)
        <5>1. FlowsIn(s)' \subseteq FlowsIn(s)
          BY <4>3, <4>5, Zenon DEF FlowsIn
        <5>2. Cardinality(FlowsIn(s)') <= Cardinality(FlowsIn(s))
          BY <2>f, <5>1, FlowsFinite, FS_Subset
        <5>3. Cardinality(FlowsIn(s)') \in Nat /\ Cardinality(FlowsIn(s)) \in Nat
          BY <2>f, <5>1, FlowsFinite
        <5>4. Cardinality(FlowsIn(s)) <= maxFlowsPerShard
          BY <1>b, <3>2, Zenon DEF Bounded
        <5> QED
          BY <2>0, <5>2, <5>3, <5>4
      <4> QED
        BY <4>4, <4>5
    <3>3. ASSUME FlushFlows, NEW s \in Shards
          PROVE  Cardinality(FlowsIn(s)') <= maxFlowsPerShard
      <4>1. FlowsIn(s)' \subseteq FlowsIn(s)
        <5>1. flows' = [k \in FlowKeys |-> IF shardIndex(k) = shardAt THEN NoFlow ELSE flows[k]]
          BY <3>3, Zenon DEF FlushFlows
        <5>2. ~(NoFlow.packetCount > 0)
          BY DEF NoFlow
        <5>3. \A k \in FlowKeys : flows'[k] = NoFlow \/ flows'[k] = flows[k]
          BY <5>1
        <5> QED
          BY <5>2, <5>3, Zenon DEF FlowsIn
      <4>2. Cardinality(FlowsIn(s)') <= Cardinality(FlowsIn(s))
        BY <2>f, <4>1, FlowsFinite, FS_Subset
      <4>3. Cardinality(FlowsIn(s)') \in Nat /\ Cardinality(FlowsIn(s)) \in Nat
        BY <2>f, <4>1, FlowsFinite
      <4>4. Cardinality(FlowsIn(s)) <= maxFlowsPerShard
        BY <1>b, <3>3, Zenon DEF Bounded
      <4> QED
        BY <2>0, <4>2, <4>3, <4>4
    <3> QED
      BY <1>b, <3>1, <3>2, <3>3, CountersFrame, Zenon DEF vars
  <2>2. Len(out') <= outputBufferSize
    <3>0. PICK S : out \in Seq(S)
      BY <1>b, Zenon DEF CInv, Queued
    <3>1. Len(out) \in Nat /\ Len(out) <= outputBufferSize
      BY <1>b, <3>0 DEF Bounded
    <3>2. CASE out' = out
      BY <3>1, <3>2
    <3>3. ASSUME NEW f \in batch, EmitSend(f) PROVE Len(out') <= outputBufferSize
      <4>1. Len(out) < outputBufferSize /\ out' = Append(out, Feature(f[1], f[2], window))
        BY <3>3, Zenon DEF EmitSend
      <4>2. Len(out') = Len(out) + 1
        BY <3>0, <4>1, Appended, Zenon
      <4> QED
        BY <2>0, <3>1, <4>1, <4>2
    <3>4. CASE Receive
      <4>1. out' = Tail(out) /\ out # <<>>
        BY <3>4, Zenon DEF Receive
      <4>2. Len(out') = Len(out) - 1
        BY <3>0, <4>1, Removed, Zenon
      <4> QED
        BY <2>0, <3>1, <4>2
    <3>5. ASSUME NEW final \in BOOLEAN, BeginFlush(final) PROVE out' = out
      BY <3>5, Zenon DEF BeginFlush
    <3> QED
      BY <1>b, <3>2, <3>3, <3>4, <3>5, ChannelFrame, Zenon DEF vars
  <2> QED
    BY <2>1, <2>2, Zenon DEF Bounded
<1> QED
  BY <1>a, <1>b, CInvariance, PTL DEF Spec

-----------------------------------------------------------------------------
(* Sums over finite sets.                                                  *)

\* What the fold's table has at s, its entries g for smaller sets given.
Entry(g, f, s) ==
  IF s = {} THEN 0 ELSE LET x == CHOOSE x \in s : TRUE IN f[x] + g[s \ {x}]

\* g is the table by which SumFunctionOnSet folds f over S.
FoldTable(g, f, S) ==
  g = [s \in SUBSET S |->
         IF s = {} THEN 0 ELSE LET x == CHOOSE x \in s : TRUE IN f[x] + g[s \ {x}]]

\* g holds the sum of f over every subset of S, in whatever order.
IsSum(g, f, S) ==
  /\ g \in [SUBSET S -> Nat]
  /\ g[{}] = 0
  /\ \A A \in SUBSET S : \A x \in A : g[A] = f[x] + g[A \ {x}]

\* A family of subsets of a finite set has a member that loses its membership
\* with any element.
LEMMA LeastSet ==
  ASSUME NEW S, IsFiniteSet(S), NEW P, P \subseteq SUBSET S, P # {}
  PROVE  \E A \in P : \A x \in A : A \ {x} \notin P
<1> DEFINE T == {Cardinality(A) : A \in P}
<1>1. \A A \in P : IsFiniteSet(A) /\ Cardinality(A) \in Nat
  BY FS_Subset, FS_CardinalityType
<1>2. T \subseteq Nat /\ T # {}
  BY <1>1
<1>3. PICK n \in T : \A y \in T : n <= y
  BY <1>2, LeastNumber
<1>4. PICK A \in P : n = Cardinality(A)
  BY <1>3
<1>5. ASSUME NEW x \in A, A \ {x} \in P PROVE FALSE
  <2>1. Cardinality(A \ {x}) = Cardinality(A) - 1
    BY <1>1, <1>5, FS_RemoveElement
  <2>2. n <= Cardinality(A \ {x})
    BY <1>3, <1>5, Zenon
  <2> QED
    BY <1>1, <1>4, <2>1, <2>2
<1> QED
  BY <1>5

\* Folding over a finite set has a table.
LEMMA TableExists ==
  ASSUME NEW S, IsFiniteSet(S), NEW f
  PROVE  \E g : FoldTable(g, f, S)
<1> DEFINE Good(n) == \E g : \A s \in SUBSET S : Cardinality(s) <= n => g[s] = Entry(g, f, s)
           T == {n \in Nat : ~Good(n)}
<1>0. \A s \in SUBSET S : IsFiniteSet(s) /\ Cardinality(s) \in Nat /\ Cardinality(s) <= Cardinality(S)
  BY FS_Subset, FS_CardinalityType
<1>1. Cardinality(S) \in Nat
  BY FS_CardinalityType
<1>2. T = {}
  <2>1. SUFFICES ASSUME T # {} PROVE FALSE
    OBVIOUS
  <2>2. T \subseteq Nat
    OBVIOUS
  <2>3. PICK n \in T : \A y \in T : n <= y
    <3> HIDE DEF T
    <3> QED
      BY <2>1, <2>2, LeastNumber
  <2>4. n \in Nat /\ ~Good(n)
    BY Zenon
  <2>5. CASE n = 0
    <3> DEFINE g == [s \in SUBSET S |-> 0]
    <3>1. \A s \in SUBSET S : Cardinality(s) <= 0 => s = {}
      BY <1>0, FS_EmptySet
    <3>2. \A s \in SUBSET S : Cardinality(s) <= 0 => g[s] = Entry(g, f, s)
      BY <3>1 DEF Entry
    <3> HIDE DEF g
    <3> QED
      BY <2>4, <2>5, <3>2, Zenon
  <2>6. CASE n # 0
    <3>1. n - 1 \in Nat /\ ~(n <= n - 1)
      BY <2>4, <2>6
    <3>2. Good(n - 1)
      BY <2>3, <3>1, Zenon
    <3>3. PICK g : \A s \in SUBSET S : Cardinality(s) <= n - 1 => g[s] = Entry(g, f, s)
      BY <3>2, Zenon
    <3> DEFINE h == [s \in SUBSET S |-> Entry(g, f, s)]
    <3>4. ASSUME NEW s \in SUBSET S, Cardinality(s) <= n PROVE h[s] = Entry(h, f, s)
      <4>1. CASE s = {}
        BY <4>1 DEF Entry
      <4>2. CASE s # {}
        <5> DEFINE x == CHOOSE x \in s : TRUE
        <5>1. x \in s
          BY <4>2
        <5>2. Cardinality(s \ {x}) = Cardinality(s) - 1
          BY <1>0, <5>1, FS_RemoveElement
        <5>3. s \ {x} \in SUBSET S /\ Cardinality(s \ {x}) <= n - 1
          BY <1>0, <2>4, <3>4, <5>2
        <5>4. g[s \ {x}] = Entry(g, f, s \ {x})
          BY <3>3, <5>3, Zenon
        <5>5. h[s \ {x}] = g[s \ {x}]
          BY <5>3, <5>4
        <5>6. h[s] = f[x] + g[s \ {x}]
          BY <4>2 DEF Entry
        <5>7. Entry(h, f, s) = f[x] + h[s \ {x}]
          BY <4>2, Zenon DEF Entry
        <5> QED
          BY <5>5, <5>6, <5>7, Zenon
      <4> QED
        BY <4>1, <4>2, Zenon
    <3> HIDE DEF h
    <3> QED
      BY <2>4, <3>4, Zenon
  <2> QED
    BY <2>5, <2>6
<1>3. Good(Cardinality(S))
  BY <1>1, <1>2, Zenon
<1>4. PICK g : \A s \in SUBSET S : g[s] = Entry(g, f, s)
  BY <1>0, <1>3, Zenon
<1> DEFINE h == [s \in SUBSET S |-> g[s]]
<1>5. ASSUME NEW s \in SUBSET S PROVE h[s] = Entry(h, f, s)
  <2>1. CASE s = {}
    BY <1>4, <2>1 DEF Entry
  <2>2. CASE s # {}
    <3> DEFINE x == CHOOSE x \in s : TRUE
    <3>1. h[s \ {x}] = g[s \ {x}]
      OBVIOUS
    <3>2. g[s] = f[x] + g[s \ {x}]
      BY <1>4, <2>2, Zenon DEF Entry
    <3>3. Entry(h, f, s) = f[x] + h[s \ {x}]
      BY <2>2, Zenon DEF Entry
    <3> QED
      BY <3>1, <3>2, <3>3
  <2> QED
    BY <2>1, <2>2, Zenon
<1>6. h = [s \in SUBSET S |-> Entry(h, f, s)]
  <2>1. h = [s \in SUBSET S |-> h[s]]
    BY Zenon
  <2> HIDE DEF h
  <2> QED
    BY <1>5, <2>1
<1>7. FoldTable(h, f, S)
  <2> HIDE DEF h
  <2> QED
    BY <1>6, Zenon DEF FoldTable, Entry
<1> QED
  BY <1>7, Zenon

\* The fold's table holds the sums.
LEMMA TableIsSum ==
  ASSUME NEW S, IsFiniteSet(S), NEW f, \A x \in S : f[x] \in Nat, NEW g, FoldTable(g, f, S)
  PROVE  IsSum(g, f, S)
<1>0. \A s \in SUBSET S : g[s] = IF s = {} THEN 0
                                 ELSE LET x == CHOOSE x \in s : TRUE IN f[x] + g[s \ {x}]
  BY DEF FoldTable
<1>d. DOMAIN g = SUBSET S /\ g = [s \in SUBSET S |-> g[s]]
  BY DEF FoldTable
<1>1. \A s \in SUBSET S : g[s] \in Nat
  <2> DEFINE P == {s \in SUBSET S : g[s] \notin Nat}
  <2>1. SUFFICES ASSUME P # {} PROVE FALSE
    OBVIOUS
  <2>2. P \subseteq SUBSET S
    OBVIOUS
  <2>3. PICK A \in P : \A x \in A : A \ {x} \notin P
    <3> HIDE DEF P
    <3> QED
      BY <2>1, <2>2, LeastSet
  <2>4. A \in SUBSET S /\ g[A] \notin Nat
    BY <2>3
  <2>5. CASE A = {}
    <3>1. g[A] = 0
      BY <1>0, <2>4, <2>5, Zenon
    <3> QED
      BY <2>4, <3>1
  <2>6. CASE A # {}
    <3> DEFINE x == CHOOSE x \in A : TRUE
    <3>1. x \in A
      BY <2>6
    <3>2. g[A] = f[x] + g[A \ {x}]
      BY <1>0, <2>4, <2>6, Zenon
    <3>3. A \ {x} \in SUBSET S /\ f[x] \in Nat
      BY <2>4, <3>1
    <3>4. g[A \ {x}] \in Nat
      BY <2>3, <3>1, <3>3, Zenon
    <3> HIDE DEF x
    <3> QED
      BY <2>4, <3>2, <3>3, <3>4
  <2> QED
    BY <2>5, <2>6
<1>2. \A A \in SUBSET S : \A x \in A : g[A] = f[x] + g[A \ {x}]
  <2> DEFINE P == {A \in SUBSET S : \E x \in A : g[A] # f[x] + g[A \ {x}]}
  <2>1. SUFFICES ASSUME P # {} PROVE FALSE
    OBVIOUS
  <2>2. P \subseteq SUBSET S
    OBVIOUS
  <2>3. PICK A \in P : \A x \in A : A \ {x} \notin P
    <3> HIDE DEF P
    <3> QED
      BY <2>1, <2>2, LeastSet
  <2>4. A \in SUBSET S
    BY <2>3
  <2>5. PICK x \in A : g[A] # f[x] + g[A \ {x}]
    BY <2>3
  <2> DEFINE y == CHOOSE z \in A : TRUE
  <2>6. y \in A
    BY <2>5
  <2>7. g[A] = f[y] + g[A \ {y}]
    BY <1>0, <2>4, <2>6, Zenon
  <2>8. x # y
    BY <2>5, <2>7, Zenon
  <2> HIDE DEF y
  <2>9. \A z \in A : A \ {z} \in SUBSET S /\ \A u \in A \ {z} : g[A \ {z}] = f[u] + g[(A \ {z}) \ {u}]
    BY <2>3, <2>4, Zenon
  <2>10. /\ g[A \ {y}] = f[x] + g[(A \ {y}) \ {x}]
         /\ g[A \ {x}] = f[y] + g[(A \ {x}) \ {y}]
    <3>1. x \in A \ {y} /\ y \in A \ {x}
      BY <2>5, <2>6, <2>8, Zenon
    <3> QED
      BY <2>9, <3>1, <2>6, Zenon
  <2>11. (A \ {x}) \ {y} = (A \ {y}) \ {x} /\ (A \ {y}) \ {x} \in SUBSET S
    BY <2>4
  <2>12. f[x] \in Nat /\ f[y] \in Nat /\ g[(A \ {y}) \ {x}] \in Nat
    BY <1>1, <2>4, <2>6, <2>11, Zenon
  <2>13. PICK c \in Nat : c = g[(A \ {y}) \ {x}]
    BY <2>12, Zenon
  <2>14. g[A] = f[y] + (f[x] + c) /\ g[A \ {x}] = f[y] + c
    BY <2>7, <2>10, <2>11, <2>13, Zenon
  <2>15. g[A] = f[x] + g[A \ {x}]
    BY ONLY <2>12, <2>13, <2>14, c \in Nat
  <2> QED
    BY <2>5, <2>15, Zenon
<1>3. {} \in SUBSET S
  OBVIOUS
<1>4. g[{}] = 0
  BY <1>0, <1>3
<1>5. g \in [SUBSET S -> Nat]
  BY <1>1, <1>d
<1> QED
  BY <1>2, <1>4, <1>5, Zenon DEF IsSum

\* SumFunctionOnSet is such a sum.
LEMMA SumExists ==
  ASSUME NEW S, IsFiniteSet(S), NEW f, \A x \in S : f[x] \in Nat
  PROVE  \E g : IsSum(g, f, S) /\ SumFunctionOnSet(f, S) = g[S]
<1> DEFINE g == CHOOSE it :
             it = [s \in SUBSET S |->
                     IF s = {} THEN 0 ELSE LET x == CHOOSE x \in s : TRUE IN f[x] + it[s \ {x}]]
<1>1. SumFunctionOnSet(f, S) = g[S]
  BY Zenon DEF SumFunctionOnSet, FoldFunctionOnSet, MapThenFoldSet
<1>2. FoldTable(g, f, S)
  <2>1. PICK it : FoldTable(it, f, S)
    BY TableExists
  <2> QED
    BY <2>1, Zenon DEF FoldTable
<1> HIDE DEF g
<1>3. IsSum(g, f, S)
  BY <1>2, TableIsSum, Zenon
<1> QED
  BY <1>1, <1>3, Zenon

\* Two sums agree if a one-to-one map carries one's terms to the other's.
LEMMA SumsAgree ==
  ASSUME NEW S, IsFiniteSet(S), NEW f, NEW g, IsSum(g, f, S),
         NEW T, NEW e, NEW h, IsSum(h, e, T),
         NEW b \in [S -> T], \A x, y \in S : b[x] = b[y] => x = y,
         \A x \in S : f[x] = e[b[x]]
  PROVE  g[S] = h[{b[x] : x \in S}]
<1> DEFINE im(A) == {b[x] : x \in A}
           P == {A \in SUBSET S : g[A] # h[im(A)]}
<1>1. P = {}
  <2>1. SUFFICES ASSUME P # {} PROVE FALSE
    OBVIOUS
  <2>2. P \subseteq SUBSET S
    OBVIOUS
  <2>3. PICK A \in P : \A x \in A : A \ {x} \notin P
    <3> HIDE DEF P
    <3> QED
      BY <2>1, <2>2, LeastSet
  <2>4. A \in SUBSET S /\ g[A] # h[im(A)]
    BY <2>3
  <2>5. CASE A = {}
    <3>1. im(A) = {}
      BY <2>5
    <3>2. g[{}] = 0 /\ h[{}] = 0
      BY Zenon DEF IsSum
    <3> QED
      BY <2>4, <2>5, <3>1, <3>2, Zenon
  <2>6. CASE A # {}
    <3>1. PICK x \in A : TRUE
      BY <2>6
    <3>2. im(A) \in SUBSET T /\ b[x] \in im(A)
      BY <2>4
    <3>3. im(A) \ {b[x]} = im(A \ {x})
      BY <2>4
    <3>4. g[A \ {x}] = h[im(A \ {x})]
      BY <2>3, <2>4
    <3> HIDE DEF im, P
    <3>5. g[A] = f[x] + g[A \ {x}]
      BY <2>4, Zenon DEF IsSum
    <3>6. h[im(A)] = e[b[x]] + h[im(A) \ {b[x]}]
      BY <3>2, Zenon DEF IsSum
    <3>7. f[x] = e[b[x]]
      BY <2>4, Zenon
    <3> QED
      BY <2>4, <3>3, <3>4, <3>5, <3>6, <3>7, Zenon
  <2> QED
    BY <2>5, <2>6
<1>2. S \in SUBSET S
  OBVIOUS
<1> QED
  BY <1>1, <1>2, Zenon

\* b carries the terms of f over S one to one to those of e over T.
Renames(b, S, T, f, e) ==
  /\ IsFiniteSet(S) /\ IsFiniteSet(T) /\ \A y \in T : e[y] \in Nat
  /\ b \in [S -> T]
  /\ \A x, y \in S : b[x] = b[y] => x = y
  /\ \A y \in T : \E x \in S : b[x] = y
  /\ \A x \in S : f[x] = e[b[x]]

\* Terms renamed one to one have the same sum.
LEMMA SumRenamed ==
  ASSUME NEW S, NEW T, NEW f, NEW e, NEW b, Renames(b, S, T, f, e)
  PROVE  SumFunctionOnSet(f, S) = SumFunctionOnSet(e, T)
<1>0. /\ IsFiniteSet(S) /\ IsFiniteSet(T) /\ \A y \in T : e[y] \in Nat
      /\ b \in [S -> T] /\ (\A x, y \in S : b[x] = b[y] => x = y)
      /\ (\A y \in T : \E x \in S : b[x] = y) /\ \A x \in S : f[x] = e[b[x]]
  BY Zenon DEF Renames
<1>1. \A x \in S : f[x] \in Nat
  <2>1. \A x \in S : b[x] \in T
    BY <1>0
  <2> QED
    BY <1>0, <2>1, Zenon
<1>2. PICK g : IsSum(g, f, S) /\ SumFunctionOnSet(f, S) = g[S]
  BY <1>0, <1>1, SumExists, Zenon
<1>3. PICK h : IsSum(h, e, T) /\ SumFunctionOnSet(e, T) = h[T]
  BY <1>0, SumExists, Zenon
<1>4. {b[x] : x \in S} = T
  BY <1>0
<1>5. g[S] = h[{b[x] : x \in S}]
  BY <1>0, <1>2, <1>3, SumsAgree
<1> QED
  BY <1>2, <1>3, <1>4, <1>5, Zenon

\* The same terms have the same sum.
LEMMA SumSame ==
  ASSUME NEW S, IsFiniteSet(S), NEW f, NEW e, \A x \in S : e[x] \in Nat, \A x \in S : f[x] = e[x]
  PROVE  SumFunctionOnSet(f, S) = SumFunctionOnSet(e, S)
<1> DEFINE b == [x \in S |-> x]
<1>1. b \in [S -> S] /\ \A x \in S : b[x] = x
  OBVIOUS
<1> HIDE DEF b
<1>2. Renames(b, S, S, f, e)
  BY <1>1, Zenon DEF Renames
<1> QED
  BY <1>2, SumRenamed, Zenon

\* A sum is a number, none at all is zero, and any term may be taken out.
LEMMA SumRemove ==
  ASSUME NEW S, IsFiniteSet(S), NEW f, \A x \in S : f[x] \in Nat
  PROVE  /\ SumFunctionOnSet(f, S) \in Nat
         /\ S = {} => SumFunctionOnSet(f, S) = 0
         /\ \A x \in S : SumFunctionOnSet(f, S) = f[x] + SumFunctionOnSet(f, S \ {x})
<1>1. PICK g : IsSum(g, f, S) /\ SumFunctionOnSet(f, S) = g[S]
  BY SumExists, Zenon
<1>2. SumFunctionOnSet(f, S) \in Nat
  BY <1>1 DEF IsSum
<1>3. S = {} => SumFunctionOnSet(f, S) = 0
  BY <1>1, Zenon DEF IsSum
<1>4. ASSUME NEW x \in S PROVE SumFunctionOnSet(f, S) = f[x] + SumFunctionOnSet(f, S \ {x})
  <2> DEFINE A == S \ {x}
  <2>1. IsFiniteSet(A) /\ A \subseteq S
    BY FS_RemoveElement
  <2>2. PICK h : IsSum(h, f, A) /\ SumFunctionOnSet(f, A) = h[A]
    BY <2>1, SumExists, Zenon
  <2>3. h[A] = g[A]
    <3> DEFINE b == [y \in A |-> y]
    <3>1. b \in [A -> S] /\ {b[y] : y \in A} = A /\ \A y \in A : b[y] = y
      OBVIOUS
    <3> HIDE DEF b, A
    <3>2. (\A y, z \in A : b[y] = b[z] => y = z) /\ \A y \in A : f[y] = f[b[y]]
      BY <3>1, Zenon
    <3>3. h[A] = g[{b[y] : y \in A}]
      BY <1>1, <2>1, <2>2, <3>1, <3>2, SumsAgree
    <3> QED
      BY <3>1, <3>3, Zenon
  <2>4. g[S] = f[x] + g[A]
    BY <1>1 DEF IsSum
  <2> QED
    BY <1>1, <2>2, <2>3, <2>4, Zenon
<1> QED
  BY <1>2, <1>3, <1>4, Zenon

\* A sum splits over a subset and the rest.
LEMMA SumSplit ==
  ASSUME NEW S, IsFiniteSet(S), NEW f, \A x \in S : f[x] \in Nat, NEW A \in SUBSET S
  PROVE  /\ SumFunctionOnSet(f, A) \in Nat /\ SumFunctionOnSet(f, S \ A) \in Nat
         /\ SumFunctionOnSet(f, S) = SumFunctionOnSet(f, A) + SumFunctionOnSet(f, S \ A)
<1> DEFINE Sm(B) == SumFunctionOnSet(f, B)
           P == {B \in SUBSET S : Sm(S) # Sm(B) + Sm(S \ B)}
<1>0. \A B \in SUBSET S : IsFiniteSet(B) /\ \A x \in B : f[x] \in Nat
  BY FS_Subset
<1>a. \A B \in SUBSET S : Sm(B) \in Nat /\ (B = {} => Sm(B) = 0)
                          /\ \A x \in B : Sm(B) = f[x] + Sm(B \ {x})
  BY <1>0, SumRemove, Zenon
<1> HIDE DEF Sm
<1>1. P = {}
  <2>1. SUFFICES ASSUME P # {} PROVE FALSE
    OBVIOUS
  <2>2. P \subseteq SUBSET S
    OBVIOUS
  <2>3. PICK B \in P : \A x \in B : B \ {x} \notin P
    <3> HIDE DEF P
    <3> QED
      BY <2>1, <2>2, LeastSet
  <2>4. B \in SUBSET S /\ Sm(S) # Sm(B) + Sm(S \ B)
    BY <2>3
  <2>5. CASE B = {}
    <3>1. S \ B = S /\ Sm(B) = 0 /\ Sm(S) \in Nat
      BY <1>a, <2>4, <2>5
    <3> QED
      BY <2>4, <3>1
  <2>6. CASE B # {}
    <3>1. PICK x \in B : TRUE
      BY <2>6
    <3> DEFINE C == B \ {x}
    <3>2. C \in SUBSET S /\ S \ C \in SUBSET S /\ x \in S \ C /\ (S \ C) \ {x} = S \ B
          /\ S \ B \in SUBSET S
      BY <2>4
    <3>3. Sm(S) = Sm(C) + Sm(S \ C)
      BY <2>3, <3>2, Zenon
    <3>4. Sm(B) = f[x] + Sm(C)
      BY <1>a, <2>4, Zenon
    <3>5. Sm(S \ C) = f[x] + Sm(S \ B)
      BY <1>a, <3>2, Zenon
    <3>6. PICK p \in Nat, q \in Nat, r \in Nat : p = f[x] /\ q = Sm(C) /\ r = Sm(S \ B)
      BY <1>0, <1>a, <2>4, <3>2, Zenon
    <3>7. Sm(S) = q + (p + r) /\ Sm(B) = p + q /\ Sm(S \ B) = r
      BY <3>3, <3>4, <3>5, <3>6, Zenon
    <3>8. q + (p + r) = (p + q) + r
      OBVIOUS
    <3> QED
      BY <2>4, <3>7, <3>8, Zenon
  <2> QED
    BY <2>5, <2>6
<1>2. S \ A \in SUBSET S
  OBVIOUS
<1>3. Sm(A) \in Nat /\ Sm(S \ A) \in Nat /\ Sm(S) = Sm(A) + Sm(S \ A)
  BY <1>1, <1>2, <1>a, Zenon
<1> QED
  BY <1>3, Zenon DEF Sm

\* Zeros add up to zero.
LEMMA SumZero ==
  ASSUME NEW S, IsFiniteSet(S), NEW f, \A x \in S : f[x] = 0
  PROVE  SumFunctionOnSet(f, S) = 0
<1>1. PICK g : IsSum(g, f, S) /\ SumFunctionOnSet(f, S) = g[S]
  <2>1. \A x \in S : f[x] \in Nat
    OBVIOUS
  <2> QED
    BY <2>1, SumExists, Zenon
<1> DEFINE P == {A \in SUBSET S : g[A] # 0}
<1>2. P = {}
  <2>1. SUFFICES ASSUME P # {} PROVE FALSE
    OBVIOUS
  <2>2. P \subseteq SUBSET S
    OBVIOUS
  <2>3. PICK A \in P : \A x \in A : A \ {x} \notin P
    <3> HIDE DEF P
    <3> QED
      BY <2>1, <2>2, LeastSet
  <2>4. A # {}
    BY <1>1, <2>3 DEF IsSum
  <2>5. PICK x \in A : TRUE
    BY <2>4
  <2>6. A \ {x} \in SUBSET S /\ g[A \ {x}] = 0 /\ f[x] = 0 /\ A \in SUBSET S
    BY <2>3
  <2>7. g[A] = f[x] + g[A \ {x}]
    BY <1>1, <2>6, Zenon DEF IsSum
  <2> QED
    BY <2>3, <2>6, <2>7
<1>3. S \in SUBSET S
  OBVIOUS
<1> QED
  BY <1>1, <1>2, <1>3, Zenon

\* A sum of which one term changes.
LEMMA SumChange ==
  ASSUME NEW S, IsFiniteSet(S), NEW f, NEW e, NEW z \in S, NEW d \in Nat,
         \A x \in S : f[x] \in Nat, e[z] = f[z] + d, \A x \in S : x # z => e[x] = f[x]
  PROVE  SumFunctionOnSet(e, S) = SumFunctionOnSet(f, S) + d
<1>0. (\A x \in S : e[x] \in Nat) /\ f[z] \in Nat
  <2>1. e[z] \in Nat /\ f[z] \in Nat
    OBVIOUS
  <2> QED
    BY <2>1, Zenon
<1>1. SumFunctionOnSet(f, S) = f[z] + SumFunctionOnSet(f, S \ {z})
  BY SumRemove, Zenon
<1>2. SumFunctionOnSet(e, S) = e[z] + SumFunctionOnSet(e, S \ {z})
  BY <1>0, SumRemove, Zenon
<1>3. IsFiniteSet(S \ {z}) /\ \A x \in S \ {z} : f[x] \in Nat /\ e[x] = f[x]
  BY FS_RemoveElement
<1>4. SumFunctionOnSet(e, S \ {z}) = SumFunctionOnSet(f, S \ {z})
  BY <1>3, SumSame, Zenon
<1>5. SumFunctionOnSet(f, S \ {z}) \in Nat
  BY <1>3, SumRemove, Zenon
<1> QED
  BY <1>0, <1>1, <1>2, <1>4, <1>5

-----------------------------------------------------------------------------
(* Every record is in one place.                                           *)

FlowCounts(fl) == [k \in FlowKeys |-> fl[k].packetCount]
BatchCounts(ba) == [f \in ba |-> f[2].packetCount]
OutCounts(o) == [n \in 1 .. Len(o) |-> o[n].acc.packetCount]

\* A feature sent, in the sum over the channel.
LEMMA OutAppended ==
  ASSUME NEW S, NEW o \in Seq(S), NEW e, e.acc.packetCount \in Nat,
         \A n \in 1 .. Len(o) : o[n].acc.packetCount \in Nat
  PROVE  LET p == Append(o, e)
         IN  SumFunctionOnSet(OutCounts(p), 1 .. Len(p)) =
               e.acc.packetCount + SumFunctionOnSet(OutCounts(o), 1 .. Len(o))
<1> DEFINE p == Append(o, e)
           n == Len(o)
<1>0. n \in Nat /\ n + 1 \in 1 .. n + 1 /\ 1 .. n = (1 .. n + 1) \ {n + 1}
  OBVIOUS
<1>1. Len(p) = n + 1 /\ p[n + 1] = e
  BY Appended, SMT
<1>2. \A j \in 1 .. n : p[j] = o[j]
  <2>1. \A j \in 1 .. Len(o) : Append(o, e)[j] = o[j]
    BY Appended, Zenon
  <2> QED
    BY <2>1
<1> HIDE DEF p
<1>3. /\ OutCounts(p)[n + 1] = e.acc.packetCount
      /\ \A j \in 1 .. n : OutCounts(p)[j] = OutCounts(o)[j] /\ OutCounts(o)[j] \in Nat
  <2>1. \A j \in 1 .. n + 1 : OutCounts(p)[j] = p[j].acc.packetCount
    BY <1>1 DEF OutCounts
  <2>2. \A j \in 1 .. n : OutCounts(o)[j] = o[j].acc.packetCount /\ j \in 1 .. n + 1
    BY <1>0 DEF OutCounts
  <2> QED
    BY <1>0, <1>1, <1>2, <2>1, <2>2, Zenon
<1>4. \A j \in 1 .. n + 1 : OutCounts(p)[j] \in Nat
  <2>1. \A j \in 1 .. n + 1 : j \in 1 .. n \/ j = n + 1
    BY <1>0
  <2> QED
    BY <1>3, <2>1, Zenon
<1>5. IsFiniteSet(1 .. n + 1) /\ IsFiniteSet(1 .. n)
  BY <1>0, FS_Interval
<1>6. SumFunctionOnSet(OutCounts(p), 1 .. n + 1) =
        OutCounts(p)[n + 1] + SumFunctionOnSet(OutCounts(p), (1 .. n + 1) \ {n + 1})
  BY <1>0, <1>4, <1>5, SumRemove, Zenon
<1>7. SumFunctionOnSet(OutCounts(p), 1 .. n) = SumFunctionOnSet(OutCounts(o), 1 .. n)
  BY <1>3, <1>5, SumSame, Zenon
<1>8. SumFunctionOnSet(OutCounts(p), 1 .. Len(p)) =
               e.acc.packetCount + SumFunctionOnSet(OutCounts(o), 1 .. Len(o))
  BY <1>0, <1>1, <1>3, <1>6, <1>7, Zenon
<1> QED
  BY <1>8, Zenon DEF p

\* A feature received, in the sum over the channel.
LEMMA OutRemoved ==
  ASSUME NEW S, NEW o \in Seq(S), o # <<>>,
         \A n \in 1 .. Len(o) : o[n].acc.packetCount \in Nat
  PROVE  LET p == Tail(o)
         IN  SumFunctionOnSet(OutCounts(o), 1 .. Len(o)) =
               Head(o).acc.packetCount + SumFunctionOnSet(OutCounts(p), 1 .. Len(p))
<1> DEFINE p == Tail(o)
           n == Len(o)
<1>0. n \in Nat \ {0} /\ 1 \in 1 .. n /\ 2 .. n = (1 .. n) \ {1} /\ Head(o) = o[1]
  OBVIOUS
<1>1. Len(p) = n - 1
  BY Removed, Zenon
<1>2. \A j \in 1 .. n - 1 : p[j] = o[j + 1]
  BY Removed, Zenon
<1> HIDE DEF p
<1>3. \A j \in 1 .. n : OutCounts(o)[j] \in Nat /\ OutCounts(o)[j] = o[j].acc.packetCount
  BY DEF OutCounts
<1>4. IsFiniteSet(1 .. n) /\ IsFiniteSet(1 .. n - 1) /\ IsFiniteSet(2 .. n)
  BY <1>0, FS_Interval
<1>5. SumFunctionOnSet(OutCounts(o), 1 .. n) =
        OutCounts(o)[1] + SumFunctionOnSet(OutCounts(o), (1 .. n) \ {1})
  BY <1>0, <1>3, <1>4, SumRemove, Zenon
<1>6. SumFunctionOnSet(OutCounts(p), 1 .. n - 1) = SumFunctionOnSet(OutCounts(o), 2 .. n)
  <2> DEFINE b == [j \in 1 .. n - 1 |-> j + 1]
  <2>1. /\ b \in [1 .. n - 1 -> 2 .. n] /\ \A j \in 1 .. n - 1 : b[j] = j + 1
    BY <1>0
  <2>2. \A y \in 2 .. n : OutCounts(o)[y] \in Nat
    <3>1. \A y \in 2 .. n : y \in 1 .. n
      OBVIOUS
    <3> QED
      BY <1>3, <3>1, Zenon
  <2>3. \A j \in 1 .. n - 1 : OutCounts(p)[j] = OutCounts(o)[b[j]]
    <3>1. \A j \in 1 .. n - 1 : OutCounts(p)[j] = p[j].acc.packetCount
      BY <1>1 DEF OutCounts
    <3>2. \A j \in 1 .. n - 1 : j + 1 \in 1 .. n
      BY <1>0
    <3> HIDE DEF b
    <3> QED
      BY <1>2, <1>3, <2>1, <3>1, <3>2, Zenon
  <2> HIDE DEF b
  <2>4. \A x, y \in 1 .. n - 1 : b[x] = b[y] => x = y
    BY <2>1
  <2>5. \A y \in 2 .. n : \E x \in 1 .. n - 1 : b[x] = y
    <3> TAKE y \in 2 .. n
    <3>1. y - 1 \in 1 .. n - 1 /\ (y - 1) + 1 = y
      BY <1>0
    <3> QED
      BY <2>1, <3>1, Zenon
  <2>6. Renames(b, 1 .. n - 1, 2 .. n, OutCounts(p), OutCounts(o))
    BY <1>4, <2>1, <2>2, <2>3, <2>4, <2>5, Zenon DEF Renames
  <2> QED
    BY <2>6, SumRenamed
<1>7. SumFunctionOnSet(OutCounts(o), 1 .. Len(o)) =
               Head(o).acc.packetCount + SumFunctionOnSet(OutCounts(p), 1 .. Len(p))
  BY <1>0, <1>1, <1>3, <1>5, <1>6, Zenon
<1> QED
  BY <1>7, Zenon DEF p

\* The sums that Conservation adds up are numbers.
FlowSum == SumFunctionOnSet(FlowCounts(flows), FlowKeys)
BatchSum == SumFunctionOnSet(BatchCounts(batch), batch)
OutSum == SumFunctionOnSet(OutCounts(out), 1 .. Len(out))

\* The inductive invariant of the conservation.
Conserved ==
  /\ IsFiniteSet(batch) /\ delivered \in Nat /\ discarded \in Nat
  /\ Len(trace) = FlowSum + BatchSum + OutSum + delivered + discarded

\* The sums are numbers.
LEMMA SumTypes ==
  ASSUME CInv, IsFiniteSet(batch)
  PROVE  /\ FlowSum \in Nat /\ BatchSum \in Nat /\ OutSum \in Nat
         /\ \A k \in FlowKeys : FlowCounts(flows)[k] \in Nat
         /\ \A f \in batch : BatchCounts(batch)[f] \in Nat
         /\ \A n \in 1 .. Len(out) : out[n].acc.packetCount \in Nat
<1>1. \A k \in FlowKeys : FlowCounts(flows)[k] \in Nat
  BY DEF CInv, TableTypes, FlowCounts, Accumulators
<1>2. \A f \in batch : BatchCounts(batch)[f] \in Nat
  BY DEF CInv, Batched, BatchCounts, Accumulators
<1>3. \A n \in 1 .. Len(out) : out[n].acc.packetCount \in Nat
  BY DEF CInv, Queued, Accumulators
<1>4. \A n \in 1 .. Len(out) : OutCounts(out)[n] \in Nat
  BY <1>3 DEF OutCounts
<1>5. IsFiniteSet(1 .. Len(out))
  <2>1. PICK S : out \in Seq(S)
    BY Zenon DEF CInv, Queued
  <2>2. Len(out) \in Nat
    BY <2>1
  <2> QED
    BY <2>2, FS_Interval
<1>6. FlowSum \in Nat
  BY <1>1, FlowsFinite, SumRemove, Zenon DEF FlowSum
<1>7. BatchSum \in Nat
  BY <1>2, SumRemove, Zenon DEF BatchSum
<1>8. OutSum \in Nat
  BY <1>4, <1>5, SumRemove, Zenon DEF OutSum
<1> QED
  BY <1>1, <1>2, <1>3, <1>6, <1>7, <1>8

\* Taking a shard moves what it holds from the flows to the batch.
LEMMA FlushConserves ==
  ASSUME CInv, Conserved, FlushFlows
  PROVE  /\ IsFiniteSet(batch') /\ FlowSum' \in Nat /\ BatchSum' \in Nat
         /\ FlowSum + BatchSum = FlowSum' + BatchSum'
<1> DEFINE A == FlowsIn(shardAt)
           F == FlowCounts(flows)
           G == FlowCounts(flows')
           B == BatchCounts(batch')
<1>1. /\ batch = {} /\ batch' = {<<k, flows[k]>> : k \in A}
      /\ flows' = [k \in FlowKeys |-> IF shardIndex(k) = shardAt THEN NoFlow ELSE flows[k]]
  BY Zenon DEF FlushFlows, TakeFlows
<1>2. A \in SUBSET FlowKeys /\ FlowKeys \ A \in SUBSET FlowKeys
  BY DEF FlowsIn
<1>3. IsFiniteSet(FlowKeys) /\ IsFiniteSet(A) /\ IsFiniteSet(FlowKeys \ A)
  BY <1>2, FlowsFinite
<1>4. \A k \in FlowKeys : F[k] \in Nat /\ F[k] = flows[k].packetCount
  BY DEF CInv, TableTypes, FlowCounts, Accumulators
<1>5. (\A k \in A : G[k] = 0) /\ \A k \in FlowKeys \ A : G[k] = F[k]
  <2>1. NoFlow.packetCount = 0
    BY DEF NoFlow
  <2>2. \A k \in FlowKeys : G[k] = IF shardIndex(k) = shardAt THEN 0 ELSE F[k]
    BY <1>1, <1>4, <2>1 DEF FlowCounts
  <2>3. \A k \in FlowKeys \ A : shardIndex(k) = shardAt => F[k] = 0
    <3>1. \A k \in FlowKeys \ A : shardIndex(k) = shardAt => ~(flows[k].packetCount > 0)
      BY DEF FlowsIn
    <3> QED
      BY <1>4, <3>1
  <2>4. \A k \in A : k \in FlowKeys /\ shardIndex(k) = shardAt
    BY DEF FlowsIn
  <2> HIDE DEF A, F, G
  <2> QED
    BY <2>2, <2>3, <2>4, Zenon
<1>6. \A k \in FlowKeys : G[k] \in Nat
  <2>1. \A k \in FlowKeys : G[k] = 0 \/ G[k] = F[k]
    <3> HIDE DEF A, F, G
    <3> QED
      BY <1>5, Zenon
  <2> HIDE DEF F, G
  <2> QED
    BY <1>4, <2>1
<1>7. /\ IsFiniteSet(batch')
      /\ SumFunctionOnSet(F, A) = SumFunctionOnSet(B, batch')
  <2> DEFINE b == [k \in A |-> <<k, flows[k]>>]
  <2>1. /\ b \in [A -> batch'] /\ (\A k \in A : b[k] = <<k, flows[k]>>)
        /\ \A f \in batch' : \E k \in A : b[k] = f
    BY <1>1
  <2>2. \A k \in A : b[k][1] = k /\ b[k][2] = flows[k]
    BY <2>1
  <2> HIDE DEF b
  <2>3. \A x, y \in A : b[x] = b[y] => x = y
    BY <2>2, Zenon
  <2>4. IsFiniteSet(batch')
    <3>1. b \in Surjection(A, batch')
      BY <2>1, Zenon DEF Surjection
    <3> QED
      BY <1>3, <3>1, FS_Surjection, Zenon
  <2>5. \A f \in batch' : B[f] = f[2].packetCount
    BY DEF BatchCounts
  <2>6. \A k \in A : F[k] = B[b[k]]
    <3>1. \A k \in A : b[k] \in batch' /\ k \in FlowKeys
      BY <1>2, <2>1
    <3> HIDE DEF A, F, B
    <3> QED
      BY <1>4, <2>2, <2>5, <3>1
  <2>7. \A f \in batch' : B[f] \in Nat
    <3>1. \A k \in A : k \in FlowKeys
      BY <1>2
    <3> HIDE DEF A, F, B
    <3> QED
      BY <1>4, <2>1, <2>6, <3>1
  <2> HIDE DEF A, F, B
  <2>8. Renames(b, A, batch', F, B)
    BY <1>3, <2>1, <2>3, <2>4, <2>6, <2>7, Zenon DEF Renames
  <2> QED
    BY <2>4, <2>8, SumRenamed
<1>8. BatchSum = 0
  BY <1>1, SumRemove, FS_EmptySet DEF BatchSum
<1> HIDE DEF A, F, G, B
<1>9. /\ SumFunctionOnSet(F, A) \in Nat /\ SumFunctionOnSet(F, FlowKeys \ A) \in Nat
      /\ SumFunctionOnSet(F, FlowKeys) = SumFunctionOnSet(F, A) + SumFunctionOnSet(F, FlowKeys \ A)
  BY <1>2, <1>3, <1>4, SumSplit, Zenon
<1>10. SumFunctionOnSet(G, FlowKeys) = SumFunctionOnSet(G, A) + SumFunctionOnSet(G, FlowKeys \ A)
  BY <1>2, <1>3, <1>6, SumSplit, Zenon
<1>11. SumFunctionOnSet(G, A) = 0
  BY <1>3, <1>5, SumZero, Zenon
<1>12. SumFunctionOnSet(G, FlowKeys \ A) = SumFunctionOnSet(F, FlowKeys \ A)
  <2>1. \A k \in FlowKeys \ A : F[k] \in Nat
    BY <1>4, Zenon
  <2> QED
    BY <1>3, <1>5, <2>1, SumSame, Zenon
<1>13. FlowSum = SumFunctionOnSet(F, FlowKeys) /\ FlowSum' = SumFunctionOnSet(G, FlowKeys)
       /\ BatchSum' = SumFunctionOnSet(B, batch')
  BY Zenon DEF FlowSum, BatchSum, F, G, B
<1> QED
  BY <1>7, <1>8, <1>9, <1>10, <1>11, <1>12, <1>13

\* A flow emitted leaves the batch.
LEMMA EmitConserves ==
  ASSUME CInv, Conserved, NEW f \in batch, batch' = batch \ {f}
  PROVE  /\ IsFiniteSet(batch') /\ BatchSum' \in Nat /\ f[2].packetCount \in Nat
         /\ BatchSum = f[2].packetCount + BatchSum'
<1>0. IsFiniteSet(batch) /\ \A g \in batch : BatchCounts(batch)[g] \in Nat
  BY SumTypes, Zenon DEF Conserved
<1>1. BatchSum = BatchCounts(batch)[f] + SumFunctionOnSet(BatchCounts(batch), batch')
  BY <1>0, SumRemove, Zenon DEF BatchSum
<1>2. IsFiniteSet(batch')
  BY <1>0, FS_RemoveElement
<1>3. \A g \in batch' : BatchCounts(batch)[g] \in Nat /\ BatchCounts(batch')[g] = BatchCounts(batch)[g]
  BY <1>0 DEF BatchCounts
<1>4. BatchSum' = SumFunctionOnSet(BatchCounts(batch), batch')
  BY <1>2, <1>3, SumSame, Zenon DEF BatchSum
<1>5. SumFunctionOnSet(BatchCounts(batch), batch') \in Nat
  BY <1>2, <1>3, SumRemove, Zenon
<1>6. BatchCounts(batch)[f] = f[2].packetCount
  BY DEF BatchCounts
<1> QED
  BY <1>0, <1>1, <1>2, <1>4, <1>5, <1>6, Zenon

\* Every step moves records from one place to another, or adds one to both
\* sides.
LEMMA StepConserved == CInv /\ Conserved /\ [Next]_vars => Conserved'
<1> SUFFICES ASSUME CInv, Conserved, [Next]_vars PROVE Conserved'
  OBVIOUS
<1>0. /\ FlowSum \in Nat /\ BatchSum \in Nat /\ OutSum \in Nat /\ IsFiniteSet(batch)
      /\ delivered \in Nat /\ discarded \in Nat
      /\ Len(trace) = FlowSum + BatchSum + OutSum + delivered + discarded
  BY SumTypes, Zenon DEF Conserved
<1>n. /\ FlowSum \in Nat /\ BatchSum \in Nat /\ OutSum \in Nat
      /\ delivered \in Nat /\ discarded \in Nat
  BY <1>0, Zenon
<1>a. /\ Len(trace) = FlowSum + BatchSum + OutSum + delivered + discarded
  BY <1>0, Zenon
<1>s. PICK S : out \in Seq(S)
  BY Zenon DEF CInv, Queued
<1>1. CASE UNCHANGED <<trace, flows, batch, out, delivered, discarded>>
  BY <1>1, Zenon DEF Conserved, FlowSum, BatchSum, OutSum
<1>2. ASSUME NEW r \in Readers, NEW m \in Meta, IngestFlow(r, m) PROVE Conserved'
  <2>1. /\ flows' = [flows EXCEPT ![FlowKey(m)] = ObserveFlow(flows[FlowKey(m)], m)]
        /\ trace' = Append(trace, m) /\ UNCHANGED <<batch, out, delivered, discarded>>
    BY <1>2, Zenon DEF IngestFlow
  <2>2. Len(trace') = Len(trace) + 1
    BY <2>1 DEF CInv, AInv, Windows
  <2>3. FlowSum' = FlowSum + 1
    <3> DEFINE F == FlowCounts(flows)
               G == FlowCounts(flows')
               q == FlowKey(m)
    <3>1. q \in FlowKeys /\ flows \in [FlowKeys -> Accumulators]
      BY RecordKeys, Zenon DEF CInv, TableTypes
    <3>2. \A k \in FlowKeys : F[k] \in Nat /\ F[k] = flows[k].packetCount /\ G[k] = flows'[k].packetCount
      BY <3>1 DEF FlowCounts, Accumulators
    <3>3. (\A k \in FlowKeys : k # q => flows'[k] = flows[k]) /\ flows'[q] = ObserveFlow(flows[q], m)
      BY <2>1, <3>1
    <3>4. flows[q] \in Accumulators
      BY <3>1
    <3>5. ObserveFlow(flows[q], m).packetCount = flows[q].packetCount + 1
      BY <3>4, ObserveFields, Zenon
    <3> HIDE DEF F, G, q
    <3>6. G[q] = F[q] + 1 /\ \A k \in FlowKeys : k # q => G[k] = F[k]
      BY <3>1, <3>2, <3>3, <3>5, Zenon
    <3>7. 1 \in Nat
      OBVIOUS
    <3>8. SumFunctionOnSet(G, FlowKeys) = SumFunctionOnSet(F, FlowKeys) + 1
      BY <3>1, <3>2, <3>6, <3>7, FlowsFinite, SumChange
    <3> QED
      BY <3>8, Zenon DEF FlowSum, F, G
  <2>4. BatchSum' = BatchSum /\ OutSum' = OutSum
    BY <2>1, Zenon DEF BatchSum, OutSum
  <2>5. Len(trace') = FlowSum' + BatchSum' + OutSum' + delivered' + discarded'
    BY <1>0, <2>1, <2>2, <2>3, <2>4
  <2> QED
    BY <1>0, <2>1, <2>5, Zenon DEF Conserved
<1>3. CASE FlushFlows
  <2>1. UNCHANGED <<trace, out, delivered, discarded>>
    BY <1>3, Zenon DEF FlushFlows, TakeFlows
  <2>2. /\ IsFiniteSet(batch') /\ FlowSum' \in Nat /\ BatchSum' \in Nat
        /\ FlowSum + BatchSum = FlowSum' + BatchSum'
    BY <1>3, FlushConserves, Zenon
  <2>3. OutSum' = OutSum
    BY <2>1, Zenon DEF OutSum
  <2>4. Len(trace') = FlowSum' + BatchSum' + OutSum' + delivered' + discarded'
    BY <1>0, <2>1, <2>2, <2>3
  <2> QED
    BY <1>0, <2>1, <2>2, <2>4, Zenon DEF Conserved
<1>4. ASSUME NEW f \in batch, EmitSend(f) PROVE Conserved'
  <2> DEFINE e == Feature(f[1], f[2], window)
  <2>1. /\ UNCHANGED <<trace, flows, delivered, discarded>> /\ batch' = batch \ {f}
        /\ out' = Append(out, e)
    BY <1>4, Zenon DEF EmitSend, EmitDone
  <2>2. e.acc = f[2]
    BY DEF Feature
  <2>3. /\ IsFiniteSet(batch') /\ BatchSum' \in Nat /\ f[2].packetCount \in Nat
        /\ BatchSum = f[2].packetCount + BatchSum'
    BY <2>1, EmitConserves, Zenon
  <2> HIDE DEF e
  <2>4. e.acc.packetCount \in Nat /\ \A n \in 1 .. Len(out) : out[n].acc.packetCount \in Nat
    BY <1>0, <2>2, <2>3, SumTypes, Zenon
  <2>5. OutSum' = f[2].packetCount + OutSum
    BY <1>s, <2>1, <2>2, <2>4, OutAppended, Zenon DEF OutSum
  <2>6. FlowSum' = FlowSum
    BY <2>1, Zenon DEF FlowSum
  <2>7. Len(trace') = FlowSum' + BatchSum' + OutSum' + delivered' + discarded'
    <3>1. PICK c \in Nat : c = f[2].packetCount
      BY <2>3, Zenon
    <3>2. BatchSum = c + BatchSum' /\ BatchSum' \in Nat /\ OutSum' = c + OutSum
      BY <2>3, <2>5, <3>1, Zenon
    <3>3. trace' = trace /\ delivered' = delivered /\ discarded' = discarded
      BY <2>1, Zenon
    <3>n. BatchSum' \in Nat
      BY <3>2, Zenon
    <3>4. FlowSum + (c + BatchSum') + OutSum + delivered + discarded =
            FlowSum + BatchSum' + (c + OutSum) + delivered + discarded
      BY ONLY <1>n, <3>n, c \in Nat
    <3>5. Len(trace) = FlowSum + (c + BatchSum') + OutSum + delivered + discarded
      BY <1>a, <3>2, Zenon
    <3>6. Len(trace) = FlowSum + BatchSum' + OutSum' + delivered + discarded
      BY <3>2, <3>4, <3>5, Zenon
    <3> QED
      BY <2>6, <3>3, <3>6, Zenon
  <2> QED
    BY <1>0, <2>1, <2>3, <2>7, Zenon DEF Conserved
<1>5. ASSUME NEW f \in batch, EmitDrop(f) PROVE Conserved'
  <2>1. /\ UNCHANGED <<trace, flows, delivered, out>> /\ batch' = batch \ {f}
        /\ discarded' = discarded + f[2].packetCount
    BY <1>5, Zenon DEF EmitDrop, EmitDone
  <2>2. /\ IsFiniteSet(batch') /\ BatchSum' \in Nat /\ f[2].packetCount \in Nat
        /\ BatchSum = f[2].packetCount + BatchSum'
    BY <2>1, EmitConserves, Zenon
  <2>3. FlowSum' = FlowSum /\ OutSum' = OutSum
    BY <2>1, Zenon DEF FlowSum, OutSum
  <2>4. Len(trace') = FlowSum' + BatchSum' + OutSum' + delivered' + discarded' /\ discarded' \in Nat
    <3>1. PICK c \in Nat : c = f[2].packetCount
      BY <2>2, Zenon
    <3>2. BatchSum = c + BatchSum' /\ BatchSum' \in Nat /\ discarded' = discarded + c
      BY <2>1, <2>2, <3>1, Zenon
    <3>3. trace' = trace /\ delivered' = delivered
      BY <2>1, Zenon
    <3>n. BatchSum' \in Nat
      BY <3>2, Zenon
    <3>4. FlowSum + (c + BatchSum') + OutSum + delivered + discarded =
            FlowSum + BatchSum' + OutSum + delivered + (discarded + c)
          /\ discarded + c \in Nat
      BY ONLY <1>n, <3>n, c \in Nat
    <3>5. Len(trace) = FlowSum + (c + BatchSum') + OutSum + delivered + discarded
      BY <1>a, <3>2, Zenon
    <3>6. Len(trace) = FlowSum + BatchSum' + OutSum + delivered + discarded' /\ discarded' \in Nat
      BY <3>2, <3>4, <3>5, Zenon
    <3> QED
      BY <2>3, <3>3, <3>6, Zenon
  <2> QED
    BY <1>0, <2>1, <2>2, <2>4, Zenon DEF Conserved
<1>6. CASE Receive
  <2>1. /\ UNCHANGED <<trace, flows, batch, discarded>> /\ out # <<>> /\ out' = Tail(out)
        /\ delivered' = delivered + Head(out).acc.packetCount
    BY <1>6, Zenon DEF Receive
  <2>2. \A n \in 1 .. Len(out) : out[n].acc.packetCount \in Nat
    BY <1>0, SumTypes, Zenon
  <2>3. Head(out).acc.packetCount \in Nat
    <3>1. 1 \in 1 .. Len(out) /\ Head(out) = out[1]
      BY <1>s, <2>1
    <3> QED
      BY <2>2, <3>1, Zenon
  <2>4. OutSum = Head(out).acc.packetCount + OutSum'
    BY <1>s, <2>1, <2>2, OutRemoved, Zenon DEF OutSum
  <2>5. OutSum' \in Nat
    <3>1. Len(Tail(out)) \in Nat /\ \A n \in 1 .. Len(Tail(out)) : OutCounts(Tail(out))[n] \in Nat
      <4>1. Len(out) \in Nat \ {0} /\ Len(Tail(out)) = Len(out) - 1
            /\ \A n \in 1 .. Len(out) - 1 : Tail(out)[n] = out[n + 1]
        BY <1>s, <2>1, Removed, Zenon
      <4>2. \A n \in 1 .. Len(Tail(out)) :
              OutCounts(Tail(out))[n] = Tail(out)[n].acc.packetCount /\ n + 1 \in 1 .. Len(out)
        BY <4>1 DEF OutCounts
      <4>3. Len(Tail(out)) \in Nat
        BY <4>1
      <4> QED
        BY <2>2, <4>1, <4>2, <4>3, Zenon
    <3>2. IsFiniteSet(1 .. Len(Tail(out)))
      BY <3>1, FS_Interval
    <3> QED
      BY <2>1, <3>1, <3>2, SumRemove, Zenon DEF OutSum
  <2>6. FlowSum' = FlowSum /\ BatchSum' = BatchSum
    BY <2>1, Zenon DEF FlowSum, BatchSum
  <2>7. Len(trace') = FlowSum' + BatchSum' + OutSum' + delivered' + discarded' /\ delivered' \in Nat
    <3>1. PICK c \in Nat : c = Head(out).acc.packetCount
      BY <2>3, Zenon
    <3>2. OutSum = c + OutSum' /\ delivered' = delivered + c
      BY <2>1, <2>4, <3>1, Zenon
    <3>3. trace' = trace /\ discarded' = discarded
      BY <2>1, Zenon
    <3>4. FlowSum + BatchSum + (c + OutSum') + delivered + discarded =
            FlowSum + BatchSum + OutSum' + (delivered + c) + discarded
          /\ delivered + c \in Nat
      BY ONLY <1>n, <2>5, c \in Nat
    <3>5. Len(trace) = FlowSum + BatchSum + (c + OutSum') + delivered + discarded
      BY <1>a, <3>2, Zenon
    <3>6. Len(trace) = FlowSum + BatchSum + OutSum' + delivered' + discarded /\ delivered' \in Nat
      BY <3>2, <3>4, <3>5, Zenon
    <3> QED
      BY <2>6, <3>3, <3>6, Zenon
  <2> QED
    BY <1>0, <2>1, <2>7, Zenon DEF Conserved
<1>7. ASSUME NEW r \in Readers, NEW m \in Meta, IngestRejected(r, m) PROVE Conserved'
  BY <1>1, <1>7, Zenon DEF IngestRejected
<1>8. ASSUME NEW r \in Readers, IngestPort(r) PROVE Conserved'
  BY <1>1, <1>8, Zenon DEF IngestPort
<1>9. ASSUME NEW final \in BOOLEAN, BeginFlush(final) PROVE Conserved'
  BY <1>1, <1>9, Zenon DEF BeginFlush
<1>10. CASE Cancel \/ FlushPorts \/ Close \/ UNCHANGED vars
  BY <1>1, <1>10, Zenon DEF Cancel, FlushPorts, Close, vars
<1> QED
  BY <1>2, <1>3, <1>4, <1>5, <1>6, <1>7, <1>8, <1>9, <1>10, Zenon DEF Next

\* No record that Ingest accepted is lost or counted twice: each is in an
\* open flow, a flow being flushed, the channel, a feature received, or one
\* dropped for want of room.
THEOREM RecordsConserved == Spec => []Conservation
<1>1. Init => Conserved
  <2> SUFFICES ASSUME Init PROVE Conserved
    OBVIOUS
  <2>1. batch = {} /\ Len(out) = 0 /\ Len(trace) = 0 /\ delivered = 0 /\ discarded = 0
    BY DEF Init
  <2>2. \A k \in FlowKeys : FlowCounts(flows)[k] = 0
    BY DEF Init, FlowCounts, NoFlow
  <2>3. FlowSum = 0
    BY <2>2, FlowsFinite, SumZero, Zenon DEF FlowSum
  <2>4. IsFiniteSet({}) /\ 1 .. 0 = {}
    BY FS_EmptySet
  <2>5. BatchSum = 0 /\ OutSum = 0
    BY <2>1, <2>4, SumZero, Zenon DEF BatchSum, OutSum
  <2> QED
    BY <2>1, <2>3, <2>4, <2>5 DEF Conserved
<1>2. CInv /\ Conserved => Conservation
  <2> SUFFICES ASSUME CInv, Conserved PROVE Conservation
    OBVIOUS
  <2>1. DOMAIN out = 1 .. Len(out)
    <3>1. PICK S : out \in Seq(S)
      BY Zenon DEF CInv, Queued
    <3> QED
      BY <3>1
  <2>2. /\ SumFunction([k \in FlowKeys |-> flows[k].packetCount]) = FlowSum
        /\ SumFunction([f \in batch |-> f[2].packetCount]) = BatchSum
        /\ SumFunction([n \in DOMAIN out |-> out[n].acc.packetCount]) = OutSum
    BY <2>1, Zenon DEF SumFunction, FlowSum, BatchSum, OutSum, FlowCounts, BatchCounts, OutCounts
  <2> QED
    BY <2>2, Zenon DEF Conserved, Conservation
<1> QED
  BY <1>1, <1>2, StepConserved, CInvariance, PTL DEF Spec

-----------------------------------------------------------------------------
(* The port trackers.                                                      *)

\* The records of source ip that trace t has and pw puts in window w.
From(t, pw, ip, w) == {i \in 1 .. Len(t) : t[i].src = ip /\ pw[i] = w}

\* A record between the two locks is uncounted, and in one reader's hands.
InHand ==
  \A r \in Readers : reading[r] # 0 =>
    /\ portWindow[reading[r]] = Unseen
    /\ \A q \in Readers : q # r => reading[q] # reading[r]

\* What the first loop has taken lies behind it.
PortsTaken ==
  runPC \in {"ports", "ports_final"} =>
    \A i \in 1 .. Len(trace) : portWindow[i] = window => srcIPShardIndex(trace[i].src) < shardAt

\* Every tracker holds its records.
Tracked ==
  \A ip \in SrcIPs :
    /\ TrackerHolds(ports[ip], From(trace, portWindow, ip, 0))
    /\ window > 0 => TrackerHolds(portSnapshot[ip], From(trace, portWindow, ip, window))

\* The inductive invariant of the trackers.
PInv == InHand /\ PortsTaken /\ Tracked

\* There are finitely many ports.
LEMMA PortsFinite ==
  /\ IsFiniteSet(PortKeys)
  /\ \A S : S \subseteq PortKeys => IsFiniteSet(S) /\ Cardinality(S) \in Nat
<1> DEFINE D == {m.dport : m \in Meta}
           g == [m \in Meta |-> m.dport]
<1>1. g \in Surjection(Meta, D)
  BY DEF Surjection
<1>2. IsFiniteSet(Meta)
  BY AggregatorAssumption
<1>3. IsFiniteSet(D)
  BY <1>1, <1>2, FS_Surjection, Zenon
<1>4. IsFiniteSet(PortKeys)
  BY <1>3, FS_AddElement DEF PortKeys
<1> QED
  BY <1>4, FS_Subset, FS_CardinalityType

\* A tracker's sum is over the ports there are.
LEMMA CountsSum ==
  ASSUME NEW pt \in Trackers
  PROVE  /\ SumFunction(pt.counts) = SumFunctionOnSet(pt.counts, PortKeys)
         /\ \A p \in PortKeys : pt.counts[p] \in Nat
<1>1. pt.counts \in [PortKeys -> Nat]
  BY DEF Trackers
<1>2. DOMAIN pt.counts = PortKeys
  BY <1>1
<1> QED
  BY <1>1, <1>2 DEF SumFunction

\* A new tracker holds nothing.
LEMMA NoTrackerHolds == TrackerHolds(NoTracker, {})
<1>1. NoTracker \in Trackers /\ NoTracker.total = 0 /\ \A p \in PortKeys : NoTracker.counts[p] = 0
  BY DEF NoTracker, Trackers
<1>2. SumFunction(NoTracker.counts) = 0
  BY <1>1, CountsSum, PortsFinite, SumZero, Zenon
<1>3. PortsOf(NoTracker) = {}
  BY <1>1 DEF PortsOf
<1>4. Cardinality({}) = 0 /\ PortsOf(NoTracker) \ {overflowPortKey} = {}
  BY <1>3, FS_EmptySet
<1> QED
  BY <1>1, <1>2, <1>4, AggregatorAssumption DEF TrackerHolds

\* A port observed is one more record held, within the buckets there are.
LEMMA ObservePortHolds ==
  ASSUME NEW pt \in Trackers, NEW d \in PortKeys, NEW S, IsFiniteSet(S), NEW i, i \notin S,
         TrackerHolds(pt, S)
  PROVE  TrackerHolds(ObservePort(pt, d), S \cup {i})
<1> DEFINE full == pt.counts[d] = 0 /\ Cardinality(PortsOf(pt)) >= maxPortsPerSrcIP
           z == IF full THEN overflowPortKey ELSE d
           qt == ObservePort(pt, d)
<1>0. z \in PortKeys /\ overflowPortKey \in PortKeys
  BY DEF PortKeys
<1>1. qt \in Trackers
  BY ObservePortType
<1>2. /\ qt.total = pt.total + 1 /\ qt.counts = [pt.counts EXCEPT ![z] = pt.counts[z] + 1]
  BY DEF ObservePort
<1>t. pt.counts \in [PortKeys -> Nat] /\ pt.total \in Nat /\ maxPortsPerSrcIP \in Nat \ {0}
  BY AggregatorAssumption DEF Trackers
<1> HIDE DEF qt
<1>3. /\ qt.counts[z] = pt.counts[z] + 1 /\ \A p \in PortKeys : p # z => qt.counts[p] = pt.counts[p]
  <2> HIDE DEF z
  <2> QED
    BY <1>0, <1>2, <1>t
<1>4. qt.total = Cardinality(S \cup {i})
  <2>1. Cardinality(S \cup {i}) = Cardinality(S) + 1
    BY FS_AddElement
  <2> QED
    BY <1>2, <2>1, Zenon DEF TrackerHolds
<1>5. qt.total = SumFunction(qt.counts)
  <2>1. \A p \in PortKeys : pt.counts[p] \in Nat
    BY <1>t
  <2>2. 1 \in Nat
    OBVIOUS
  <2>3. SumFunctionOnSet(qt.counts, PortKeys) = SumFunctionOnSet(pt.counts, PortKeys) + 1
    <3> HIDE DEF z
    <3> QED
      BY <1>0, <1>3, <2>1, <2>2, PortsFinite, SumChange
  <2>4. pt.total = SumFunctionOnSet(pt.counts, PortKeys)
    BY CountsSum, Zenon DEF TrackerHolds
  <2>5. SumFunction(qt.counts) = SumFunctionOnSet(qt.counts, PortKeys)
    BY <1>1, CountsSum, Zenon
  <2> QED
    BY <1>2, <2>3, <2>4, <2>5, Zenon
<1>6. Cardinality(PortsOf(qt) \ {overflowPortKey}) <= maxPortsPerSrcIP
  <2> DEFINE O == PortsOf(pt) \ {overflowPortKey}
             Q == PortsOf(qt) \ {overflowPortKey}
  <2> SUFFICES Cardinality(Q) <= maxPortsPerSrcIP
    OBVIOUS
  <2>1. PortsOf(pt) \subseteq PortKeys /\ O \subseteq PortKeys /\ Q \subseteq PortKeys
    BY DEF PortsOf
  <2>2. Cardinality(O) <= maxPortsPerSrcIP
    BY Zenon DEF TrackerHolds
  <2>3. \A p \in PortKeys : p # z => (p \in PortsOf(qt) <=> p \in PortsOf(pt))
    BY <1>3, Zenon DEF PortsOf
  <2>4. /\ IsFiniteSet(PortsOf(pt)) /\ Cardinality(PortsOf(pt)) \in Nat
        /\ IsFiniteSet(O) /\ Cardinality(O) \in Nat /\ IsFiniteSet(Q) /\ Cardinality(Q) \in Nat
    BY <2>1, PortsFinite, Zenon
  <2>5. CASE full
    <3>1. z = overflowPortKey
      BY <2>5
    <3>2. Q \subseteq O
      <4> HIDE DEF z
      <4> QED
        BY <2>1, <2>3, <3>1
    <3>3. Cardinality(Q) <= Cardinality(O)
      BY <2>4, <3>2, FS_Subset
    <3> HIDE DEF O, Q
    <3> QED
      BY <1>t, <2>2, <2>4, <3>3
  <2>6. CASE ~full /\ pt.counts[d] # 0
    <3>1. z = d /\ pt.counts[d] > 0
      BY <1>t, <2>6
    <3>2. Q \subseteq O
      <4>1. z \in PortsOf(pt)
        BY <1>0, <3>1 DEF PortsOf
      <4> HIDE DEF z
      <4> QED
        BY <2>1, <2>3, <4>1
    <3>3. Cardinality(Q) <= Cardinality(O)
      BY <2>4, <3>2, FS_Subset
    <3> HIDE DEF O, Q
    <3> QED
      BY <1>t, <2>2, <2>4, <3>3
  <2>7. CASE ~full /\ pt.counts[d] = 0
    <3>1. Cardinality(PortsOf(pt)) < maxPortsPerSrcIP
      BY <1>t, <2>4, <2>7
    <3>2. Q \subseteq PortsOf(pt) \cup {z}
      <4> HIDE DEF z
      <4> QED
        BY <2>1, <2>3
    <3> HIDE DEF Q, z
    <3>3. /\ IsFiniteSet(PortsOf(pt) \cup {z})
          /\ \/ Cardinality(PortsOf(pt) \cup {z}) = Cardinality(PortsOf(pt))
             \/ Cardinality(PortsOf(pt) \cup {z}) = Cardinality(PortsOf(pt)) + 1
      BY <2>4, FS_AddElement
    <3>4. Cardinality(Q) <= Cardinality(PortsOf(pt) \cup {z})
      BY <3>2, <3>3, FS_Subset
    <3> QED
      BY <1>t, <2>4, <3>1, <3>3, <3>4
  <2> QED
    BY <2>5, <2>6, <2>7
<1> QED
  BY <1>4, <1>5, <1>6, Zenon DEF TrackerHolds, qt

\* The steps that leave the trackers and their records alone.
LEMMA TrackersFrame ==
  ASSUME Next
  PROVE  \/ UNCHANGED <<trace, reading, ports, portSnapshot, portWindow, window>>
         \/ \E r \in Readers, m \in Meta : IngestFlow(r, m)
         \/ \E r \in Readers : IngestPort(r)
         \/ \E final \in BOOLEAN : BeginFlush(final)
         \/ FlushPorts
<1> DEFINE Same == UNCHANGED <<trace, reading, ports, portSnapshot, portWindow, window>>
<1>1. ASSUME NEW r \in Readers, NEW m \in Meta, IngestRejected(r, m) PROVE Same
  BY <1>1, Zenon DEF IngestRejected
<1>2. CASE Cancel \/ FlushFlows \/ Close \/ Receive
  BY <1>2, Zenon DEF Cancel, FlushFlows, TakeFlows, Close, Receive
<1>3. ASSUME NEW f \in batch, EmitSend(f) \/ EmitDrop(f) PROVE Same
  BY <1>3, Zenon DEF EmitSend, EmitDrop, EmitDone
<1> QED
  BY <1>1, <1>2, <1>3, Zenon DEF Next

\* The steps that do not enter or go on with the first loop.
LEMMA FirstLoop ==
  ASSUME Next
  PROVE  \/ UNCHANGED <<runPC, shardAt>>
         \/ \E final \in BOOLEAN : BeginFlush(final)
         \/ FlushPorts
         \/ runPC' \notin {"ports", "ports_final"}
<1>1. ASSUME NEW r \in Readers, NEW m \in Meta, IngestFlow(r, m) \/ IngestRejected(r, m)
      PROVE  UNCHANGED <<runPC, shardAt>>
  BY <1>1, Zenon DEF IngestFlow, IngestRejected
<1>2. ASSUME NEW r \in Readers, IngestPort(r) PROVE UNCHANGED <<runPC, shardAt>>
  BY <1>2, Zenon DEF IngestPort
<1>3. CASE Cancel \/ Receive
  BY <1>3, Zenon DEF Cancel, Receive
<1>4. CASE Close
  BY <1>4 DEF Close
<1>5. ASSUME NEW phase \in {"flows", "flows_final"}, NextShard(phase)
      PROVE  runPC' \notin {"ports", "ports_final"}
  BY <1>5 DEF NextShard, After
<1>6. CASE FlushFlows
  <2>1. runPC \in {"flows", "flows_final"} /\ (NextShard(runPC) \/ runPC' \in {"emit", "emit_final"})
    BY <1>6 DEF FlushFlows, TakeFlows
  <2> QED
    BY <1>5, <2>1
<1>7. ASSUME NEW f \in batch, EmitSend(f) \/ EmitDrop(f)
      PROVE  UNCHANGED <<runPC, shardAt>> \/ runPC' \notin {"ports", "ports_final"}
  <2>1. \/ \E phase \in {"flows", "flows_final"} : NextShard(phase)
        \/ UNCHANGED <<runPC, shardAt>>
    BY <1>7, Zenon DEF EmitSend, EmitDrop, EmitDone
  <2> QED
    BY <1>5, <2>1, Zenon
<1> QED
  BY <1>1, <1>2, <1>3, <1>4, <1>6, <1>7, Zenon DEF Next

\* A record keeps to one reader until its port is counted.
LEMMA StepInHand == AInv /\ InHand /\ [Next]_vars => InHand'
<1> SUFFICES ASSUME AInv, InHand, [Next]_vars PROVE InHand'
  OBVIOUS
<1>0. /\ trace \in Seq(Meta) /\ Len(trace) \in Nat /\ MaxPackets \in Nat
      /\ reading \in [Readers -> 0 .. Len(trace)]
      /\ portWindow \in [Ids -> Nat \cup {Unseen}] /\ Len(trace) <= MaxPackets
      /\ \A i \in Ids : i > Len(trace) => portWindow[i] = Unseen
  BY AggregatorAssumption DEF AInv, Windows
<1>1. CASE UNCHANGED <<reading, portWindow>>
  BY <1>1, Zenon DEF InHand
<1>2. ASSUME NEW r \in Readers, NEW m \in Meta, IngestFlow(r, m) PROVE InHand'
  <2> DEFINE x == Len(trace) + 1
  <2>1. Len(trace') = x /\ portWindow' = portWindow /\ Len(trace) < MaxPackets
        /\ reading' = [reading EXCEPT ![r] = x]
    BY <1>0, <1>2 DEF IngestFlow
  <2>2. portWindow[x] = Unseen /\ x # 0 /\ \A q \in Readers : reading[q] # x
    BY <1>0, <2>1
  <2> HIDE DEF x
  <2>3. reading'[r] = x /\ \A q \in Readers : q # r => reading'[q] = reading[q]
    BY <1>0, <2>1
  <2> QED
    BY <2>1, <2>2, <2>3, Zenon DEF InHand
<1>3. ASSUME NEW r \in Readers, IngestPort(r) PROVE InHand'
  <2>1. /\ reading[r] # 0 /\ portWindow' = [portWindow EXCEPT ![reading[r]] = 0]
        /\ reading' = [reading EXCEPT ![r] = 0]
    BY <1>3, Zenon DEF IngestPort
  <2>2. reading'[r] = 0 /\ \A q \in Readers : q # r => reading'[q] = reading[q]
    BY <1>0, <2>1
  <2>3. \A q \in Readers : q # r /\ reading[q] # 0 => portWindow'[reading[q]] = portWindow[reading[q]]
    <3>1. \A q \in Readers : q # r /\ reading[q] # 0 => reading[q] # reading[r] /\ reading[q] \in Ids
      <4>1. \A q \in Readers : q # r /\ reading[q] # 0 => reading[q] # reading[r]
        BY Zenon DEF InHand
      <4>2. \A q \in Readers : reading[q] # 0 => reading[q] \in Ids
        BY <1>0
      <4> QED
        BY <4>1, <4>2, Zenon
    <3> QED
      BY <1>0, <2>1, <3>1
  <2> QED
    BY <2>2, <2>3, Zenon DEF InHand
<1>4. CASE FlushPorts
  <2>1. reading' = reading
    BY <1>4, Zenon DEF FlushPorts
  <2>2. \A i \in Ids : portWindow[i] = Unseen => portWindow'[i] = Unseen
    BY <1>4 DEF FlushPorts
  <2>3. \A q \in Readers : reading[q] # 0 => reading[q] \in Ids
    BY <1>0
  <2> QED
    BY <2>1, <2>2, <2>3, Zenon DEF InHand
<1>5. ASSUME NEW final \in BOOLEAN, BeginFlush(final) PROVE UNCHANGED <<reading, portWindow>>
  BY <1>5, Zenon DEF BeginFlush
<1> QED
  BY <1>1, <1>2, <1>3, <1>4, <1>5, TrackersFrame, Zenon DEF vars

\* What the first loop has taken stays behind it.
LEMMA StepPortsTaken == AInv /\ PortsTaken /\ [Next]_vars => PortsTaken'
<1> SUFFICES ASSUME AInv, PortsTaken, [Next]_vars, runPC' \in {"ports", "ports_final"},
                    NEW i \in 1 .. Len(trace'), portWindow'[i] = window'
             PROVE  srcIPShardIndex(trace'[i].src) < shardAt'
  BY Zenon DEF PortsTaken
<1>0. /\ trace \in Seq(Meta) /\ Len(trace) \in Nat /\ MaxPackets \in Nat
      /\ reading \in [Readers -> 0 .. Len(trace)] /\ runPC \in RunPCs
      /\ portWindow \in [Ids -> Nat \cup {Unseen}] /\ Len(trace) <= MaxPackets
      /\ window \in Nat /\ (Flushing => window > 0)
      /\ \A j \in Ids : portWindow[j] <= window /\ (j > Len(trace) => portWindow[j] = Unseen)
  BY AggregatorAssumption DEF AInv, Windows
<1>1. CASE UNCHANGED <<runPC, shardAt, trace, portWindow, window>>
  BY <1>1, Zenon DEF PortsTaken
<1>2. ASSUME NEW r \in Readers, NEW m \in Meta, IngestFlow(r, m)
      PROVE  srcIPShardIndex(trace'[i].src) < shardAt'
  <2>1. /\ trace' = Append(trace, m) /\ Len(trace) < MaxPackets
        /\ UNCHANGED <<runPC, shardAt, portWindow, window>>
    BY <1>2, Zenon DEF IngestFlow
  <2>2. Len(trace') = Len(trace) + 1 /\ \A j \in 1 .. Len(trace) : trace'[j] = trace[j]
    BY <1>0, <2>1
  <2>3. i \in 1 .. Len(trace)
    <3>1. CASE i = Len(trace) + 1
      <4>1. portWindow[i] = Unseen
        BY <1>0, <2>1, <3>1
      <4> QED
        BY <1>0, <2>1, <4>1
    <3> QED
      BY <1>0, <2>2, <3>1
  <2> QED
    BY <2>1, <2>2, <2>3, Zenon DEF PortsTaken
<1>3. ASSUME NEW r \in Readers, IngestPort(r)
      PROVE  srcIPShardIndex(trace'[i].src) < shardAt'
  <2>1. /\ portWindow' = [portWindow EXCEPT ![reading[r]] = 0]
        /\ UNCHANGED <<runPC, shardAt, trace, window>>
    BY <1>3, Zenon DEF IngestPort
  <2>2. window # 0
    BY <1>0, <2>1 DEF Flushing
  <2>3. portWindow[i] = window
    BY <1>0, <2>1, <2>2
  <2> QED
    BY <2>1, <2>3, Zenon DEF PortsTaken
<1>4. ASSUME NEW final \in BOOLEAN, BeginFlush(final)
      PROVE  srcIPShardIndex(trace'[i].src) < shardAt'
  <2>1. window' = window + 1 /\ UNCHANGED <<trace, portWindow>>
    BY <1>4, Zenon DEF BeginFlush
  <2>2. i \in Ids
    BY <1>0, <2>1
  <2> QED
    BY <1>0, <2>1, <2>2
<1>5. CASE FlushPorts
  <2>1. /\ runPC \in {"ports", "ports_final"} /\ UNCHANGED <<trace, window>> /\ NextShard(runPC)
        /\ portWindow' = [j \in Ids |->
                             IF portWindow[j] = 0 /\ srcIPShardIndex(trace[j].src) = shardAt
                             THEN window ELSE portWindow[j]]
    BY <1>5, Zenon DEF FlushPorts
  <2>2. shardAt' = shardAt + 1
    BY <2>1 DEF NextShard, After
  <2>3. i \in 1 .. Len(trace) /\ i \in Ids
    BY <1>0, <2>1
  <2>4. srcIPShardIndex(trace[i].src) = shardAt \/ portWindow[i] = window
    BY <2>1, <2>3
  <2>5. srcIPShardIndex(trace[i].src) = shardAt \/ srcIPShardIndex(trace[i].src) < shardAt
    BY <2>1, <2>3, <2>4, Zenon DEF PortsTaken
  <2>6. srcIPShardIndex(trace[i].src) \in Nat /\ shardAt \in Nat
    <3>1. trace[i] \in Meta
      BY <1>0, <2>3
    <3>2. trace[i].src \in SrcIPs
      BY <3>1, RecordKeys, Zenon
    <3> QED
      BY <3>2, AggregatorAssumption DEF AInv, Windows, Shards
  <2>7. trace' = trace
    BY <2>1, Zenon
  <2> QED
    BY <2>2, <2>5, <2>6, <2>7
<1> QED
  BY <1>1, <1>2, <1>3, <1>4, <1>5, TrackersFrame, FirstLoop, Zenon DEF vars

\* A tracker holds its records, whatever the step.
LEMMA StepTracked == AInv /\ TableTypes /\ PInv /\ [Next]_vars => Tracked'
<1> SUFFICES ASSUME AInv, TableTypes, PInv, [Next]_vars PROVE Tracked'
  OBVIOUS
<1>0. /\ trace \in Seq(Meta) /\ Len(trace) \in Nat /\ MaxPackets \in Nat
      /\ reading \in [Readers -> 0 .. Len(trace)] /\ Len(trace) <= MaxPackets
      /\ portWindow \in [Ids -> Nat \cup {Unseen}]
      /\ window \in Nat /\ (Flushing => window > 0)
      /\ \A j \in Ids : portWindow[j] <= window /\ (j > Len(trace) => portWindow[j] = Unseen)
  BY AggregatorAssumption DEF AInv, Windows
<1>t. Tracked /\ InHand /\ PortsTaken
  BY Zenon DEF PInv
<1>p. ports \in [SrcIPs -> Trackers] /\ portSnapshot \in [SrcIPs -> Trackers]
  BY Zenon DEF TableTypes
<1>i. \A j \in 1 .. Len(trace) : j \in Ids
  BY <1>0
<1>f. \A ip, w : IsFiniteSet(From(trace, portWindow, ip, w))
  <2>1. \A ip, w : From(trace, portWindow, ip, w) \subseteq 1 .. Len(trace)
    BY DEF From
  <2> QED
    BY <1>0, <2>1, PositionsFinite, Zenon
<1>1. CASE UNCHANGED <<trace, reading, ports, portSnapshot, portWindow, window>>
  BY <1>1, <1>t, Zenon DEF Tracked
<1>2. ASSUME NEW r \in Readers, NEW m \in Meta, IngestFlow(r, m) PROVE Tracked'
  <2>1. /\ trace' = Append(trace, m) /\ Len(trace) < MaxPackets
        /\ UNCHANGED <<ports, portSnapshot, portWindow, window>>
    BY <1>2, Zenon DEF IngestFlow
  <2>2. Len(trace') = Len(trace) + 1 /\ \A j \in 1 .. Len(trace) : trace'[j] = trace[j]
    BY <1>0, <2>1
  <2>3. portWindow[Len(trace) + 1] = -1
    BY <1>0, <2>1
  <2>4. ASSUME NEW ip, NEW w \in Nat
        PROVE  From(trace', portWindow, ip, w) = From(trace, portWindow, ip, w)
    <3>1. portWindow[Len(trace) + 1] # w
      BY <2>3
    <3>2. \A j : j \in 1 .. Len(trace') <=> j \in 1 .. Len(trace) \/ j = Len(trace) + 1
      BY <1>0, <2>2
    <3> QED
      BY <2>2, <3>1, <3>2, Zenon DEF From
  <2>5. 0 \in Nat
    OBVIOUS
  <2> QED
    BY <1>0, <1>t, <2>1, <2>4, <2>5, Zenon DEF Tracked
<1>3. ASSUME NEW r \in Readers, IngestPort(r) PROVE Tracked'
  <2> DEFINE x == reading[r]
             m == trace[x]
  <2>1. /\ x # 0 /\ ports' = [ports EXCEPT ![m.src] = ObservePort(ports[m.src], m.dport)]
        /\ portWindow' = [portWindow EXCEPT ![x] = 0]
        /\ UNCHANGED <<trace, portSnapshot, window>>
    BY <1>3, Zenon DEF IngestPort
  <2>2. x \in 1 .. Len(trace) /\ x \in Ids
    BY <1>0, <2>1
  <2>3. m \in Meta /\ m.src \in SrcIPs /\ m.dport \in PortKeys
    BY <1>0, <2>2, RecordKeys
  <2>4. portWindow[x] = -1
    BY <1>t, <2>1 DEF InHand
  <2> HIDE DEF x
  <2>5. portWindow'[x] = 0 /\ \A j \in 1 .. Len(trace) : j # x => portWindow'[j] = portWindow[j]
    BY <1>0, <1>i, <2>1, <2>2
  <2> HIDE DEF m
  <2>6. ASSUME NEW ip \in SrcIPs
        PROVE  /\ From(trace, portWindow', ip, 0) =
                    IF ip = m.src THEN From(trace, portWindow, ip, 0) \cup {x}
                    ELSE From(trace, portWindow, ip, 0)
               /\ window > 0 => From(trace, portWindow', ip, window) = From(trace, portWindow, ip, window)
               /\ x \notin From(trace, portWindow, ip, 0)
    <3>1. x \notin From(trace, portWindow, ip, 0)
      BY <2>4 DEF From
    <3>2. window > 0 => From(trace, portWindow', ip, window) = From(trace, portWindow, ip, window)
      <4>1. window > 0 => portWindow'[x] # window /\ portWindow[x] # window
        BY <1>0, <2>4, <2>5
      <4> QED
        BY <2>5, <4>1, Zenon DEF From
    <3>3. CASE ip = m.src
      <4>1. \A j : j \in From(trace, portWindow', ip, 0) <=> j \in From(trace, portWindow, ip, 0) \/ j = x
        BY <2>2, <2>5, <3>3, Zenon DEF From, m
      <4> QED
        BY <3>1, <3>2, <3>3, <4>1
    <3>4. CASE ip # m.src
      <4>1. \A j : j \in From(trace, portWindow', ip, 0) <=> j \in From(trace, portWindow, ip, 0)
        BY <2>2, <2>5, <3>1, <3>4, Zenon DEF From, m
      <4> QED
        BY <3>1, <3>2, <3>4, <4>1
    <3> QED
      BY <3>3, <3>4
  <2>7. ASSUME NEW ip \in SrcIPs PROVE TrackerHolds(ports'[ip], From(trace, portWindow', ip, 0))
    <3>1. TrackerHolds(ports[ip], From(trace, portWindow, ip, 0))
      BY <1>t, Zenon DEF Tracked
    <3>2. CASE ip = m.src
      <4>1. ports'[ip] = ObservePort(ports[ip], m.dport)
        BY <1>p, <2>1, <2>3, <3>2
      <4>2. ports[ip] \in Trackers
        BY <1>p
      <4>3. From(trace, portWindow', ip, 0) = From(trace, portWindow, ip, 0) \cup {x}
        BY <2>6, <3>2
      <4>4. x \notin From(trace, portWindow, ip, 0) /\ IsFiniteSet(From(trace, portWindow, ip, 0))
        BY <1>f, <2>6, Zenon
      <4>5. TrackerHolds(ObservePort(ports[ip], m.dport), From(trace, portWindow, ip, 0) \cup {x})
        BY <2>3, <3>1, <4>2, <4>4, ObservePortHolds
      <4> QED
        BY <4>1, <4>3, <4>5, Zenon
    <3>3. CASE ip # m.src
      <4>1. ports'[ip] = ports[ip]
        BY <1>p, <2>1, <2>3, <3>3
      <4>2. From(trace, portWindow', ip, 0) = From(trace, portWindow, ip, 0)
        BY <2>6, <3>3, Zenon
      <4> QED
        BY <3>1, <4>1, <4>2, Zenon
    <3> QED
      BY <3>2, <3>3
  <2> QED
    BY <1>t, <2>1, <2>6, <2>7, Zenon DEF Tracked
<1>4. ASSUME NEW final \in BOOLEAN, BeginFlush(final) PROVE Tracked'
  <2>1. /\ window' = window + 1 /\ UNCHANGED <<trace, ports, portWindow>>
        /\ portSnapshot' = [ip \in SrcIPs |-> NoTracker]
    BY <1>4, Zenon DEF BeginFlush
  <2>2. \A ip \in SrcIPs : portSnapshot'[ip] = NoTracker
    BY <2>1
  <2>3. \A ip : From(trace, portWindow, ip, window + 1) = {}
    <3>1. \A j \in 1 .. Len(trace) : portWindow[j] # window + 1
      BY <1>0, <1>i
    <3> QED
      BY <3>1, Zenon DEF From
  <2> QED
    BY <1>t, <2>1, <2>2, <2>3, NoTrackerHolds, Zenon DEF Tracked
<1>5. CASE FlushPorts
  <2> DEFINE mine(ip) == srcIPShardIndex(ip) = shardAt
  <2>1. /\ runPC \in {"ports", "ports_final"} /\ UNCHANGED <<trace, window>>
        /\ portSnapshot' = [ip \in SrcIPs |-> IF mine(ip) THEN ports[ip] ELSE portSnapshot[ip]]
        /\ ports' = [ip \in SrcIPs |-> IF mine(ip) THEN NoTracker ELSE ports[ip]]
        /\ portWindow' = [j \in Ids |->
                             IF portWindow[j] = 0 /\ mine(trace[j].src)
                             THEN window ELSE portWindow[j]]
    BY <1>5, Zenon DEF FlushPorts
  <2>2. window # 0 /\ window > 0
    BY <1>0, <2>1 DEF Flushing
  <2>3. \A j \in 1 .. Len(trace) :
          portWindow'[j] = IF portWindow[j] = 0 /\ mine(trace[j].src) THEN window ELSE portWindow[j]
    BY <1>i, <2>1
  <2>4. \A ip : mine(ip) => From(trace, portWindow, ip, window) = {}
    <3>1. \A j \in 1 .. Len(trace) : portWindow[j] = window => srcIPShardIndex(trace[j].src) < shardAt
      BY <1>t, <2>1, Zenon DEF PortsTaken
    <3>2. ~(shardAt < shardAt)
      BY DEF AInv, Windows, Shards
    <3> QED
      BY <3>1, <3>2, Zenon DEF From
  <2>5. ASSUME NEW ip \in SrcIPs, mine(ip)
        PROVE  /\ TrackerHolds(ports'[ip], From(trace, portWindow', ip, 0))
               /\ TrackerHolds(portSnapshot'[ip], From(trace, portWindow', ip, window))
    <3>1. From(trace, portWindow', ip, 0) = {}
      BY <2>2, <2>3, <2>5, Zenon DEF From
    <3>2. \A j \in 1 .. Len(trace) : trace[j].src = ip => portWindow[j] # window
      BY <2>4, <2>5, Zenon DEF From
    <3>3. From(trace, portWindow', ip, window) = From(trace, portWindow, ip, 0)
      BY <2>2, <2>3, <2>5, <3>2, Zenon DEF From
    <3>4. ports'[ip] = NoTracker /\ portSnapshot'[ip] = ports[ip]
      BY <2>1, <2>5
    <3> QED
      BY <1>t, <3>1, <3>3, <3>4, NoTrackerHolds, Zenon DEF Tracked
  <2>6. ASSUME NEW ip \in SrcIPs, ~mine(ip)
        PROVE  /\ TrackerHolds(ports'[ip], From(trace, portWindow', ip, 0))
               /\ TrackerHolds(portSnapshot'[ip], From(trace, portWindow', ip, window))
    <3>1. \A w : From(trace, portWindow', ip, w) = From(trace, portWindow, ip, w)
      BY <2>3, <2>6, Zenon DEF From
    <3>2. ports'[ip] = ports[ip] /\ portSnapshot'[ip] = portSnapshot[ip]
      BY <2>1, <2>6
    <3> QED
      BY <1>t, <2>2, <3>1, <3>2, Zenon DEF Tracked
  <2> QED
    BY <2>1, <2>5, <2>6, Zenon DEF Tracked
<1> QED
  BY <1>1, <1>2, <1>3, <1>4, <1>5, TrackersFrame, Zenon DEF vars

\* A tracker counts each record of its source once, in the window whose
\* snapshot takes it, and keeps within its buckets however the readers and
\* the flush interleave.
THEOREM TrackersHold == Spec => []TrackersExact
<1>1. Init => PInv
  <2> SUFFICES ASSUME Init PROVE PInv
    OBVIOUS
  <2>1. InHand
    BY DEF Init, InHand
  <2>2. PortsTaken
    BY DEF Init, PortsTaken
  <2>3. Tracked
    <3>1. Len(trace) = 0 /\ window = 0 /\ \A ip \in SrcIPs : ports[ip] = NoTracker
      BY DEF Init
    <3>2. \A ip : From(trace, portWindow, ip, 0) = {}
      BY <3>1 DEF From
    <3>3. ~(window > 0)
      BY <3>1
    <3> QED
      BY <3>1, <3>2, <3>3, NoTrackerHolds, Zenon DEF Tracked
  <2> QED
    BY <2>1, <2>2, <2>3 DEF PInv
<1>2. CInv /\ PInv /\ [Next]_vars => PInv'
  BY StepInHand, StepPortsTaken, StepTracked, Zenon DEF PInv, CInv
<1>3. CInv /\ PInv => TrackersExact
  <2> SUFFICES ASSUME CInv, PInv PROVE TrackersExact
    OBVIOUS
  <2>1. DOMAIN trace = 1 .. Len(trace)
    BY DEF CInv, AInv, Windows
  <2>2. \A ip, w : {i \in DOMAIN trace : trace[i].src = ip /\ portWindow[i] = w} =
                     From(trace, portWindow, ip, w)
    BY <2>1, Zenon DEF From
  <2> QED
    BY <2>2, Zenon DEF PInv, Tracked, TrackersExact
<1> QED
  BY <1>1, <1>2, <1>3, CInvariance, PTL DEF Spec
=============================================================================
