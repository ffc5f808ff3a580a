# TLA+ verification of AI-IDA

AI-IDA is a host firewall that closes its own loop. An XDP program judges every
packet and reports what it did; a user-space daemon aggregates the reports into
flows, classifies them, and puts the sources it finds malicious into the map the
XDP program reads. This directory holds TLA+ specifications of that loop, TLC
configurations that check them on small instances, and TLAPS proofs of the
theorems that hold for all values of the constants. `PROJECT.json` lists the
components, the runs, the source lines behind every definition, the hazards and
the theorems.

## 1. Inventory

| Component | State it keeps | Operations | Interacts with |
|---|---|---|---|
| XDP program (`kernel-space/src/main.rs`, `filters/`) | the pinned maps: reputation trie, port gate, config, per-CPU token buckets, one log bucket; the packet's metadata | `try_ai_ida_firewall`, `emit_and_return` | reads what user space writes; writes the ring buffer |
| Parsers, cursor (`parsers/`, `cursor.rs`) | offset into one packet | `parse_*`, `read`, `advance` | called by the XDP program |
| Token buckets (`rate_limiter.rs`, `main.rs:27-52`) | balance and time of the last refill | `check_rate_limit`, `check_log_rate_limit` | per CPU; the log bucket is shared by all CPUs |
| Aggregator (`aggregator/flow.go`) | sharded flow and port tables, window start, drop counters | `Ingest`, `Run`, `flush` | reader goroutine(s) against the flush goroutine; `out` channel |
| Inference (`inference/trees.go`) | none | `Classify` | between `out` and `alerts` |
| Feedback controller (`engine/feedback.go`) | registry of auto-blocks, safe networks | `handle`, `runJanitor`, `RefreshSafeNetworks` | alert channel, ticker, reputation trie |
| Daemon (`engine/daemon.go`) | context, signal channel, two channels, ring-buffer reader | `RunDaemon` | owns all goroutines above |
| Monitor (`engine/monitor.go`) | saved log level | `MonitorEvents` | same ring buffer and same log level as the daemon |
| Map manager, CLI (`map_manager.go`, `cmd/main.go`) | handles of the pinned maps | `BlockIP`, `UnblockIP`, `BlockPort`, `UnblockPort`, `SetDryRun`, `SetLogLevel` | other processes than the daemon |
| Loader (`ebpf-loader/src/main.rs`) | pins under `/sys/fs/bpf/ai_ida` | load, pin, attach, unpin | everything that opens a pin |
| Wire contracts (`common/`, `types/contracts.go`) | none | `UnmarshalBinary`, `NewLpmKey`, formatting | between the kernel and Go |

What is hard here, and what would make each part correct:

- **Feedback controller.** Two sources of truth, a registry in memory and a
  pinned kernel map, are kept in step across system calls that can fail, a
  restart, and another process that writes the same keys. Correct: a host whose
  alerts are suppressed is really blocked; no block is lifted early, late, or
  never; infrastructure is never blocked.
- **Aggregator.** `Ingest` takes two locks one after the other, and `flush` takes
  the port shards first and then the flow shards. Correct: no record lost or
  counted twice, counters equal to what the trace says, entropy never from a
  later window, memory bounded, nothing forgotten at shutdown.
- **Token buckets.** Plain loads and stores, in one case from all CPUs at once.
  Correct: the balance stays in range and the rate is bounded.
- **XDP program.** A verdict is made of several map reads with updates in
  between. Correct: standing rules are enforced, drops are justified, dry run is
  harmless, records are truthful.
- **Daemon.** Three goroutines, two bounded channels and three ways to stop.
  Correct: nobody blocks for ever, and no alert is lost while it runs.
- **Processes and shared kernel objects.** One log level, saved and restored by
  independent processes; one ring buffer that they all consume; pins that a loader
  replaces one by one while a control process opens them one by one. Correct: a
  running daemon is told of what the program does, the level is off when all have
  gone, and nobody is left with maps that no program uses.
- **Inference.** Three trees vote by summing, on features with thresholds of
  their own. Correct: a label is earned, and few samples or a half-seen session
  are no evidence.
- **Wire contracts.** Two languages agree on nothing but offsets and numbers.
  Correct: the source the daemon blocks is the source the program saw.

## 2. Modules

A component has a specification `X.tla`, an instance `MCX.tla` with one `.cfg`
for each run, and, where there are proofs, `X_proofs.tla`. `Blocklist` is an
abstract specification, `Trees` and `Wire` are modules of pure operators, and
`Telemetry` composes DataPlane with Wire. Operators whose
comment begins with "Mutant" are faulty variants of the definition below them.
No specification uses them; they show that the properties can fail.

### FeedbackController (`feedback.go`, `BlockIP`/`UnblockIP`, `blockCmd`)

`blocked` and `remaining` are `fc.blocked` with the time each record has left;
`reputationMap` is the set of keys in the trie. History variables: `manual`, the
keys an operator asked for; `orphans`, hosts whose record was lost while their
entry stood; `refused`, hosts whose last removal the kernel refused. The
goroutine's `pc` stops at the places where `fc.mu` is free and another process can
act: `select`, `put` (record written, system call due), `sweep` (list computed),
`forget` (entry removed, record not yet). `handle` is `HandleIgnored`, or
`HandleRecord` followed by `HandleBlocked` or `HandleFailed`; `runJanitor` is
`JanitorSweep` followed for each host by `JanitorUnblock` and `JanitorForget`, or
by `JanitorFailed`. `Stop`, `Crash` and `Start` model a restart: the registry is
lost and the map is not. `OperatorBlock` is the CLI in another process. `Tick`
advances time and the janitor's ticker, whose channel holds one tick; time passes
at any `pc`, so that ticks are dropped while the loop is busy. The constant
`Failing` says which system calls may fail (insert, replace, delete); `MaxEntries`
is the size of the trie.

### Blocklist

What the loop promises those it blocks: an auto-block is a lease that is
requested and then granted or refused, granted and lifted in one step together
with its kernel entry, never given to an exempt host and never lifted before its
term is over; only a restart or a refused renewal parts entry and lease.
FeedbackController implements it (`ImplementsBlocklist`). The refinement mapping
hides the two windows around the system calls: while `pc` is `put` or `forget`
the host at hand has no lease yet, or none any more (`Settled`), and a host whose
record is written is `pending` until its system call returns.

### Aggregator (`aggregator/flow.go`)

`flows` and `ports` are the shards' tables. A reader's `Ingest` is `IngestFlow`
(first lock) followed by `IngestPort` (second lock), or `IngestRejected`. `Run`
is `BeginFlush`, then `FlushPorts` for each port shard, then for each flow shard
`FlushFlows` and one `EmitSend` or `EmitDrop` per flow, and `Close` after the
final flush. History variables (`trace`, `flowWindow`, `portWindow`) remember
every accepted record and which flush took its flow half and its port half.
Hash functions are constants; the float features are left out, and a feature
carries the counters and the port distribution they are computed from.

### TokenBucket (`rate_limiter.rs`, `main.rs:27-52`)

One entry and a set of CPUs. A check loads both words in one step; the stores
of `tokens` and `last_update_ns` are separate steps and come in either order,
since neither the language nor the machine orders them. Initially the entry is
one or the other (`map`): of `RATE_LIMIT_MAP`, absent at first, used by one CPU
and evicted by the LRU map at times, or the one entry of `LOG_RATE_LIMIT_MAP`,
zeroed and used by all CPUs (`users`). The history variables count what was
admitted, remember the latest arrival among it, and whether a packet was ever let
through on an entry that another CPU had loaded and not yet stored (`raced`).

### DataPlane (`main.rs:54-235`, `filters/`, `maps.rs`, `rules.rs`)

One packet at a time on one CPU. Parsing touches only the packet and is one
step with its arrival. Every map consulted afterwards is a step of its own:
blacklist, port, rate, dry-run mode, threshold, record. In between, user space
may take any of the `Control` actions. History variables remember which rules
stood all the while and which were seen at some time. The refill is "anything
up to the burst"; its arithmetic is in TokenBucket. `SetDryRun` has no caller in
the repository and is modelled as the API that `MapManager` offers.

### Daemon (`daemon.go`)

The goroutines, each with its place: the read loop (`main`), the signal
goroutine (`watcher`), the aggregator (`run`, `batch`), `inference` and
`feedback`. Flows are followed as identities from the ring buffer to `handle`.
Aggregator and FeedbackController hold the detail of the two ends.

### Trees and Inference (`inference/trees.go`, `daemon.go:94-114`)

`Trees` has `ToFeatureVector`, the three trees and `Classify`, from the
aggregator's counters on. Scores are integers in ten-thousandths, rounded down;
ratios are pairs, and entropy is in half bits, so that a comparison with `2^H` is
exact. `P > 0.85` is a total above `ln(0.85/0.15)`, because the sigmoid is
monotone. Rounding can move a total by at most 0.0003 and matters only for flows
that close to the threshold. `Inference` is the goroutine that takes one flow
after the other; MCDaemon uses the same `Classify` to decide which of its flows
are malicious. `SignaturesOf` says in terms of raw counters which of the three
signatures the repository describes a flow bears in full, and the history variable
`missed` collects those that went without an alert.

### Wire and Telemetry (`types/contracts.go`, `common/src/`)

`Output` lays out the 24 bytes of a record as the program writes them,
`UnmarshalBinary` reads them as Go does; `ReasonCode`, `ActionCode` and
`ReasonSeverity` are the numbers and ranges; `HostKey` and `NewLpmKey` are the
trie's keys, and `Matches` is its lookup. `Telemetry` gives DataPlane's hosts
their octets and its keys their prefixes (an `ASSUME` says that `Covers` is
exactly what the prefixes match), and follows each record to the address that
user space decodes and the rule it would make of it.

### Sessions (`ebpf-loader/src/main.rs`, `map_manager.go:22-105`, `monitor.go`, `daemon.go:33-68`)

A loader brings a generation of maps: `Load`, then for each map `RemoveFile` and
`Pin`, then `Attach`. Both calls may fail and the loader ignores it
(`RemoveFileFails`, `PinFails`); a pin that could not be removed also makes the
pin call after it fail, and the history variable `stuck` remembers it. `CtrlC`
removes the pins, or only some of them, since the error of `remove_dir_all` is
ignored too, and `LoaderEnds` is its end by error, by Ctrl-C or by death, which
leaves in place whatever is pinned. A daemon or monitor starts, opens the pinned
maps one after the other, reads the level, sets it, opens the reader, catches
signals, reads records and restores. Each of these steps can fail as it does in
the code, and `Kill` is death without the deferred calls. A map that is open
outlives its pin and its program, so `level` and `ring` exist per generation.
`blind` is a history variable: the daemons that missed a packet which the program
behind all of their maps could have reported.

## 3. Runs

| Run | Result | What it asks |
|---|---|---|
| `fb_loop` | pass | every system call may fail, the trie is full at times, discovery incomplete, ticks dropped, the daemon restarted: registry and kernel in step, which entries may be left without a record, leases atomic, infrastructure not blocked, no block lifted early or later than "at most a 30s delay" (`feedback.go:26`) allows, none permanent although removals fail (TC-08) |
| `agg_windows` | pass | the reader against flushes with every limit reached: exact counters and trackers, conservation, entropy never from a later window, final flush, caps; `Run` ends although nobody receives |
| `tb_buckets` | pass | both buckets, two CPUs racing on the shared one, evictions on the other: range of the balance, no starvation, and the rate bound of a bucket nobody raced for |
| `dp_verdicts` | pass | every way through the headers; rules, mode and level changing under the packet; the record through its bytes to user space and back as a rule |
| `dm_liveness` | pass | no alert lost or stuck before cancellation; shutdown completes |
| `ses_alone` | pass | one daemon or monitor at a time, with a loader that comes, goes and dies, and whose removals and pins may fail: the level, the ring buffer and the pins |
| `inf_grid` | pass | flows on both sides of every threshold: which label an alert can carry; few samples are no evidence |
| `fb_orphan_restart` | violation | after a restart old blocks have no record and are permanent |
| `tb_race` | violation | racing CPUs exceed the "hard cap" of the log limiter |
| `dp_fragment` | violation | fragments from a blacklisted source pass |
| `inf_outvoted` | violation | each of the three signatures is outvoted where it stands alone |
| `ses_fight` | violation | daemon and monitor do disturb each other |

Each component has one instance on which everything said about it is checked
together. What is outside of it is left to the theorems of section 4: the
controller for any hosts, periods and number of restarts, the buckets for any
number of racing CPUs, any burst and period, the data plane for any set of hosts,
keys and ports, the wire format for every address, port and reason, the aggregator
for any number of readers, shards and records, the daemon's pipeline for any flows
and channel sizes, processes and loaders for any number of maps, generations and
kills, the classifier for all counters.

Deadlock checking is off in the runs of `MCAggregator` and `MCTokenBucket`, whose
bounds on packets and time end the run, and in `dm_liveness`, where the daemon
returns in the end. In the other runs it is on.

### Bounds, and why they are enough

- *FeedbackController*: three hosts (an ordinary one, the gateway, loopback) and
  one network with a trie of two entries, so it can be full; a TTL of 3 and a
  sweep period of 2 ticks, so that records expire between sweeps and during one;
  up to two restarts. `fb_orphan_restart` needs two ordinary hosts and one
  restart. Time left is counted down to `Overdue`, one past the latest time the delay
  property allows.
- *Aggregator*: one reader, because the daemon has one read loop; two shards,
  caps and channel of one, so that tables, trackers and output are all full at
  times; three records out of four kinds, one of them to the port whose number is
  the overflow bucket's; one ordinary and one final flush. A record can fall
  between the two halves of a flush. More readers are left to the proofs.
- *TokenBucket*: two time units per token and a burst of two give remainders, a
  full bucket and an empty one. Nine units of time pay for more tokens than a
  burst. Two CPUs are enough for a race, which `tb_race` reaches in seven.
- *DataPlane*: one packet for each way through the program; keys that overlap (a
  host inside a network); a port on each side of 32768; a burst of one, so that
  the bucket is soon empty; a level that is off and one that is a threshold.
- *Daemon*: four flows, three of them malicious, with channels of two and one,
  so both fill up.
- *Sessions*: one daemon, one monitor, one kill, two generations of two maps
  (the level and the ring buffer), so that a process can open its maps across a
  loader restart and find one of them stale; a ring of one record; a severity on
  each side of a monitor's level. The constants of `ses_fight` differ in `Overlap`
  only. The other three maps are opened and pinned the same way and are left to
  the proofs.
- *Inference*: packet counts, ratios, jitters and entropies on both sides of
  each threshold, in all combinations; 4 and 60 packets are the scan flow and the
  burst the repository speaks of.

### Fairness, and why the code justifies it

Weak fairness on a goroutine's steps stands for the Go scheduler, which runs
whatever can run. Strong fairness on `JanitorSweep` and on `BeginFlush(TRUE)`
stands for Go's `select`, which picks uniformly among the ready cases: a case
that is ready again and again is picked in the end; within a flush, weak fairness
on `RunStep`, one step of `Run` whichever it is, is enough. Strong fairness on a host's
`JanitorUnblock` says that a removal retried for ever succeeds in the end;
without it a kernel that refuses every delete keeps the block. In Daemon, each
`select` needs only weak fairness, because the cases it depends on stay ready
once they are. Nothing is assumed of records, alerts, signals, operators or
consumers.

## 4. What is proved

All proofs are for arbitrary constants under the named `ASSUME`s of the modules
(positive periods and capacities, sets of the right kind). Every invariant and
every action property that a passing run checks is also a theorem.

**FeedbackController_proofs.** The inductive invariant is `IInv`: `TypeOK`, with
`Calls` (what holds around the system calls: the host being pushed has a record
and is not exempt; the one being forgotten is off the sweep list), `Sweeps` (the
list holds only expired records) and `TrackedIsBlocked`. `TrackedIsBlocked` alone
is not inductive: the step that ends a system call needs to know whose record it
leaves behind. From it: `TypeCorrect`, `SuppressedIsBlocked`, `NoEarlyUnblock` and
`InfrastructureProtected`. `NoLostBlock` adds `Accounted`: around the system
calls, too, an entry has a record, an operator or a known loss (`orphans`), and
the losses are those of a restart and of a refused overwrite only; that these two
exist is what `fb_orphan_restart` and section 5 show. `DelayBound` adds `OnTime`,
which ties the time a record has left to the time until the next sweep or to the
tick that waits; a dropped tick does no harm because another one is waiting then.
Neither needs an assumption on failures, restarts or the loop's pace.
`LeaseService` is the refinement: under `IInv` each step of the controller is one
step of Blocklist or leaves its variables alone (`StepLeases`). It needs no
assumption on failures or restarts.

**Aggregator_proofs.** Four invariants, each on top of the one before, for any
records, shards, caps and number of readers.

- `AInv` says that a port taken by a snapshot belongs to a flow taken no later,
  or to a shard the present flush has yet to reach (`Ahead`). This is the reason
  why `Ingest` and `flush` take their locks in opposite orders. From it:
  `EntropyOfThisWindow` and `FinalFlushComplete`.
- `CInv` adds the types and `Exact`: an accumulator, wherever it is, tallies its
  records (`Tallies`). `CountersExact` is not inductive as it stands. When
  `flush` takes a shard, the records of its flows change from window 0 to this
  window, and the tally is right only if the window held none of them before:
  that is `TakenBehind`. `Batched` and `Queued` say that what is under way or in
  the channel is of a window that has begun and is not empty. From it:
  `TypeCorrect`, `FeaturesExact` and `CapsHold`. The lemmas on `Tallies` say what
  one more record, or a change of the windows elsewhere, does to each counter;
  the inter-arrival samples depend on the record before the last, and time stamps
  may go backwards.
- `Conserved` is `Conservation` with the sums as numbers: `RecordsConserved`. Each
  action moves an amount from one sum to another.
- `PInv` is about the trackers: `TrackersHold` needs that no two readers hold the
  same record (`InHand`) and that the shards taken lie behind the first loop of
  `flush` (`PortsTaken`).

Both of the last need sums over finite sets, which the library defines by a fold
and states nothing about. The section "Sums over finite sets" proves that a sum exists, is
unique, and what adding, removing, splitting and renaming do to it. Where a proof
needs induction on the size of a set, it takes a least counterexample (`WFMin` on
the natural numbers) and derives a smaller one, because the induction theorems
of the library take an operator as a parameter.

**TokenBucket_proofs.** `BalanceSafe` holds for any number of racing CPUs: each
store writes a value computed from some balance in range. `RateHolds`, for any
number of CPUs too, rests on the ledger "balance plus admitted is at most a burst
per life plus what the time up to the last refill has earned" (`Paid`). The ledger
is right while stores are due only because, without a race, one CPU at a time has
any (`Private`, `Account`), and an entry of the LRU map has one user. The lemmas
are about `\div` (`DivSuperadditive`: rounding down twice earns no more than once).
`NoStarvation`, again for any number of CPUs, adds `Stamped`: the entry's clock,
stored or about to be, is the arrival of an admitted packet, so an entry without
a token was stamped less than one period ago. `TypeCorrect` is part of the first
invariant.

**DataPlane_proofs.** `PInv` brackets the present policy between the rules that
stood and the rules that were seen (`Bracketed`), and says for each `pc` what
the checks passed so far exclude (`NotBlacklisted`, `NotGated`) and what a drop
reason implies (`Justified`). From it: `RulesEnforced`, `NoUnjustifiedDrop`,
`DryRunSafe`, `RecordsTruthful` and `RecordsWithinLevel`. `TInv` is the invariant
of the types; it includes `EventOfPacket`, which ties the record to the packet at
hand, and yields `TypeCorrect`.

**Telemetry_proofs.** Lemmas show field by field that decoding inverts the layout:
flags through the sum of their bits, addresses through their number in network
order, ports through two bytes, the time stamp through eight. `ReceivedFields`
puts them together for the record of the packet at hand, whose types come from
`TInv`. From it: `RecordsArrive`, `BlocksHitSource` (a /32 key matches the address
it was made of and no other, since an octet is determined by its eight bits) and
`MonitorPrints` (the two definitions of severity agree on every reason). The
assumption is that hosts have four octets each and differ in them; the source
port and the time stamp are one value each, as in the model.

**Daemon_proofs.** `DInv` adds to the types who may close which channel
(`OwnersClose`): the aggregator has returned once `out` is closed, inference once
`alerts` is, and inference holds an alert only while it waits to send one. From
it: `TypeCorrect`, `AlertsKept`, and `NoPanicOnChannels`, an action property about
what Go would punish with a panic: no step sends on, or closes again, a channel
that is closed.

**Sessions_proofs.** `TypeCorrect` holds however processes overlap. The others
assume `~Overlap`, which is what the operator has to see to: `ses_fight` shows
what happens otherwise. `LevelHeld` and `LevelOwned` say whose doing the level of
each generation is: without kills it is off unless a process that raised it is
there to restore it, and a running daemon's level is debug even if a killed
predecessor left something else. `LInv` follows the pins while a loader replaces
them one by one (`PinsMine`, `Newest`), and says that a process which opened its
maps with the loader up holds that loader's generation, but for the names in
`stuck` (`SinceUp`, `SinceHeld`). A pin that could not be removed leads to an older
map and stays until the next loader; the invariant shows that it is confined to
its name.
From them: `LevelComesBack`, `NothingMissedAlone` and `MapsMatchProgram`.

**Inference_proofs.** The invariant ties the alert to `Classify` of the flow at
hand. The theorems are then bounds on sums: each lemma bounds one tree by what
the flow looks like (the flood tree gives at most 7, and -2 or less without the
shape of a flood; the scan tree at most 4.5, and -2 or less without the shape of
a scan; the volumetric tree at most 4), and no combination outside the shapes
named reaches 1.7346. `VolumeNeverAlone` and `SmallFlowsSpared` do not state what
the code should do: they say for all counters how far the three findings of
`inf_outvoted` reach.

**Only model-checked.** Liveness: `AutoBlockExpires`, `RunEnds`,
`ShutdownCompletes` and `AlertArrives`, which rest on fairness and are out of the
proof system's reach.

## 5. Where code and comments disagree

Five runs end in a violation; each has entries under `findings` with the lines
it refutes. Auto-blocks made before a restart are permanent; the log limiter is
not a hard cap; fragments from a blacklisted source pass; a `monitor` session
takes telemetry away from a running `daemon`, by lowering the level when it starts
or leaves and by reading records that then never reach the daemon.

`inf_outvoted` has three findings, one for each signature, because Classify sums
the trees' votes and no single tree is enough:

- 2000 regular UDP packets in a window, from the higher address to one port, draw
  no alert, and `trees.go:154-157` calls the volumetric tree "the catch-all" for
  what fits no other shape. By `VolumeNeverAlone` it never decides alone.
- 60 SYNs to one port draw none, and `tests/traffic_matrix.py:196-200` (TC-08)
  expects such a burst "to cross MalwareThreshold and trigger a genuine
  auto-block". (The test's burst uses 60 source ports and so is 60 flows of one
  packet to the aggregator, which are further from the threshold still.)
- A scan's flow of four packets draws none, whatever the source's entropy, and
  `README.md:120` of the repository says that a port scan's source is "blocked
  globally", `trees.go:135-137` that the scan tree fires on "a handful of packets
  to each of many ports". By `SmallFlowsSpared` a flow below 200 packets draws an
  alert only if it has the shape of a flood and its source has touched many ports.

Met while modelling and visible in the actions, without a run of their own:

- The controller's /32 and an operator's /32 are one trie key, so an expiring
  auto-block lifts the operator's block too (`feedback.go:341`).
- A failed re-block of a host whose record has expired but whose entry is still
  in the trie deletes the record (`feedback.go:304`), which `feedback.go:335-338`
  is careful to avoid in the janitor. `BlocksAccounted` counts it among the two
  ways to lose a record.
- `DroppedNewFlows` counts rejected records (`flow.go:309`), not the 5-tuples
  that `flow.go:285` speaks of.
- Forward means from the numerically lower address (`flow.go:142`), so one-way
  traffic from the higher one is all reverse, contrary to `flow.go:80-82`.
- A flow's entropy can miss packets of that flow (`flow.go:231`): the ports are
  taken before the flows. It never includes later ones (`EntropyNotFromFuture`).
- The gate value 0 passes (`port_gate.rs:54`), and `MOD-02-Static-ACL.md:12`
  says that 0 means drop.
- On a signal the pipeline is not drained as `daemon.go:72` announces: inference
  and feedback may leave with alerts in the channels.
- The loader ignores the errors of `remove_file` and `pin` (`main.rs:50-71`) and
  prints "Pinned BPF Maps" (`main.rs:96`) regardless. After a failed removal every
  control process is given the older map under that name: a block or a level
  written there reaches no program. `MapsOfProgram` excepts these names.
- A loader that finds pins in place replaces them before it attaches. If its
  attach then fails because another loader's program is on the interface, the
  pins lead to maps that no program uses (`ebpf-loader/src/main.rs:48-91`).
- `map_manager.go:127` mentions a command `ai-ida-control unblock` that does not
  exist, so an operator's block has no command that removes it.

## 6. Not modelled, and the plan

Not modelled: byte offsets, VLAN tags and option lengths in the parsers (whether
a header parses is an input of DataPlane; the kernel's verifier bounds every
access); the entropy and the variance themselves (their outcome is an input of
Trees); `status`, names and colours for printing; build scripts. The IPv6 parser,
`GetDryRun` and `SetPortStatus` have no caller. Two loaders at once are possible
in Sessions (`Overlap`) but promised nothing by the code.

Order of the plan:

1. (done) FeedbackController: the loop's effect on the kernel.
2. (done) Aggregator, TokenBucket, DataPlane with their proofs; Daemon.
3. (done) Blocklist, refined by FeedbackController, with its proof.
4. (done) Sessions: loader, pins, log level and ring buffer.
5. (done) Trees, Inference with proofs; Wire, Telemetry.
6. (done) Proofs of all invariants and action properties of the runs.
7. Theorems beyond the runs: an abstract specification of the aggregator (windows
   of records, closed one after the other) that Aggregator implements; that the
   final flush loses nothing to readers that have returned; the safety half of
   shutdown (who may still be running when `RunDaemon` has returned).
