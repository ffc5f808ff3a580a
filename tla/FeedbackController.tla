------------------------- MODULE FeedbackController -------------------------
(***************************************************************************)
(* The closed loop's last stage (user-space/pkg/engine/feedback.go): the   *)
(* FeedbackController goroutine of the daemon turns alerts into /32        *)
(* entries of the kernel's REPUTATION_MAP, and its TTL Janitor takes       *)
(* expired ones out again.  The map is shared with the operator's          *)
(* `ai-ida-control block` and outlives the daemon; the registry            *)
(* fc.blocked does not.                                                    *)
(*                                                                         *)
(* The controller is one goroutine, so handle and runJanitor never         *)
(* overlap; everybody else may act between two of its system calls.  A     *)
(* record's expiresAt is kept as the time that remains until it: the code  *)
(* only ever compares it with now.                                         *)
(***************************************************************************)
EXTENDS Integers, FiniteSets

CONSTANTS
  IPs,              \* IPv4 hosts; host ip stands for its /32 key too
  CIDRs,            \* the shorter prefixes an operator may block
  Malformed,        \* any text that parses as neither
  StaticSafe,       \* hosts of staticSafeNetworks and wellKnownPublicDNS
  Discoverable,     \* hosts netlink and /etc/resolv.conf may contribute
  MaxEntries,       \* max_entries of REPUTATION_MAP
  BlockTTL,         \* in clock units
  janitorInterval,  \* in clock units
  Failing,          \* which map operations the kernel may refuse
  MaxStops          \* bound: how often the daemon may stop or crash

ASSUME ConstantsAssumption ==
  /\ IPs \cap CIDRs = {}
  /\ Malformed \notin IPs \cup CIDRs
  /\ StaticSafe \subseteq IPs
  /\ Discoverable \subseteq IPs
  /\ MaxEntries \in Nat \ {0}
  /\ BlockTTL \in Nat \ {0}
  /\ janitorInterval \in Nat \ {0}
  /\ Failing \subseteq {"insert", "replace", "delete"}
  /\ MaxStops \in Nat

VARIABLES
  reputationMap,  \* keys of REPUTATION_MAP (every value written is 1)
  manual,         \* history: the keys of it an operator asked for
  safeNetworks,   \* hosts covered by fc.safeNetworks
  blocked,        \* the hosts with a record in fc.blocked
  remaining,      \* remaining[ip] = expiresAt - now of that record
  pc,             \* where the goroutine is
  cur,            \* the host of the system call in progress
  expired,        \* what is left of runJanitor's list
  sweepIn,        \* time until the ticker's next tick
  tickPending,    \* the ticker's channel holds a tick
  stops,          \* how often the daemon has stopped
  orphans,        \* history: hosts whose record was lost with their entry in place
  refused         \* history: hosts with a record whose last removal was refused

kernel == <<reputationMap, manual>>
registry == <<blocked, remaining>>
ticker == <<sweepIn, tickPending>>
history == <<orphans, refused>>
vars == <<reputationMap, manual, safeNetworks, blocked, remaining, pc, cur,
          expired, sweepIn, tickPending, stops, history>>

Keys == IPs \cup CIDRs

\* Once a record is overdue by more than a sweep period its age no longer
\* matters to any comparison or property.
Overdue == 0 - (janitorInterval + 1)

TypeOK ==
  /\ reputationMap \subseteq Keys
  /\ manual \subseteq Keys
  /\ safeNetworks \subseteq IPs
  /\ blocked \subseteq IPs
  /\ remaining \in [IPs -> Overdue .. BlockTTL]
  /\ pc \in {"stopped", "select", "put", "sweep", "forget"}
  /\ cur \in IPs \cup {Malformed}
  /\ expired \subseteq IPs
  /\ sweepIn \in 1 .. janitorInterval
  /\ tickPending \in BOOLEAN
  /\ stops \in 0 .. MaxStops
  /\ orphans \subseteq IPs /\ refused \subseteq IPs

-----------------------------------------------------------------------------
(* REPUTATION_MAP as the bpf system call presents it.                      *)

\* The trie takes key k: it overwrites an entry, or has room for a new one.
CanPut(k) == k \in reputationMap \/ Cardinality(reputationMap) < MaxEntries

\* The trie refuses key k: it is full, or the kernel fails the call.
CanRefuse(k) ==
  IF k \in reputationMap
  THEN "replace" \in Failing
  ELSE "insert" \in Failing \/ Cardinality(reputationMap) >= MaxEntries

\* MapManager.BlockIP(k) returns nil.
BlockIP(k) ==
  /\ CanPut(k)
  /\ reputationMap' = reputationMap \cup {k}

\* MapManager.UnblockIP(k) returns nil: a missing key counts as removed.
UnblockIP(k) == reputationMap' = reputationMap \ {k}

-----------------------------------------------------------------------------
Init ==
  /\ reputationMap = {}
  /\ manual = {}
  /\ safeNetworks = {}
  /\ blocked = {}
  /\ remaining = [ip \in IPs |-> 0]
  /\ pc = "stopped"
  /\ cur = Malformed
  /\ expired = {}
  /\ sweepIn = janitorInterval
  /\ tickPending = FALSE
  /\ stops = 0
  /\ orphans = {} /\ refused = {}

\* NewFeedbackController and the start of Run.  Discovery is best effort:
\* each of its sources may contribute nothing.
Start ==
  /\ pc = "stopped"
  /\ \E found \in SUBSET Discoverable : safeNetworks' = StaticSafe \cup found
  /\ pc' = "select"
  /\ sweepIn' = janitorInterval
  /\ tickPending' = FALSE
  /\ UNCHANGED <<kernel, registry, cur, expired, stops, history>>

\* handle(alert) returning early: no address in it, an address of a safe
\* network, or a host whose block has not expired.
HandleIgnored(a) ==
  /\ pc = "select"
  /\ \/ a = Malformed
     \/ a \in safeNetworks
     \/ a \in blocked /\ remaining[a] > 0
  /\ UNCHANGED vars

\* Mutant: no safe-network check.
HandleRecordUnchecked(ip) ==
  /\ pc = "select"
  /\ ~(ip \in blocked /\ remaining[ip] > 0)
  /\ blocked' = blocked \cup {ip}
  /\ remaining' = [remaining EXCEPT ![ip] = BlockTTL]
  /\ pc' = "put"
  /\ cur' = ip
  /\ orphans' = orphans \ {ip} /\ refused' = refused \ {ip}
  /\ UNCHANGED <<kernel, safeNetworks, expired, ticker, stops>>

\* Mutant: no dedup; each alert adds a TTL to what remains.
HandleRecordStacked(ip) ==
  /\ pc = "select"
  /\ ip \notin safeNetworks
  /\ blocked' = blocked \cup {ip}
  /\ remaining' = [remaining EXCEPT ![ip] = @ + BlockTTL]
  /\ pc' = "put"
  /\ cur' = ip
  /\ orphans' = orphans \ {ip} /\ refused' = refused \ {ip}
  /\ UNCHANGED <<kernel, safeNetworks, expired, ticker, stops>>

\* handle(alert) up to the system call: the record is written first, with a
\* fresh expiry even if an expired one is still there.
HandleRecord(ip) ==
  /\ pc = "select"
  /\ ip \notin safeNetworks
  /\ ~(ip \in blocked /\ remaining[ip] > 0)
  /\ blocked' = blocked \cup {ip}
  /\ remaining' = [remaining EXCEPT ![ip] = BlockTTL]
  /\ pc' = "put"
  /\ cur' = ip
  /\ orphans' = orphans \ {ip} /\ refused' = refused \ {ip}
  /\ UNCHANGED <<kernel, safeNetworks, expired, ticker, stops>>

\* BlockIP succeeds: the host is dropped from now on.
HandleBlocked ==
  /\ pc = "put"
  /\ BlockIP(cur)
  /\ pc' = "select"
  /\ cur' = Malformed
  /\ UNCHANGED <<manual, safeNetworks, registry, expired, ticker, stops, history>>

\* Mutant: the record of a block that failed stays in the dedup cache.
HandleFailedCached ==
  /\ pc = "put"
  /\ CanRefuse(cur)
  /\ pc' = "select"
  /\ cur' = Malformed
  /\ UNCHANGED <<kernel, safeNetworks, registry, expired, ticker, stops, history>>

\* BlockIP fails: the record is deleted so that the next alert retries.
HandleFailed ==
  /\ pc = "put"
  /\ CanRefuse(cur)
  /\ blocked' = blocked \ {cur}
  /\ remaining' = [remaining EXCEPT ![cur] = 0]
  /\ pc' = "select"
  /\ cur' = Malformed
  /\ orphans' = orphans \cup ({cur} \cap reputationMap)
  /\ UNCHANGED <<kernel, safeNetworks, expired, ticker, stops, refused>>

\* Mutant: Before for After.
JanitorSweepInverted ==
  /\ pc = "select"
  /\ tickPending
  /\ tickPending' = FALSE
  /\ expired' = {ip \in blocked : remaining[ip] > 0}
  /\ pc' = IF expired' = {} THEN "select" ELSE "sweep"
  /\ UNCHANGED <<kernel, safeNetworks, registry, cur, sweepIn, stops, history>>

\* Mutant: one record a sweep.
JanitorSweepOne ==
  /\ pc = "select"
  /\ tickPending
  /\ tickPending' = FALSE
  /\ LET due == {ip \in blocked : remaining[ip] < 0}
     IN  expired' = IF due = {} THEN {} ELSE {CHOOSE ip \in due : TRUE}
  /\ pc' = IF expired' = {} THEN "select" ELSE "sweep"
  /\ UNCHANGED <<kernel, safeNetworks, registry, cur, sweepIn, stops, history>>

\* runJanitor lists the expired records.
JanitorSweep ==
  /\ pc = "select"
  /\ tickPending
  /\ tickPending' = FALSE
  /\ expired' = {ip \in blocked : remaining[ip] < 0}
  /\ pc' = IF expired' = {} THEN "select" ELSE "sweep"
  /\ UNCHANGED <<kernel, safeNetworks, registry, cur, sweepIn, stops, history>>

\* runJanitor's loop: UnblockIP on one of them succeeds.
JanitorUnblock(ip) ==
  /\ pc = "sweep"
  /\ ip \in expired
  /\ UnblockIP(ip)
  /\ manual' = manual \ {ip}
  /\ expired' = expired \ {ip}
  /\ cur' = ip
  /\ pc' = "forget"
  /\ UNCHANGED <<safeNetworks, registry, ticker, stops, history>>

\* Only then is the record deleted.
JanitorForget ==
  /\ pc = "forget"
  /\ blocked' = blocked \ {cur}
  /\ remaining' = [remaining EXCEPT ![cur] = 0]
  /\ pc' = IF expired = {} THEN "select" ELSE "sweep"
  /\ cur' = Malformed
  /\ refused' = refused \ {cur}
  /\ UNCHANGED <<kernel, safeNetworks, expired, ticker, stops, orphans>>

\* Mutant: the record is deleted whatever UnblockIP returned.
JanitorFailedForgets(ip) ==
  /\ pc = "sweep"
  /\ ip \in expired
  /\ "delete" \in Failing
  /\ ip \in reputationMap
  /\ expired' = expired \ {ip}
  /\ blocked' = blocked \ {ip}
  /\ remaining' = [remaining EXCEPT ![ip] = 0]
  /\ pc' = IF expired' = {} THEN "select" ELSE "sweep"
  /\ UNCHANGED <<kernel, safeNetworks, cur, ticker, stops, history>>

\* UnblockIP fails: the record stays for the next sweep.
JanitorFailed(ip) ==
  /\ pc = "sweep"
  /\ ip \in expired
  /\ "delete" \in Failing
  /\ ip \in reputationMap
  /\ expired' = expired \ {ip}
  /\ pc' = IF expired' = {} THEN "select" ELSE "sweep"
  /\ refused' = refused \cup {ip}
  /\ UNCHANGED <<kernel, safeNetworks, registry, cur, ticker, stops, orphans>>

\* The registry lives in the daemon's memory.
LoseRegistry ==
  /\ blocked' = {}
  /\ remaining' = [ip \in IPs |-> 0]
  /\ cur' = Malformed
  /\ expired' = {}
  /\ pc' = "stopped"
  /\ stops' = stops + 1
  /\ orphans' = orphans \cup (blocked \cap reputationMap)
  /\ refused' = {}
  /\ UNCHANGED <<kernel, safeNetworks, ticker>>

\* Run returns: the context is cancelled, or the alert channel is closed.
Stop == pc = "select" /\ stops < MaxStops /\ LoseRegistry

\* The daemon dies in the middle of anything else.
Crash == pc \in {"put", "sweep", "forget"} /\ stops < MaxStops /\ LoseRegistry

\* `ai-ida-control block k` from another process.
OperatorBlock(k) ==
  /\ BlockIP(k)
  /\ manual' = manual \cup {k}
  /\ UNCHANGED <<safeNetworks, registry, pc, cur, expired, ticker, stops, history>>

\* The same command with an argument NewLpmKey rejects, or refused by the
\* kernel: an error message, and nothing else.
OperatorFails(k) ==
  /\ k = Malformed \/ CanRefuse(k)
  /\ UNCHANGED vars

\* Time passes.  A tick that finds the ticker's channel full is dropped.
Tick ==
  /\ pc # "stopped"
  /\ remaining' = [ip \in IPs |->
                     IF ip \in blocked /\ remaining[ip] > Overdue
                     THEN remaining[ip] - 1 ELSE remaining[ip]]
  /\ sweepIn' = IF sweepIn = 1 THEN janitorInterval ELSE sweepIn - 1
  /\ tickPending' = (tickPending \/ sweepIn = 1)
  /\ UNCHANGED <<kernel, safeNetworks, blocked, pc, cur, expired, stops, history>>

Next ==
  \/ Start
  \/ \E a \in IPs \cup {Malformed} : HandleIgnored(a)
  \/ \E ip \in IPs : HandleRecord(ip)
  \/ HandleBlocked
  \/ HandleFailed
  \/ JanitorSweep
  \/ \E ip \in IPs : JanitorUnblock(ip)
  \/ JanitorForget
  \/ \E ip \in IPs : JanitorFailed(ip)
  \/ Stop
  \/ Crash
  \/ \E k \in Keys : OperatorBlock(k)
  \/ \E k \in Keys \cup {Malformed} : OperatorFails(k)
  \/ Tick

Spec == Init /\ [][Next]_vars

\* The goroutine keeps running, time passes, Go's select serves a tick that
\* keeps being ready, and a removal that is retried for ever succeeds.
Fairness ==
  /\ WF_vars(Start)
  /\ WF_vars(Tick)
  /\ WF_vars(HandleBlocked \/ HandleFailed)
  /\ WF_vars(JanitorForget)
  /\ WF_vars(\E ip \in IPs : JanitorUnblock(ip) \/ JanitorFailed(ip))
  /\ SF_vars(JanitorSweep)
  /\ \A ip \in IPs : SF_vars(JanitorUnblock(ip))

FairSpec == Spec /\ Fairness

-----------------------------------------------------------------------------
(* Safety.                                                                 *)

\* While a host has a record, handle suppresses its alerts; so the kernel
\* really drops it, except inside the two windows in which the controller is
\* about to make the system call or has just made it.
TrackedIsBlocked ==
  \A ip \in blocked :
    \/ ip \in reputationMap
    \/ pc \in {"put", "forget"} /\ cur = ip

\* The controller never loses "all record of an IP that is still blocked in
\* REPUTATION_MAP" (feedback.go, runJanitor): a host entry that no operator
\* asked for has a record, so some later sweep can take it out.
NoUntrackedBlock == reputationMap \cap IPs \subseteq blocked \cup manual

\* Two things lose such a record and nothing else does: a restart, and an
\* overwrite that the kernel refuses (handle).  Full maps, failing inserts
\* and removals, sweeps and renewals keep it, also for hosts that were lost
\* once and drew a new alert.
BlocksAccounted == reputationMap \cap IPs \subseteq blocked \cup manual \cup orphans

\* A host leaves REPUTATION_MAP only when its record has expired.
UnblockOnlyExpired ==
  [][\A ip \in IPs : ip \in reputationMap /\ ip \notin reputationMap'
       => ip \in blocked /\ remaining[ip] < 0]_vars

\* The controller never pushes a host of its safe-network registry (TC-07):
\* such a host enters the map by an operator's command only.
ExemptNeverPushed ==
  [][\A ip \in safeNetworks : ip \notin reputationMap /\ ip \in reputationMap'
       => ip \in manual']_vars

\* "At most a 30s delay past the nominal 300s TTL before an IP is actually
\* unblocked" (feedback.go, janitorInterval), as long as the loop is free and
\* the kernel obeys: a record overdue by more than an interval is on the
\* janitor's list, or a tick waits for the loop, or its removal was refused.
\* Ticks that find the channel full are dropped, and it does not matter.
UnblockDelayBounded ==
  \A ip \in blocked \ refused :
    \/ remaining[ip] >= 0 - janitorInterval
    \/ tickPending
    \/ ip \in expired
    \/ pc = "forget" /\ cur = ip

(* Refinement.                                                             *)

\* The records that are not in the middle of a system call.
Settled == IF pc \in {"put", "forget"} THEN blocked \ {cur} ELSE blocked

Leases ==
  INSTANCE Blocklist WITH
    Hosts <- IPs,
    entries <- reputationMap,
    exempt <- safeNetworks,
    pending <- IF pc = "put" THEN {cur} ELSE {},
    current <- {ip \in Settled : remaining[ip] > 0},
    over <- {ip \in Settled : remaining[ip] <= 0}

\* To the hosts it blocks the controller is a service of atomic leases:
\* neither the gap between a record and its system call nor a failure or a
\* crash inside it ever shows (handle, runJanitor).
ImplementsBlocklist == Leases!Spec

(* Liveness.                                                               *)

\* A host that draws no more alerts is in the end let through again, unless
\* an operator blocked it or its record was lost: no auto-block is permanent
\* for want of a sweep (TC-08).
AutoBlockExpires ==
  \A ip \in IPs :
    <>[][~HandleRecord(ip)]_vars
      => <>[](ip \notin reputationMap \/ ip \in manual \cup orphans)
=============================================================================
