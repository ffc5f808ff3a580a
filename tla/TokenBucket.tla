----------------------------- MODULE TokenBucket -----------------------------
(***************************************************************************)
(* The XDP program's two token buckets: check_log_rate_limit               *)
(* (kernel-space/src/main.rs), whose state is the single entry of an array *)
(* all CPUs share, and check_rate_limit (filters/rate_limiter.rs), whose   *)
(* state is an LRU per-CPU entry, so that only one CPU ever touches it.    *)
(* A behaviour is the life of one entry, of the one map or of the other.   *)
(*                                                                         *)
(* Both read the entry through a plain pointer, compute, and write it      *)
(* back; nothing makes the sequence atomic.  A CPU loads both fields, and  *)
(* its stores reach memory in either order, between those of other CPUs.   *)
(* Time is in units of a fraction of NanosPerToken.                        *)
(***************************************************************************)
EXTENDS Integers, FiniteSets

CONSTANTS
  CPUs,
  NanosPerToken,
  BurstCapacity,
  MaxTime,        \* bound: the clock
  MaxAdmitted,    \* bound: packets let through
  MaxEvictions    \* bound: LRU evictions

ASSUME BucketAssumption ==
  /\ NanosPerToken \in Nat \ {0}
  /\ BurstCapacity \in Nat \ {0}
  /\ MaxTime \in Nat /\ MaxAdmitted \in Nat /\ MaxEvictions \in Nat

VARIABLES
  map,             \* the map the entry is in
  users,           \* the CPUs that touch it
  now,             \* bpf_ktime_get_ns
  present,         \* the map holds the entry
  tokens,          \* the entry's two fields
  last_update_ns,
  now_ns,          \* cpu -> the time its packet arrived
  todo,            \* cpu -> "idle", "check", or the stores it has to make
  newTokens,       \* cpu -> the value it will store in tokens
  admitted,        \* history: packets let through
  lastAdmitted,    \* history: the latest arrival of one of them
  evictions,       \* history: entries lost
  raced            \* history: a packet was let through on an entry another
                   \* CPU had yet to store

entry == <<present, tokens, last_update_ns>>
counters == <<admitted, lastAdmitted, evictions>>
vars == <<map, users, now, entry, now_ns, todo, newTokens, counters, raced>>

Maps == {"RATE_LIMIT_MAP", "LOG_RATE_LIMIT_MAP"}
Stores == {"tokens", "last"}

TypeOK ==
  /\ map \in Maps /\ users \subseteq CPUs
  /\ now \in 0 .. MaxTime
  /\ present \in BOOLEAN
  /\ tokens \in Nat
  /\ last_update_ns \in 0 .. now
  /\ now_ns \in [CPUs -> 0 .. now]
  /\ todo \in [CPUs -> {{"idle"}, {"check"}} \cup SUBSET Stores]
  /\ newTokens \in [CPUs -> Nat]
  /\ admitted \in 0 .. MaxAdmitted /\ lastAdmitted \in 0 .. now
  /\ evictions \in 0 .. MaxEvictions
  /\ raced \in BOOLEAN

\* An LRU hash entry is absent at first and one CPU's own; the array entry
\* is there, zeroed, and everyone's.
Init ==
  /\ \/ map = "RATE_LIMIT_MAP" /\ present = FALSE /\ \E c \in CPUs : users = {c}
     \/ map = "LOG_RATE_LIMIT_MAP" /\ present = TRUE /\ users = CPUs
  /\ now = 0
  /\ tokens = 0
  /\ last_update_ns = 0
  /\ now_ns = [c \in CPUs |-> 0]
  /\ todo = [c \in CPUs |-> {"idle"}]
  /\ newTokens = [c \in CPUs |-> 0]
  /\ admitted = 0 /\ lastAdmitted = 0
  /\ evictions = 0 /\ raced = FALSE

\* A packet arrives; try_ai_ida_firewall reads the clock.
Arrive(c) ==
  /\ todo[c] = {"idle"}
  /\ now_ns' = [now_ns EXCEPT ![c] = now]
  /\ todo' = [todo EXCEPT ![c] = {"check"}]
  /\ UNCHANGED <<map, users, now, entry, newTokens, counters, raced>>

\* new_tokens, with saturating_sub.
Earned(c) ==
  IF now_ns[c] > last_update_ns
  THEN (now_ns[c] - last_update_ns) \div NanosPerToken ELSE 0

\* Mutant: no cap on the refill.
RefilledUncapped(c) == tokens + Earned(c)

\* The balance after the refill.
Refilled(c) ==
  IF tokens + Earned(c) < BurstCapacity THEN tokens + Earned(c)
  ELSE BurstCapacity

\* Mutant: the time of the refill is not recorded.
StoresDueNoTime(c) == {"tokens"}

\* The stores that follow a successful check.
StoresDue(c) == IF Earned(c) > 0 THEN Stores ELSE {"tokens"}

\* The CPU has loaded the entry and not yet made all its stores.
Storing(c) == todo[c] \cap Stores # {}

Admit(c) ==
  /\ admitted' = admitted + 1
  /\ lastAdmitted' = IF now_ns[c] > lastAdmitted THEN now_ns[c] ELSE lastAdmitted

\* Mutant: no check of the balance.
CheckAdmitsEmpty(c) ==
  /\ todo[c] = {"check"}
  /\ present
  /\ admitted < MaxAdmitted
  /\ newTokens' = [newTokens EXCEPT ![c] = Refilled(c) - 1]
  /\ todo' = [todo EXCEPT ![c] = StoresDue(c)]
  /\ Admit(c)
  /\ raced' = (raced \/ \E d \in users \ {c} : Storing(d))
  /\ UNCHANGED <<map, users, now, entry, now_ns, evictions>>

\* The entry is loaded and has a token: the packet goes through.
CheckAdmits(c) ==
  /\ todo[c] = {"check"}
  /\ present
  /\ admitted < MaxAdmitted
  /\ Refilled(c) >= 1
  /\ newTokens' = [newTokens EXCEPT ![c] = Refilled(c) - 1]
  /\ todo' = [todo EXCEPT ![c] = StoresDue(c)]
  /\ Admit(c)
  /\ raced' = (raced \/ \E d \in users \ {c} : Storing(d))
  /\ UNCHANGED <<map, users, now, entry, now_ns, evictions>>

\* Mutant: the time is recorded although nothing was earned.
CheckRefusesStamps(c) ==
  /\ todo[c] = {"check"}
  /\ present
  /\ Refilled(c) < 1
  /\ todo' = [todo EXCEPT ![c] = {"idle"}]
  /\ last_update_ns' = now_ns[c]
  /\ UNCHANGED <<map, users, now, present, tokens, now_ns, newTokens, counters, raced>>

\* The entry is loaded and has none; since a refill would have provided one,
\* there is nothing to store.
CheckRefuses(c) ==
  /\ todo[c] = {"check"}
  /\ present
  /\ Refilled(c) < 1
  /\ todo' = [todo EXCEPT ![c] = {"idle"}]
  /\ UNCHANGED <<map, users, now, entry, now_ns, newTokens, counters, raced>>

\* There is no entry: a full bucket, less this packet, is inserted.
CheckInserts(c) ==
  /\ todo[c] = {"check"}
  /\ ~present
  /\ admitted < MaxAdmitted
  /\ present' = TRUE
  /\ tokens' = BurstCapacity - 1
  /\ last_update_ns' = now_ns[c]
  /\ todo' = [todo EXCEPT ![c] = {"idle"}]
  /\ Admit(c)
  /\ UNCHANGED <<map, users, now, now_ns, newTokens, evictions, raced>>

\* One of the stores reaches the entry.
Store(c, field) ==
  /\ field \in todo[c] \cap Stores
  /\ IF field = "tokens"
     THEN tokens' = newTokens[c] /\ UNCHANGED last_update_ns
     ELSE last_update_ns' = now_ns[c] /\ UNCHANGED tokens
  /\ todo' = [todo EXCEPT ![c] = IF @ = {field} THEN {"idle"} ELSE @ \ {field}]
  /\ UNCHANGED <<map, users, now, present, now_ns, newTokens, counters, raced>>

\* The LRU map gives the element to another source.  A program caught
\* between its load and its stores writes into the recycled element, which
\* is no longer this source's.
Evict ==
  /\ map = "RATE_LIMIT_MAP" /\ present
  /\ evictions < MaxEvictions
  /\ present' = FALSE
  /\ todo' = [c \in CPUs |-> IF Storing(c) THEN {"idle"} ELSE todo[c]]
  /\ tokens' = 0
  /\ last_update_ns' = 0
  /\ evictions' = evictions + 1
  /\ UNCHANGED <<map, users, now, now_ns, newTokens, admitted, lastAdmitted, raced>>

Tick ==
  /\ now < MaxTime
  /\ now' = now + 1
  /\ UNCHANGED <<map, users, entry, now_ns, todo, newTokens, counters, raced>>

Next ==
  \/ \E c \in users : Arrive(c) \/ CheckAdmits(c) \/ CheckRefuses(c)
                       \/ CheckInserts(c)
  \/ \E c \in users, field \in Stores : Store(c, field)
  \/ Evict
  \/ Tick

Spec == Init /\ [][Next]_vars

-----------------------------------------------------------------------------
\* The balance never leaves its range, whatever the CPUs interleave: a lost
\* update may repeat or cancel a refill, but no u64 ever wraps below zero
\* and nothing piles up beyond the burst (main.rs, check_log_rate_limit).
BalanceInRange ==
  /\ tokens \in 0 .. BurstCapacity
  /\ \A c \in CPUs : newTokens[c] \in 0 .. BurstCapacity

\* As long as no CPU let a packet through on an entry another had yet to
\* store, the bucket lets through one burst, one more per eviction, and one
\* packet per NanosPerToken, although several CPUs refill it with arrival
\* times out of order and store its fields one by one; and the per-CPU entry
\* of RATE_LIMIT_MAP is never raced for (rate_limiter.rs:12-37).
RateBound ==
  IF raced THEN map = "LOG_RATE_LIMIT_MAP"
  ELSE admitted <= (1 + evictions) * BurstCapacity + now \div NanosPerToken

\* What the aggregator's comment promises of the log limiter whatever
\* happens: the program "throttles EVENTS to a hard cap of ~10,000
\* records/sec sustained (100us/token) with a 1,000-record burst"
\* (aggregator/flow.go:6-8).
HardCap ==
  map = "LOG_RATE_LIMIT_MAP" => admitted <= BurstCapacity + now \div NanosPerToken

\* A packet is refused only within NanosPerToken of the arrival of one that
\* was let through: a source that keeps to the sustained rate is never
\* starved, although the refill rounds down and the clock is only recorded
\* when it earned a token (rate_limiter.rs:14-20).
NeverStarved ==
  [][\A c \in CPUs :
       todo[c] = {"check"} /\ todo'[c] = {"idle"} /\ admitted' = admitted
         => now_ns[c] < lastAdmitted + NanosPerToken]_vars
=============================================================================
