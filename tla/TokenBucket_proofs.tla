-------------------------- MODULE TokenBucket_proofs --------------------------
(***************************************************************************)
(* What survives the unsynchronised updates of a token bucket, for any     *)
(* number of CPUs, burst and refill period.                                *)
(***************************************************************************)
EXTENDS TokenBucket, TLAPS

\* The inductive invariant: types, and a balance in range both in the map
\* and in the hands of every CPU.
BInv == TypeOK /\ BalanceInRange

USE DEF entry, counters, Stores, Maps

\* A refill earns a natural number of tokens and respects the burst.
LEMMA RefillBounds ==
  ASSUME TypeOK, BalanceInRange, NEW c \in CPUs
  PROVE  Earned(c) \in Nat /\ Refilled(c) \in 0 .. BurstCapacity
<1> USE BucketAssumption
<1>1. now_ns[c] \in Nat /\ last_update_ns \in Nat /\ tokens \in 0 .. BurstCapacity
  BY DEF TypeOK, BalanceInRange
<1>2. Earned(c) \in Nat
  <2>1. \A d \in Nat : d \div NanosPerToken \in Nat
    BY Z3
  <2> QED
    BY <1>1, <2>1 DEF Earned
<1> QED
  BY <1>1, <1>2 DEF Refilled

\* The zeroed array entry, and the absent hash entry, are in range.
LEMMA InitBInv == Init => BInv
<1> SUFFICES ASSUME Init PROVE BInv
  OBVIOUS
<1> USE BucketAssumption
<1>1. present \in BOOLEAN /\ raced \in BOOLEAN /\ map \in Maps /\ users \subseteq CPUs
  BY Zenon DEF Init
<1>2. now \in 0 .. MaxTime /\ admitted \in 0 .. MaxAdmitted
      /\ evictions \in 0 .. MaxEvictions /\ tokens = 0 /\ last_update_ns \in 0 .. now
      /\ lastAdmitted \in 0 .. now
  BY DEF Init
<1>3. now_ns \in [CPUs -> 0 .. now] /\ newTokens \in [CPUs -> Nat]
  BY DEF Init
<1>4. todo \in [CPUs -> {{"idle"}, {"check"}} \cup SUBSET Stores]
  BY DEF Init
<1>5. BalanceInRange
  BY DEF Init, BalanceInRange
<1> QED
  BY <1>1, <1>2, <1>3, <1>4, <1>5 DEF BInv, TypeOK

\* Every load, store, insertion, eviction and tick preserves it.
LEMMA StepBInv == BInv /\ [Next]_vars => BInv'
<1> SUFFICES ASSUME BInv, [Next]_vars PROVE BInv'
  OBVIOUS
<1> USE BucketAssumption
<1>0. TypeOK /\ BalanceInRange
  BY DEF BInv
<1>u. users \subseteq CPUs /\ map' = map /\ users' = users /\ raced' \in BOOLEAN
  <2>1. users \subseteq CPUs /\ raced \in BOOLEAN
    BY <1>0, Zenon DEF TypeOK
  <2>2. map' = map /\ users' = users
    BY DEF Next, Arrive, CheckAdmits, CheckRefuses, CheckInserts, Store, Evict, Tick, vars
  <2>3. raced' = raced \/ \E c \in users : CheckAdmits(c)
    BY Zenon DEF Next, Arrive, CheckRefuses, CheckInserts, Store, Evict, Tick, vars
  <2>4. ASSUME NEW c \in users, CheckAdmits(c) PROVE raced' \in BOOLEAN
    BY <2>4, Zenon DEF CheckAdmits
  <2> QED
    BY <2>1, <2>2, <2>3, <2>4, Zenon
<1>m. map' \in Maps /\ users' \subseteq CPUs /\ raced' \in BOOLEAN
  BY <1>0, <1>u, Zenon DEF TypeOK
<1> DEFINE Fields == /\ now \in 0 .. MaxTime
                     /\ tokens \in Nat
                     /\ last_update_ns \in 0 .. now
                     /\ now_ns \in [CPUs -> 0 .. now]
                     /\ todo \in [CPUs -> {{"idle"}, {"check"}} \cup SUBSET Stores]
                     /\ newTokens \in [CPUs -> Nat]
                     /\ admitted \in 0 .. MaxAdmitted /\ lastAdmitted \in 0 .. now
                     /\ evictions \in 0 .. MaxEvictions
<1>f. Fields
  BY <1>0 DEF TypeOK
<1>p. present' \in BOOLEAN
  <2>1. present \in BOOLEAN
    BY <1>0 DEF TypeOK
  <2> QED
    BY <2>1, Zenon DEF Next, Arrive, CheckAdmits, CheckRefuses, CheckInserts, Store,
                       Evict, Tick, vars, entry
<1>s. SUFFICES Fields' /\ BalanceInRange'
  BY <1>m, <1>p, Zenon DEF BInv, TypeOK
<1> HIDE <1>m, <1>u
<1>1. ASSUME NEW c \in CPUs, Arrive(c) PROVE Fields' /\ BalanceInRange'
  BY <1>0, <1>f, <1>1 DEF Arrive, BalanceInRange
<1>2. ASSUME NEW c \in CPUs, CheckAdmits(c) PROVE Fields' /\ BalanceInRange'
  <2> USE <1>2 DEF CheckAdmits
  <2>1. Refilled(c) - 1 \in 0 .. BurstCapacity
    BY <1>0, RefillBounds
  <2>2. newTokens' \in [CPUs -> Nat]
    BY <1>f, <2>1
  <2>3. todo' \in [CPUs -> {{"idle"}, {"check"}} \cup SUBSET Stores]
    BY <1>f DEF StoresDue
  <2>4. admitted' \in 0 .. MaxAdmitted /\ lastAdmitted' \in 0 .. now
    BY <1>f DEF Admit
  <2>5. BalanceInRange'
    BY <1>0, <1>f, <2>1 DEF BalanceInRange
  <2> QED
    BY <1>f, <2>2, <2>3, <2>4, <2>5
<1>3. ASSUME NEW c \in CPUs, CheckRefuses(c) PROVE Fields' /\ BalanceInRange'
  BY <1>0, <1>f, <1>3 DEF CheckRefuses, BalanceInRange
<1>4. ASSUME NEW c \in CPUs, CheckInserts(c) PROVE Fields' /\ BalanceInRange'
  <2>1. /\ tokens' = BurstCapacity - 1 /\ last_update_ns' = now_ns[c]
        /\ todo' = [todo EXCEPT ![c] = {"idle"}] /\ Admit(c) /\ admitted < MaxAdmitted
        /\ now' = now /\ now_ns' = now_ns /\ newTokens' = newTokens
        /\ evictions' = evictions
    BY <1>4, Zenon DEF CheckInserts
  <2>2. tokens' \in 0 .. BurstCapacity /\ tokens' \in Nat
    BY <2>1
  <2>4. admitted' \in 0 .. MaxAdmitted /\ lastAdmitted' \in 0 .. now
    BY <1>f, <2>1 DEF Admit
  <2>7. BalanceInRange'
    BY <1>0, <2>1, <2>2 DEF BalanceInRange
  <2> QED
    BY <1>f, <2>1, <2>2, <2>4, <2>7
<1>5. ASSUME NEW c \in CPUs, NEW field \in Stores, Store(c, field)
      PROVE  Fields' /\ BalanceInRange'
  <2> USE <1>0, <1>f, <1>5 DEF Store
  <2>1. tokens' \in 0 .. BurstCapacity /\ last_update_ns' \in 0 .. now
    BY DEF BalanceInRange
  <2>2. todo' \in [CPUs -> {{"idle"}, {"check"}} \cup SUBSET Stores]
    OBVIOUS
  <2>4. BalanceInRange'
    BY <2>1 DEF BalanceInRange
  <2> QED
    BY <2>1, <2>2, <2>4
<1>6. CASE Evict
  <2>1. /\ todo' = [c \in CPUs |-> IF Storing(c) THEN {"idle"} ELSE todo[c]]
        /\ tokens' = 0 /\ last_update_ns' = 0 /\ evictions < MaxEvictions
        /\ evictions' = evictions + 1 /\ now' = now /\ now_ns' = now_ns
        /\ newTokens' = newTokens /\ admitted' = admitted
        /\ lastAdmitted' = lastAdmitted
    BY <1>6, Zenon DEF Evict
  <2>3. todo' \in [CPUs -> {{"idle"}, {"check"}} \cup SUBSET Stores]
    BY <1>f, <2>1
  <2>5. BalanceInRange'
    BY <1>0, <2>1 DEF BalanceInRange
  <2> QED
    BY <1>f, <2>1, <2>3, <2>5
<1>7. CASE Tick
  BY <1>0, <1>f, <1>7 DEF Tick, BalanceInRange
<1>8. CASE UNCHANGED vars
  BY <1>0, <1>f, <1>8 DEF vars, BalanceInRange
<1> QED
  BY <1>1, <1>2, <1>3, <1>4, <1>5, <1>6, <1>7, <1>8, <1>u DEF Next

\* The CPUs that touch an entry are CPUs.
LEMMA UsersAreCPUs == BInv => users \subseteq CPUs
BY DEF BInv, TypeOK

\* Whatever the CPUs interleave, the entry and their private copies are well
\* typed: no clock runs ahead and no balance goes negative.
THEOREM TypeCorrect == Spec => []TypeOK
<1>1. BInv => TypeOK
  BY DEF BInv
<1> QED
  BY <1>1, InitBInv, StepBInv, PTL DEF Spec

\* No interleaving of any number of CPUs takes the balance below zero or
\* above the burst.
THEOREM BalanceSafe == Spec => []BalanceInRange
<1>1. BInv => BalanceInRange
  BY DEF BInv
<1> QED
  BY <1>1, InitBInv, StepBInv, PTL DEF Spec

-----------------------------------------------------------------------------
(* A bucket nobody races for keeps its rate.                               *)

\* Multiplying by a positive number reflects the order.
LEMMA MulReflects ==
  ASSUME NEW p \in Nat \ {0}, NEW q \in Nat, NEW r \in Nat, q * p < r * p + p
  PROVE  q <= r
<1> SUFFICES ASSUME q >= r + 1 PROVE FALSE
  OBVIOUS
<1>1. PICK d \in Nat : q = r + 1 + d
  <2>1. q - (r + 1) \in Nat
    OBVIOUS
  <2> QED
    BY <2>1
<1>2. q * p = r * p + p + d * p
  BY <1>1
<1>3. q * p \in Nat /\ r * p \in Nat /\ d * p \in Nat
  OBVIOUS
<1> QED
  BY <1>2, <1>3

\* Rounding down loses less than one divisor.
LEMMA DivBounds ==
  ASSUME NEW p \in Nat \ {0}, NEW a \in Nat
  PROVE  a \div p \in Nat /\ (a \div p) * p <= a /\ a < (a \div p) * p + p
BY Z3

\* Division is monotone.
LEMMA DivMonotone ==
  ASSUME NEW p \in Nat \ {0}, NEW a \in Nat, NEW b \in Nat, a <= b
  PROVE  a \div p <= b \div p
BY DivBounds, MulReflects

\* Two intervals rounded down earn no more than their sum.
LEMMA DivSuperadditive ==
  ASSUME NEW p \in Nat \ {0}, NEW a \in Nat, NEW b \in Nat
  PROVE  (a \div p) + (b \div p) <= (a + b) \div p
<1> DEFINE qa == a \div p
           qb == b \div p
           qc == (a + b) \div p
<1>1. qa \in Nat /\ qa * p <= a
  BY DivBounds
<1>2. qb \in Nat /\ qb * p <= b
  BY DivBounds
<1>3. qc \in Nat /\ a + b < qc * p + p
  BY DivBounds
<1> HIDE DEF qa, qb, qc
<1>4. (qa + qb) * p = qa * p + qb * p
  BY <1>1, <1>2
<1>5. qa + qb \in Nat /\ qa * p \in Nat /\ qb * p \in Nat /\ qc * p \in Nat
  BY <1>1, <1>2, <1>3
<1>6. (qa + qb) * p < qc * p + p
  BY <1>1, <1>2, <1>3, <1>4, <1>5
<1>7. qa + qb <= qc
  BY <1>3, <1>5, <1>6, MulReflects
<1> QED
  BY <1>7 DEF qa, qb, qc

\* What n bursts and the time up to t entitle a source to.
Budget(n, t) == n * BurstCapacity + t \div NanosPerToken

\* What a CPU with stores to make will leave behind is within the budget up
\* to the time the entry will then bear.
Owed(c) ==
  /\ "last" \in todo[c] => last_update_ns <= now_ns[c]
  /\ todo[c] = {"tokens"} =>
       newTokens[c] + admitted <= Budget(1 + evictions, last_update_ns)
  /\ todo[c] = {"last"} =>
       tokens + admitted <= Budget(1 + evictions, now_ns[c])
  /\ todo[c] = {"tokens", "last"} =>
       newTokens[c] + admitted <= Budget(1 + evictions, now_ns[c])

\* Without a race one CPU at a time has stores to make, and between them the
\* balance and the packets let through stay within the budget up to the
\* time of the entry.
Account ==
  /\ \A c, d \in CPUs : Storing(c) /\ Storing(d) => c = d
  /\ present /\ (\A c \in CPUs : ~Storing(c)) =>
       tokens + admitted <= Budget(1 + evictions, last_update_ns)
  /\ \A c \in CPUs : Owed(c)

\* The packets let through before an entry is inserted again are within the
\* budget of its predecessors, for the one CPU that owns it.
Vacant ==
  /\ map = "RATE_LIMIT_MAP"
  /\ \A c \in CPUs : ~Storing(c)
  /\ \A c \in users : admitted <= Budget(evictions, now_ns[c])

\* An entry of the per-CPU map has one user, whose clock it never overtakes.
Private ==
  /\ users # {} /\ \A c, d \in users : c = d
  /\ \A c \in users : last_update_ns <= now_ns[c]
  /\ raced = FALSE

\* The account of an entry of either map.
Paid ==
  /\ \A c \in CPUs : todo[c] # {} /\ (Storing(c) => c \in users)
  /\ map = "RATE_LIMIT_MAP" => Private
  /\ ~present => Vacant
  /\ raced = FALSE => Account

\* The budget grows with time, by at least what a refill earns, and by a
\* burst with each entry.
LEMMA BudgetGrows ==
  ASSUME NEW n \in Nat, NEW t \in Nat, NEW u \in Nat, t <= u
  PROVE  /\ Budget(n, t) \in Nat
         /\ Budget(n, t) <= Budget(n, u)
         /\ Budget(n, t) + (u - t) \div NanosPerToken <= Budget(n, u)
         /\ Budget(n, t) + BurstCapacity = Budget(1 + n, t)
         /\ Budget(0, t) = t \div NanosPerToken
<1> USE BucketAssumption
<1>1. /\ t \div NanosPerToken \in Nat /\ u \div NanosPerToken \in Nat
      /\ (u - t) \div NanosPerToken \in Nat
  BY DivBounds
<1>2. t \div NanosPerToken <= u \div NanosPerToken
  BY DivMonotone
<1>3. t \div NanosPerToken + (u - t) \div NanosPerToken <= u \div NanosPerToken
  <2>1. u - t \in Nat /\ t + (u - t) = u
    OBVIOUS
  <2>2. t \div NanosPerToken + (u - t) \div NanosPerToken
          <= (t + (u - t)) \div NanosPerToken
    BY <2>1, DivSuperadditive
  <2> QED
    BY <2>1, <2>2
<1>4. /\ n * BurstCapacity \in Nat
      /\ (1 + n) * BurstCapacity = n * BurstCapacity + BurstCapacity
      /\ 0 * BurstCapacity = 0
  OBVIOUS
<1> DEFINE N == n * BurstCapacity
           N1 == (1 + n) * BurstCapacity
           dt == t \div NanosPerToken
           du == u \div NanosPerToken
           dd == (u - t) \div NanosPerToken
<1>5. /\ N \in Nat /\ N1 = N + BurstCapacity /\ dt \in Nat /\ du \in Nat /\ dd \in Nat
      /\ dt <= du /\ dt + dd <= du
  BY <1>1, <1>2, <1>3, <1>4
<1>6. /\ Budget(n, t) = N + dt /\ Budget(n, u) = N + du /\ Budget(1 + n, t) = N1 + dt
      /\ Budget(0, t) = dt
  BY <1>1, <1>4 DEF Budget
<1> HIDE DEF N, N1, dt, du, dd
<1>7. /\ N + dt \in Nat /\ N + dt <= N + du /\ (N + dt) + dd <= N + du
      /\ (N + dt) + BurstCapacity = N1 + dt
  BY <1>5
<1> QED
  BY <1>6, <1>7 DEF dd, dt

\* Its parts, one to a statement.
LEMMA BudgetType ==
  ASSUME NEW n \in Nat, NEW t \in Nat
  PROVE  Budget(n, t) \in Nat
BY BudgetGrows

\* The budget never shrinks as time passes.
LEMMA BudgetMonotone ==
  ASSUME NEW n \in Nat, NEW t \in Nat, NEW u \in Nat, t <= u
  PROVE  Budget(n, t) <= Budget(n, u)
BY BudgetGrows

\* A refill is paid for by the time since the last one.
LEMMA BudgetRefill ==
  ASSUME NEW n \in Nat, NEW t \in Nat, NEW u \in Nat, t <= u
  PROVE  Budget(n, t) + (u - t) \div NanosPerToken <= Budget(n, u)
BY BudgetGrows

\* A new entry is paid for by one more burst.
LEMMA BudgetBurst ==
  ASSUME NEW n \in Nat, NEW t \in Nat
  PROVE  Budget(n, t) + BurstCapacity = Budget(1 + n, t)
BY BudgetGrows

\* The five things a CPU can be doing.
LEMMA Kinds ==
  ASSUME BInv, Paid, NEW c \in CPUs
  PROVE  /\ todo[c] \in {{"idle"}, {"check"}, {"tokens"}, {"last"}, {"tokens", "last"}}
         /\ Storing(c) <=> todo[c] \in {{"tokens"}, {"last"}, {"tokens", "last"}}
         /\ "last" \in todo[c] <=> todo[c] \in {{"last"}, {"tokens", "last"}}
BY DEF BInv, TypeOK, Paid, Storing

\* Each step keeps the account, whichever CPU makes it.
LEMMA StepPaid == BInv /\ Paid /\ [Next]_vars => Paid'
<1> SUFFICES ASSUME BInv, Paid, [Next]_vars PROVE Paid'
  OBVIOUS
<1> USE BucketAssumption
<1>0. /\ last_update_ns \in Nat /\ now \in Nat /\ tokens \in Nat
      /\ admitted \in Nat /\ evictions \in Nat /\ 1 + evictions \in Nat
      /\ todo \in [CPUs -> {{"idle"}, {"check"}} \cup SUBSET Stores]
      /\ newTokens \in [CPUs -> Nat] /\ now_ns \in [CPUs -> Nat]
      /\ users \subseteq CPUs /\ last_update_ns <= now
      /\ \A c \in CPUs : now_ns[c] <= now
  BY DEF BInv, TypeOK
<1>b. present \in BOOLEAN /\ raced \in BOOLEAN
  BY DEF BInv, TypeOK
<1>p. /\ \A c \in CPUs : todo[c] # {} /\ (Storing(c) => c \in users)
      /\ map = "RATE_LIMIT_MAP" => Private
      /\ ~present => Vacant
      /\ raced = FALSE => Account
  BY DEF Paid
<1>1. ASSUME NEW c \in users, Arrive(c) PROVE Paid'
  <2>1. /\ c \in CPUs /\ todo[c] = {"idle"} /\ todo'[c] = {"check"}
        /\ now_ns'[c] = now /\ now_ns' \in [CPUs -> Nat]
        /\ \A d \in CPUs \ {c} : todo'[d] = todo[d] /\ now_ns'[d] = now_ns[d]
        /\ map' = map /\ users' = users /\ tokens' = tokens /\ newTokens' = newTokens
        /\ last_update_ns' = last_update_ns /\ admitted' = admitted
        /\ evictions' = evictions
    BY <1>0, <1>1 DEF Arrive
  <2>b. present' = present /\ raced' = raced
    BY <1>1 DEF Arrive
  <2>2. \A d \in CPUs : (Storing(d)' <=> Storing(d)) /\ now_ns[d] <= now_ns'[d]
    BY <1>0, <2>1 DEF Storing
  <2>3. \A d \in CPUs : todo'[d] # {}
    BY <1>p, <2>1
  <2>4. Private => Private'
    BY <1>0, <2>1, <2>2, <2>b DEF Private
  <2>5. Vacant => Vacant'
    <3>1. ASSUME NEW d \in users
          PROVE  /\ Budget(evictions, now_ns[d]) <= Budget(evictions, now_ns'[d])
                 /\ Budget(evictions, now_ns[d]) \in Nat
                 /\ Budget(evictions, now_ns'[d]) \in Nat
      BY <1>0, <2>1, <2>2, BudgetMonotone, BudgetType
    <3> QED
      BY <1>0, <2>1, <2>2, <3>1 DEF Vacant
  <2>6. Account => Account'
    BY <1>0, <2>1, <2>2, <2>b DEF Account, Owed
  <2> QED
    BY <1>p, <2>1, <2>2, <2>3, <2>4, <2>5, <2>6, <2>b DEF Paid
<1>2. ASSUME NEW c \in users, CheckAdmits(c) PROVE Paid'
  <2>1. /\ c \in CPUs /\ todo[c] = {"check"} /\ todo'[c] = StoresDue(c)
        /\ newTokens'[c] = Refilled(c) - 1 /\ admitted' = admitted + 1
        /\ \A d \in CPUs \ {c} : todo'[d] = todo[d] /\ newTokens'[d] = newTokens[d]
        /\ map' = map /\ users' = users /\ tokens' = tokens /\ now_ns' = now_ns
        /\ last_update_ns' = last_update_ns /\ evictions' = evictions
    BY <1>0, <1>2 DEF CheckAdmits, Admit
  <2>b. present /\ present' = present
    BY <1>2 DEF CheckAdmits
  <2>r. raced' = FALSE <=> raced = FALSE /\ \A d \in users \ {c} : ~Storing(d)
    BY <1>2, <1>b, Zenon DEF CheckAdmits
  <2>2. todo'[c] = {"tokens"} \/ todo'[c] = {"tokens", "last"}
    BY <2>1 DEF StoresDue
  <2>3. /\ \A d \in CPUs : todo'[d] # {} /\ (Storing(d)' => d \in users')
        /\ ~Storing(c)
        /\ \A d \in CPUs \ {c} : Storing(d)' <=> Storing(d)
    BY <1>p, <2>1, <2>2 DEF Storing
  <2>4. map' = "RATE_LIMIT_MAP" => Private'
    BY <1>p, <2>1, <2>r DEF Private
  <2>5. ASSUME raced' = FALSE PROVE Account'
    <3>0. raced = FALSE /\ Account /\ \A d \in CPUs : ~Storing(d)
      BY <1>p, <2>r, <2>3, <2>5
    <3>1. tokens + admitted <= Budget(1 + evictions, last_update_ns)
      BY <2>b, <3>0 DEF Account
    <3>2. Earned(c) \in Nat /\ Refilled(c) \in Nat /\ Refilled(c) <= tokens + Earned(c)
      BY <1>0, <2>1, RefillBounds DEF Refilled, BInv
    <3>3. newTokens'[c] + admitted' = Refilled(c) + admitted
      BY <1>0, <2>1, <3>2
    <3>4. Budget(1 + evictions, last_update_ns) \in Nat
          /\ Budget(1 + evictions, now_ns[c]) \in Nat
      BY <1>0, <2>1, BudgetType
    <3>5. ASSUME Earned(c) > 0 PROVE Owed(c)'
      <4>1. /\ last_update_ns <= now_ns[c] /\ now_ns[c] \in Nat
            /\ Earned(c) = (now_ns[c] - last_update_ns) \div NanosPerToken
        BY <1>0, <2>1, <3>5 DEF Earned
      <4>2. Budget(1 + evictions, last_update_ns) + Earned(c)
              <= Budget(1 + evictions, now_ns[c])
        BY <1>0, <4>1, BudgetRefill
      <4>3. newTokens'[c] + admitted' <= Budget(1 + evictions, now_ns[c])
        BY <1>0, <3>1, <3>2, <3>3, <3>4, <4>2
      <4>4. todo'[c] = {"tokens", "last"}
        BY <2>1, <3>5 DEF StoresDue
      <4>5. /\ todo'[c] # {"tokens"} /\ todo'[c] # {"last"}
            /\ last_update_ns' <= now_ns'[c]
            /\ newTokens'[c] + admitted' <= Budget(1 + evictions', now_ns'[c])
        <5>1. todo'[c] # {"tokens"} /\ todo'[c] # {"last"}
          BY <4>4
        <5>2. now_ns'[c] = now_ns[c] /\ evictions' = evictions
              /\ last_update_ns' = last_update_ns
          BY <2>1
        <5> QED
          BY <4>1, <4>3, <5>1, <5>2
      <4> QED
        BY <4>5 DEF Owed
    <3>6. ASSUME Earned(c) = 0 PROVE Owed(c)'
      <4>1. newTokens'[c] + admitted' <= Budget(1 + evictions, last_update_ns)
        BY <1>0, <3>1, <3>2, <3>3, <3>4, <3>6
      <4>2. todo'[c] = {"tokens"}
        BY <2>1, <3>6 DEF StoresDue
      <4> QED
        BY <2>1, <4>1, <4>2 DEF Owed
    <3>7. Owed(c)'
      BY <3>2, <3>5, <3>6
    <3>8. ASSUME NEW d \in CPUs \ {c} PROVE Owed(d)'
      <4>1. todo'[d] \in {{"idle"}, {"check"}}
        BY <2>1, <3>0, Kinds
      <4> QED
        BY <4>1 DEF Owed
    <3>9. Storing(c)' /\ \A d \in CPUs \ {c} : ~Storing(d)'
      BY <2>2, <2>3, <3>0 DEF Storing
    <3> QED
      BY <2>1, <3>7, <3>8, <3>9 DEF Account
  <2> QED
    BY <2>b, <2>3, <2>4, <2>5 DEF Paid
<1>3. ASSUME NEW c \in users, CheckRefuses(c) PROVE Paid'
  <2>1. /\ c \in CPUs /\ todo[c] = {"check"} /\ todo'[c] = {"idle"}
        /\ \A d \in CPUs \ {c} : todo'[d] = todo[d]
        /\ map' = map /\ users' = users /\ tokens' = tokens /\ now_ns' = now_ns
        /\ newTokens' = newTokens /\ admitted' = admitted
        /\ last_update_ns' = last_update_ns /\ evictions' = evictions
    BY <1>0, <1>3 DEF CheckRefuses
  <2>b. present' = present /\ raced' = raced
    BY <1>3 DEF CheckRefuses
  <2>2. \A d \in CPUs : todo'[d] # {} /\ (Storing(d)' <=> Storing(d))
    BY <1>p, <2>1 DEF Storing
  <2>3. (Private => Private') /\ (Vacant => Vacant')
    BY <2>1, <2>2, <2>b DEF Private, Vacant
  <2>4. Account => Account'
    BY <2>1, <2>2, <2>b DEF Account, Owed
  <2> QED
    BY <1>p, <2>1, <2>2, <2>3, <2>4, <2>b DEF Paid
<1>4. ASSUME NEW c \in users, CheckInserts(c) PROVE Paid'
  <2>1. /\ c \in CPUs /\ tokens' = BurstCapacity - 1 /\ last_update_ns' = now_ns[c]
        /\ admitted' = admitted + 1 /\ todo' = [todo EXCEPT ![c] = {"idle"}]
        /\ map' = map /\ users' = users /\ now_ns' = now_ns /\ evictions' = evictions
    BY <1>0, <1>4, Zenon DEF CheckInserts, Admit
  <2>b. ~present /\ present' /\ raced' = raced
    BY <1>4, Zenon DEF CheckInserts
  <2>2. Vacant /\ Private
    BY <1>p, <2>b DEF Vacant
  <2>3. \A d \in CPUs : todo'[d] \in {{"idle"}, {"check"}} /\ ~Storing(d)'
    <3>1. \A d \in CPUs : todo[d] \in {{"idle"}, {"check"}}
      BY <2>2, Kinds DEF Vacant
    <3> QED
      BY <1>0, <2>1, <3>1 DEF Storing
  <2>4. Private'
    BY <2>1, <2>2, <2>b, <1>0 DEF Private
  <2>5. /\ Budget(evictions, now_ns[c]) + BurstCapacity
             = Budget(1 + evictions, now_ns[c])
        /\ Budget(evictions, now_ns[c]) \in Nat
        /\ admitted <= Budget(evictions, now_ns[c])
    BY <1>0, <2>1, <2>2, BudgetBurst, BudgetType DEF Vacant
  <2>6. tokens' + admitted' <= Budget(1 + evictions', last_update_ns')
    BY <1>0, <2>1, <2>5
  <2>7. Account'
    BY <2>3, <2>6 DEF Account, Owed
  <2> QED
    BY <2>b, <2>3, <2>4, <2>7 DEF Paid
<1>5. ASSUME NEW c \in users, NEW field \in Stores, Store(c, field) PROVE Paid'
  <2>1. /\ c \in CPUs /\ field \in todo[c] /\ Storing(c)
        /\ \A d \in CPUs \ {c} : todo'[d] = todo[d]
        /\ todo'[c] = IF todo[c] = {field} THEN {"idle"} ELSE todo[c] \ {field}
        /\ map' = map /\ users' = users /\ now_ns' = now_ns
        /\ newTokens' = newTokens /\ admitted' = admitted /\ evictions' = evictions
        /\ IF field = "tokens"
           THEN tokens' = newTokens[c] /\ last_update_ns' = last_update_ns
           ELSE last_update_ns' = now_ns[c] /\ tokens' = tokens
    BY <1>0, <1>5 DEF Store, Storing
  <2>b. present' = present /\ raced' = raced
    BY <1>5 DEF Store
  <2>2. present
    BY <1>p, <2>1 DEF Vacant
  <2>3. /\ todo[c] \in {{"tokens"}, {"last"}, {"tokens", "last"}}
        /\ field = "tokens" \/ field = "last"
    BY <2>1, Kinds
  <2>4. /\ \A d \in CPUs : todo'[d] # {} /\ (Storing(d)' => Storing(d))
        /\ \A d \in CPUs \ {c} : Storing(d) => Storing(d)'
    BY <1>p, <2>1, <2>3 DEF Storing
  <2>5. Private => Private'
    BY <1>0, <2>1, <2>b DEF Private
  <2>6. ASSUME Account PROVE Account'
    <3>0. \A d \in CPUs \ {c} : ~Storing(d) /\ ~Storing(d)'
      BY <2>1, <2>4, <2>6 DEF Account
    <3>1. ASSUME NEW d \in CPUs \ {c} PROVE Owed(d)'
      <4>1. todo'[d] \in {{"idle"}, {"check"}}
        BY <2>1, <3>0, Kinds
      <4> QED
        BY <4>1 DEF Owed
    <3>2. Owed(c)
      BY <2>1, <2>6 DEF Account
    <3>3. CASE todo[c] = {"tokens"}
      <4>1. /\ field = "tokens" /\ todo'[c] = {"idle"} /\ tokens' = newTokens[c]
            /\ last_update_ns' = last_update_ns
        BY <2>1, <3>3
      <4>2. Owed(c)' /\ tokens' + admitted' <= Budget(1 + evictions', last_update_ns')
        BY <2>1, <3>2, <3>3, <4>1 DEF Owed
      <4> QED
        BY <3>0, <3>1, <4>2, <4>1 DEF Account
    <3>4. CASE todo[c] = {"last"}
      <4>1. /\ field = "last" /\ todo'[c] = {"idle"} /\ tokens' = tokens
            /\ last_update_ns' = now_ns[c]
        BY <2>1, <2>3, <3>4
      <4>2. Owed(c)' /\ tokens' + admitted' <= Budget(1 + evictions', last_update_ns')
        BY <2>1, <3>2, <3>4, <4>1 DEF Owed
      <4> QED
        BY <3>0, <3>1, <4>2, <4>1 DEF Account
    <3>5. CASE todo[c] = {"tokens", "last"} /\ field = "tokens"
      <4>1. todo'[c] = {"last"} /\ tokens' = newTokens[c]
            /\ last_update_ns' = last_update_ns
        BY <2>1, <3>5
      <4>2. Owed(c)' /\ Storing(c)'
        BY <2>1, <3>2, <3>5, <4>1 DEF Owed, Storing
      <4> QED
        BY <2>1, <3>0, <3>1, <4>2 DEF Account
    <3>6. CASE todo[c] = {"tokens", "last"} /\ field = "last"
      <4>1. todo'[c] = {"tokens"} /\ tokens' = tokens /\ last_update_ns' = now_ns[c]
        BY <2>1, <3>6
      <4>2. Owed(c)' /\ Storing(c)'
        BY <2>1, <3>2, <3>6, <4>1 DEF Owed, Storing
      <4> QED
        BY <2>1, <3>0, <3>1, <4>2 DEF Account
    <3> QED
      BY <2>3, <3>3, <3>4, <3>5, <3>6
  <2> QED
    BY <1>p, <2>1, <2>2, <2>4, <2>5, <2>6, <2>b DEF Paid
<1>6. CASE Evict
  <2>1. /\ map = "RATE_LIMIT_MAP" /\ evictions' = evictions + 1 /\ admitted' = admitted
        /\ last_update_ns' = 0 /\ now_ns' = now_ns /\ map' = map /\ users' = users
        /\ todo' = [c \in CPUs |-> IF Storing(c) THEN {"idle"} ELSE todo[c]]
    BY <1>6, Zenon DEF Evict
  <2>b. present /\ ~present' /\ raced' = raced
    BY <1>6, Zenon DEF Evict
  <2>2. Private /\ raced = FALSE /\ Account
    BY <1>p, <2>1 DEF Private
  <2>3. \A c \in CPUs : todo'[c] \in {{"idle"}, {"check"}} /\ ~Storing(c)' /\ Owed(c)'
                          /\ todo'[c] # {}
    <3>1. \A c \in CPUs : todo'[c] \in {{"idle"}, {"check"}}
      BY <2>1, Kinds
    <3> QED
      BY <3>1 DEF Owed, Storing
  <2>4. Private'
    BY <1>0, <2>1, <2>2, <2>b DEF Private
  <2>5. ASSUME NEW c \in users PROVE admitted <= Budget(1 + evictions, now_ns[c])
    <3>0. c \in CPUs /\ last_update_ns <= now_ns[c] /\ now_ns[c] \in Nat /\ Owed(c)
      BY <1>0, <2>2 DEF Private, Account
    <3>1. /\ Budget(1 + evictions, last_update_ns) <= Budget(1 + evictions, now_ns[c])
          /\ Budget(1 + evictions, last_update_ns) \in Nat
          /\ Budget(1 + evictions, now_ns[c]) \in Nat
      BY <1>0, <3>0, BudgetMonotone, BudgetType
    <3>2. newTokens[c] \in Nat
      BY <1>0, <3>0
    <3>3. CASE Storing(c)
      BY <1>0, <3>0, <3>1, <3>2, <3>3, Kinds DEF Owed
    <3>4. CASE ~Storing(c)
      <4>1. \A d \in CPUs : ~Storing(d)
        BY <1>p, <2>2, <3>4 DEF Private
      <4>2. tokens + admitted <= Budget(1 + evictions, last_update_ns)
        BY <2>2, <2>b, <4>1 DEF Account
      <4> QED
        BY <1>0, <3>1, <4>2
    <3> QED
      BY <3>3, <3>4
  <2>6. evictions' = 1 + evictions
    BY <1>0, <2>1
  <2>7. Vacant'
    BY <2>1, <2>3, <2>5, <2>6 DEF Vacant
  <2>8. Account'
    BY <2>b, <2>3 DEF Account
  <2> QED
    BY <2>b, <2>3, <2>4, <2>7, <2>8 DEF Paid
<1>7. CASE Tick
  BY <1>7 DEF Tick, Paid, Private, Vacant, Account, Owed, Storing
<1>8. CASE UNCHANGED vars
  BY <1>8 DEF vars, Paid, Private, Vacant, Account, Owed, Storing
<1> QED
  BY <1>1, <1>2, <1>3, <1>4, <1>5, <1>6, <1>7, <1>8 DEF Next

\* Only the log limiter can be raced for, and a bucket nobody raced for lets
\* through at most one burst per entry plus one packet per NanosPerToken, for
\* any number of CPUs, any burst, period and evictions.
THEOREM RateHolds == Spec => []RateBound
<1>1. Init => Paid
  <2> SUFFICES ASSUME Init PROVE Paid
    OBVIOUS
  <2> USE BucketAssumption
  <2>1. /\ \A c \in CPUs : todo[c] = {"idle"} /\ now_ns[c] = 0
        /\ last_update_ns = 0 /\ tokens = 0 /\ admitted = 0 /\ evictions = 0
    BY DEF Init
  <2>b. /\ raced = FALSE /\ users \subseteq CPUs
        /\ map = "RATE_LIMIT_MAP" => users # {} /\ \A c, d \in users : c = d
        /\ ~present => map = "RATE_LIMIT_MAP"
    BY Zenon DEF Init
  <2>2. Budget(0, 0) \in Nat /\ Budget(1 + 0, 0) \in Nat
    BY BudgetType
  <2>3. \A c \in CPUs : ~Storing(c) /\ todo[c] # {} /\ Owed(c)
    BY <2>1 DEF Storing, Owed
  <2>4. Account
    BY <2>1, <2>2, <2>3 DEF Account
  <2>5. map = "RATE_LIMIT_MAP" => Private
    BY <2>1, <2>b DEF Private
  <2>6. ~present => Vacant
    BY <2>1, <2>2, <2>3, <2>b DEF Vacant
  <2> QED
    BY <2>3, <2>4, <2>5, <2>6 DEF Paid
<1>2. BInv /\ Paid => RateBound
  <2> SUFFICES ASSUME BInv, Paid PROVE RateBound
    OBVIOUS
  <2> USE BucketAssumption
  <2>0. map \in Maps /\ raced \in BOOLEAN /\ present \in BOOLEAN
    BY DEF BInv, TypeOK
  <2>1. ASSUME raced = TRUE PROVE map = "LOG_RATE_LIMIT_MAP"
    BY <2>0, <2>1 DEF Paid, Private
  <2>2. ASSUME raced = FALSE PROVE admitted <= Budget(1 + evictions, now)
    <3>0. /\ last_update_ns \in Nat /\ now \in Nat /\ last_update_ns <= now
          /\ tokens \in Nat /\ admitted \in Nat /\ evictions \in Nat
          /\ 1 + evictions \in Nat /\ users \subseteq CPUs
          /\ \A c \in CPUs : newTokens[c] \in Nat /\ now_ns[c] \in Nat
                               /\ now_ns[c] <= now
      BY DEF BInv, TypeOK
    <3>1. /\ Budget(1 + evictions, last_update_ns) <= Budget(1 + evictions, now)
          /\ Budget(1 + evictions, last_update_ns) \in Nat
          /\ Budget(1 + evictions, now) \in Nat
      BY <3>0, BudgetMonotone, BudgetType
    <3>2. ASSUME NEW c \in CPUs
          PROVE  /\ Budget(1 + evictions, now_ns[c]) <= Budget(1 + evictions, now)
                 /\ Budget(1 + evictions, now_ns[c]) \in Nat
                 /\ Budget(evictions, now_ns[c]) <= Budget(1 + evictions, now_ns[c])
                 /\ Budget(evictions, now_ns[c]) \in Nat
      <4>1. Budget(1 + evictions, now_ns[c]) <= Budget(1 + evictions, now)
        BY <3>0, BudgetMonotone
      <4>2. Budget(evictions, now_ns[c]) + BurstCapacity = Budget(1 + evictions, now_ns[c])
        BY <3>0, BudgetBurst
      <4>3. Budget(1 + evictions, now_ns[c]) \in Nat /\ Budget(evictions, now_ns[c]) \in Nat
        BY <3>0, BudgetType
      <4> QED
        BY <4>1, <4>2, <4>3
    <3>3. CASE \E c \in CPUs : Storing(c)
      <4>1. PICK c \in CPUs : Storing(c)
        BY <3>3
      <4>2. Owed(c)
        BY <2>2, <4>1 DEF Paid, Account
      <4> QED
        BY <3>0, <3>1, <3>2, <4>1, <4>2, Kinds DEF Owed
    <3>4. CASE present /\ \A c \in CPUs : ~Storing(c)
      BY <2>2, <3>0, <3>1, <3>4 DEF Paid, Account
    <3>5. CASE ~present
      <4>1. Vacant
        BY <3>5 DEF Paid
      <4>2. users # {}
        BY <4>1 DEF Paid, Private, Vacant
      <4>3. PICK c \in users : TRUE
        BY <4>2
      <4>4. c \in CPUs /\ admitted <= Budget(evictions, now_ns[c])
        BY <3>0, <4>1, <4>3 DEF Vacant
      <4>5. /\ Budget(1 + evictions, now_ns[c]) <= Budget(1 + evictions, now)
            /\ Budget(1 + evictions, now_ns[c]) \in Nat
            /\ Budget(evictions, now_ns[c]) <= Budget(1 + evictions, now_ns[c])
            /\ Budget(evictions, now_ns[c]) \in Nat
        BY <3>2, <4>4
      <4> QED
        BY <3>0, <3>1, <4>4, <4>5
    <3> QED
      BY <3>3, <3>4, <3>5
  <2>3. (1 + evictions) * BurstCapacity + now \div NanosPerToken
          = Budget(1 + evictions, now)
    BY DEF Budget
  <2> QED
    BY <2>0, <2>1, <2>2, <2>3 DEF RateBound
<1> QED
  BY <1>1, <1>2, InitBInv, StepBInv, StepPaid, PTL DEF Spec

-----------------------------------------------------------------------------
(* A refusal is never far from an admission.                               *)

\* The clock of the entry, stored or about to be, is the arrival of a packet
\* that was let through.
Stamped ==
  /\ last_update_ns <= lastAdmitted
  /\ \A c \in CPUs : "last" \in todo[c] => now_ns[c] <= lastAdmitted

\* Only an admission moves the entry's clock.
LEMMA StepStamped == BInv /\ Stamped /\ [Next]_vars => Stamped'
<1> SUFFICES ASSUME BInv, Stamped, [Next]_vars PROVE Stamped'
  OBVIOUS
<1>0. /\ now_ns \in [CPUs -> Nat] /\ last_update_ns \in Nat /\ lastAdmitted \in Nat
      /\ todo \in [CPUs -> {{"idle"}, {"check"}} \cup SUBSET Stores] /\ now \in Nat
  BY BucketAssumption DEF BInv, TypeOK
<1>1. ASSUME NEW c \in CPUs, Arrive(c) PROVE Stamped'
  BY <1>0, <1>1 DEF Arrive, Stamped
<1>2. ASSUME NEW c \in CPUs, Admit(c)
      PROVE  lastAdmitted' \in Nat /\ lastAdmitted <= lastAdmitted'
             /\ now_ns[c] <= lastAdmitted'
  BY <1>0, <1>2 DEF Admit
<1>3. ASSUME NEW c \in CPUs, CheckAdmits(c) PROVE Stamped'
  <2>1. /\ now_ns' = now_ns /\ last_update_ns' = last_update_ns /\ Admit(c)
        /\ \A d \in CPUs \ {c} : todo'[d] = todo[d]
    BY <1>0, <1>3 DEF CheckAdmits
  <2> QED
    BY <1>0, <1>2, <2>1 DEF Stamped
<1>4. ASSUME NEW c \in CPUs, CheckRefuses(c) PROVE Stamped'
  BY <1>0, <1>4 DEF CheckRefuses, Stamped
<1>5. ASSUME NEW c \in CPUs, CheckInserts(c) PROVE Stamped'
  <2>1. /\ now_ns' = now_ns /\ last_update_ns' = now_ns[c] /\ Admit(c)
        /\ todo' = [todo EXCEPT ![c] = {"idle"}]
    BY <1>5, Zenon DEF CheckInserts
  <2> QED
    BY <1>0, <1>2, <2>1 DEF Stamped
<1>6. ASSUME NEW c \in CPUs, NEW field \in Stores, Store(c, field) PROVE Stamped'
  <2>1. now_ns' = now_ns /\ lastAdmitted' = lastAdmitted
        /\ \A d \in CPUs : "last" \in todo'[d] => "last" \in todo[d]
    BY <1>0, <1>6 DEF Store
  <2>2. last_update_ns' = last_update_ns
        \/ ("last" \in todo[c] /\ last_update_ns' = now_ns[c])
    BY <1>6 DEF Store
  <2> QED
    BY <2>1, <2>2 DEF Stamped
<1>7. CASE Evict
  <2>1. /\ now_ns' = now_ns /\ lastAdmitted' = lastAdmitted /\ last_update_ns' = 0
        /\ todo' = [c \in CPUs |-> IF Storing(c) THEN {"idle"} ELSE todo[c]]
    BY <1>7, Zenon DEF Evict
  <2> QED
    BY <1>0, <2>1 DEF Stamped
<1>8. CASE Tick
  BY <1>8 DEF Tick, Stamped
<1>9. CASE UNCHANGED vars
  BY <1>9 DEF vars, Stamped
<1> QED
  BY <1>1, <1>3, <1>4, <1>5, <1>6, <1>7, <1>8, <1>9, UsersAreCPUs DEF Next

\* An entry without a token, refilled or not, was stamped less than one
\* period before the packet.
LEMMA RefusedSoon ==
  ASSUME BInv, Stamped, NEW c \in CPUs, Refilled(c) < 1
  PROVE  now_ns[c] < lastAdmitted + NanosPerToken
<1> USE BucketAssumption
<1>0. /\ now_ns[c] \in Nat /\ last_update_ns \in Nat /\ lastAdmitted \in Nat
      /\ tokens \in Nat /\ last_update_ns <= lastAdmitted
  BY DEF BInv, TypeOK, Stamped
<1>1. Earned(c) = 0
  BY <1>0, RefillBounds DEF BInv, Refilled
<1>2. CASE now_ns[c] > last_update_ns
  <2> DEFINE d == now_ns[c] - last_update_ns
  <2>1. d \in Nat /\ d \div NanosPerToken = 0
    BY <1>0, <1>1, <1>2 DEF Earned
  <2>2. d < (d \div NanosPerToken) * NanosPerToken + NanosPerToken
    BY <2>1, DivBounds
  <2>3. d < NanosPerToken
    BY <2>1, <2>2
  <2> QED
    BY <1>0, <2>3
<1> QED
  BY <1>0, <1>2

\* A packet is refused only within one period of an admission, whatever the
\* CPUs interleave and however often the entry is evicted.
THEOREM NoStarvation == Spec => NeverStarved
<1>1. Init => Stamped
  BY DEF Init, Stamped
<1>2. ASSUME BInv, Stamped, [Next]_vars, NEW c \in CPUs,
             todo[c] = {"check"}, todo'[c] = {"idle"}, admitted' = admitted
      PROVE  now_ns[c] < lastAdmitted + NanosPerToken
  <2> USE <1>2
  <2>0. admitted \in Nat /\ todo \in [CPUs -> {{"idle"}, {"check"}} \cup SUBSET Stores]
    BY BucketAssumption DEF BInv, TypeOK
  <2>1. ASSUME NEW d \in CPUs, Arrive(d) PROVE FALSE
    BY <2>0, <2>1 DEF Arrive
  <2>2. ASSUME NEW d \in CPUs, CheckAdmits(d) \/ CheckInserts(d) PROVE FALSE
    <3>1. admitted' = admitted + 1
      BY <2>2, Zenon DEF CheckAdmits, CheckInserts, Admit
    <3> QED
      BY <2>0, <3>1
  <2>3. ASSUME NEW d \in CPUs, NEW field \in Stores, Store(d, field) PROVE FALSE
    BY <2>0, <2>3 DEF Store
  <2>4. ASSUME Evict PROVE FALSE
    <3>1. todo'[c] = todo[c]
      BY <2>4 DEF Evict, Storing
    <3> QED
      BY <3>1
  <2>5. ASSUME Tick \/ UNCHANGED vars PROVE FALSE
    BY <2>5 DEF Tick, vars
  <2>6. PICK d \in CPUs : CheckRefuses(d)
    BY <2>1, <2>2, <2>3, <2>4, <2>5, UsersAreCPUs DEF Next
  <2>7. d = c
    BY <2>0, <2>6 DEF CheckRefuses
  <2> QED
    BY <2>6, <2>7, RefusedSoon DEF CheckRefuses
<1>3. BInv /\ Stamped /\ [Next]_vars =>
        [\A c \in CPUs :
           todo[c] = {"check"} /\ todo'[c] = {"idle"} /\ admitted' = admitted
             => now_ns[c] < lastAdmitted + NanosPerToken]_vars
  BY <1>2
<1> QED
  BY <1>1, <1>3, StepStamped, InitBInv, StepBInv, PTL DEF Spec, NeverStarved
=============================================================================
