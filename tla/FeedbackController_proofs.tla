---------------------- MODULE FeedbackController_proofs ----------------------
(***************************************************************************)
(* What the closed loop promises for any hosts, trie size, TTL, sweep      *)
(* period and failures.                                                    *)
(***************************************************************************)
EXTENDS FeedbackController, TLAPS

\* What holds around the controller's system calls.
Calls ==
  /\ pc \in {"put", "forget"} => cur \in blocked
  /\ pc = "put" => cur \notin safeNetworks
  /\ pc = "forget" => cur \notin expired
  /\ pc = "stopped" => blocked = {}

\* What holds of runJanitor's list.
Sweeps ==
  /\ expired \subseteq {ip \in blocked : remaining[ip] < 0}
  /\ pc \in {"stopped", "select", "put"} => expired = {}

\* The inductive invariant behind the safety theorems.
IInv == TypeOK /\ Calls /\ Sweeps /\ TrackedIsBlocked

\* Its extension for the accounting: a host whose removal is under way is in
\* the map only if an operator put it back.
Accounted ==
  /\ BlocksAccounted
  /\ pc = "forget" => cur \notin reputationMap \ manual

\* Its extension for the delay: what is not being removed, or about to be,
\* was not expired at the last sweep, which was in the current period.
OnTime ==
  \A ip \in blocked \ refused :
    \/ remaining[ip] >= sweepIn - janitorInterval
    \/ tickPending
    \/ ip \in expired
    \/ pc = "forget" /\ cur = ip

-----------------------------------------------------------------------------
USE DEF kernel, registry, ticker, history, Keys

\* The countdown of a fresh record, and of no record, is in range.
LEMMA CountdownRange ==
  /\ 0 \in Overdue .. BlockTTL
  /\ BlockTTL \in Overdue .. BlockTTL
BY ConstantsAssumption DEF Overdue

\* Every state the program starts in satisfies the invariant.
LEMMA InitIInv == Init => IInv
<1> SUFFICES ASSUME Init PROVE IInv
  OBVIOUS
<1>1. remaining \in [IPs -> Overdue .. BlockTTL]
  BY CountdownRange DEF Init
<1>2. tickPending \in BOOLEAN /\ pc \in {"stopped"} /\ cur = Malformed
  BY Zenon DEF Init
<1>3. sweepIn \in 1 .. janitorInterval /\ stops \in 0 .. MaxStops
  BY ConstantsAssumption DEF Init
<1>4. TypeOK
  BY <1>1, <1>2, <1>3, Zenon DEF Init, TypeOK
<1>5. Calls /\ Sweeps /\ TrackedIsBlocked
  BY DEF Init, Calls, Sweeps, TrackedIsBlocked
<1> QED
  BY <1>4, <1>5 DEF IInv

\* Each step of the controller, of an operator or of the clock preserves it.
LEMMA StepIInv == IInv /\ [Next]_vars => IInv'
<1> SUFFICES ASSUME IInv, [Next]_vars PROVE IInv'
  OBVIOUS
<1> USE ConstantsAssumption
<1>0. TypeOK /\ Calls /\ Sweeps /\ TrackedIsBlocked
  BY DEF IInv
<1>1. CASE Start
  <2> USE <1>0, <1>1 DEF Start
  <2>a. safeNetworks' \subseteq IPs /\ sweepIn' \in 1 .. janitorInterval
    OBVIOUS
  <2>b. tickPending' \in BOOLEAN
    BY Zenon
  <2>1. TypeOK'
    BY <2>a, <2>b, Zenon DEF TypeOK
  <2>2. Calls'
    BY DEF Calls
  <2>3. Sweeps'
    BY DEF Sweeps, Calls
  <2>4. TrackedIsBlocked'
    BY DEF TrackedIsBlocked, Calls
  <2> QED
    BY <2>1, <2>2, <2>3, <2>4 DEF IInv
<1>2. ASSUME NEW ip \in IPs, HandleRecord(ip) PROVE IInv'
  <2> USE <1>0, <1>2 DEF HandleRecord
  <2>1. TypeOK'
    BY DEF TypeOK, Overdue
  <2>2. Calls'
    BY DEF Calls
  <2>3. Sweeps'
    BY DEF Sweeps
  <2>4. TrackedIsBlocked'
    BY DEF TrackedIsBlocked
  <2> QED
    BY <2>1, <2>2, <2>3, <2>4 DEF IInv
<1>3. CASE HandleBlocked
  <2> USE <1>0, <1>3 DEF HandleBlocked, BlockIP
  <2>1. TypeOK'
    BY DEF TypeOK, Calls
  <2>2. Calls'
    BY DEF Calls
  <2>3. Sweeps'
    BY DEF Sweeps
  <2>4. TrackedIsBlocked'
    BY DEF TrackedIsBlocked
  <2> QED
    BY <2>1, <2>2, <2>3, <2>4 DEF IInv
<1>4. CASE HandleFailed
  <2> USE <1>0, <1>4 DEF HandleFailed
  <2>0. remaining' \in [IPs -> Overdue .. BlockTTL]
    BY CountdownRange DEF TypeOK
  <2>1. TypeOK'
    BY <2>0 DEF TypeOK
  <2>2. Calls'
    BY DEF Calls
  <2>3. Sweeps'
    BY DEF Sweeps
  <2>4. TrackedIsBlocked'
    BY DEF TrackedIsBlocked
  <2> QED
    BY <2>1, <2>2, <2>3, <2>4 DEF IInv
<1>5. CASE JanitorSweep
  <2> USE <1>0, <1>5 DEF JanitorSweep
  <2>1. TypeOK'
    BY DEF TypeOK
  <2>2. Calls'
    BY DEF Calls
  <2>3. Sweeps'
    BY DEF Sweeps
  <2>4. TrackedIsBlocked'
    BY DEF TrackedIsBlocked
  <2> QED
    BY <2>1, <2>2, <2>3, <2>4 DEF IInv
<1>6. ASSUME NEW ip \in IPs, JanitorUnblock(ip) PROVE IInv'
  <2> USE <1>0, <1>6 DEF JanitorUnblock, UnblockIP
  <2>1. TypeOK'
    BY DEF TypeOK
  <2>2. Calls'
    BY DEF Calls, Sweeps
  <2>3. Sweeps'
    BY DEF Sweeps
  <2>4. TrackedIsBlocked'
    BY DEF TrackedIsBlocked
  <2> QED
    BY <2>1, <2>2, <2>3, <2>4 DEF IInv
<1>7. CASE JanitorForget
  <2> USE <1>0, <1>7 DEF JanitorForget
  <2>0. remaining' \in [IPs -> Overdue .. BlockTTL]
    BY CountdownRange DEF TypeOK
  <2>1. TypeOK'
    BY <2>0 DEF TypeOK
  <2>2. Calls'
    BY DEF Calls
  <2>3. Sweeps'
    BY DEF Sweeps, Calls, TypeOK
  <2>4. TrackedIsBlocked'
    BY DEF TrackedIsBlocked
  <2> QED
    BY <2>1, <2>2, <2>3, <2>4 DEF IInv
<1>8. ASSUME NEW ip \in IPs, JanitorFailed(ip) PROVE IInv'
  <2> USE <1>0, <1>8 DEF JanitorFailed
  <2>1. TypeOK'
    BY DEF TypeOK
  <2>2. Calls'
    BY DEF Calls
  <2>3. Sweeps'
    BY DEF Sweeps
  <2>4. TrackedIsBlocked'
    BY DEF TrackedIsBlocked
  <2> QED
    BY <2>1, <2>2, <2>3, <2>4 DEF IInv
<1>9. CASE Stop \/ Crash
  <2> USE <1>0, <1>9 DEF Stop, Crash, LoseRegistry
  <2>1. TypeOK'
    BY DEF TypeOK, Overdue
  <2>2. Calls'
    BY DEF Calls
  <2>3. Sweeps'
    BY DEF Sweeps
  <2>4. TrackedIsBlocked'
    BY DEF TrackedIsBlocked
  <2> QED
    BY <2>1, <2>2, <2>3, <2>4 DEF IInv
<1>10. ASSUME NEW k \in Keys, OperatorBlock(k) PROVE IInv'
  <2> USE <1>0, <1>10 DEF OperatorBlock, BlockIP
  <2>1. TypeOK'
    BY DEF TypeOK
  <2>2. Calls'
    BY DEF Calls
  <2>3. Sweeps'
    BY DEF Sweeps
  <2>4. TrackedIsBlocked'
    BY DEF TrackedIsBlocked
  <2> QED
    BY <2>1, <2>2, <2>3, <2>4 DEF IInv
<1>11. CASE Tick
  <2> USE <1>0, <1>11 DEF Tick
  <2>1. TypeOK'
    BY DEF TypeOK, Overdue
  <2>2. Calls'
    BY DEF Calls
  <2>3. Sweeps'
    BY DEF Sweeps, TypeOK, Overdue
  <2>4. TrackedIsBlocked'
    BY DEF TrackedIsBlocked
  <2> QED
    BY <2>1, <2>2, <2>3, <2>4 DEF IInv
<1>12. CASE UNCHANGED vars
  BY <1>0, <1>12
     DEF vars, IInv, TypeOK, Calls, Sweeps, TrackedIsBlocked
<1> QED
  BY <1>1, <1>2, <1>3, <1>4, <1>5, <1>6, <1>7, <1>8, <1>9, <1>10, <1>11,
     <1>12
     DEF Next, HandleIgnored, OperatorFails

\* The invariant holds in every reachable state.
THEOREM Invariance == Spec => []IInv
BY InitIInv, StepIInv, PTL DEF Spec

\* Every variable keeps its type, whatever the constants.
THEOREM TypeCorrect == Spec => []TypeOK
<1>1. IInv => TypeOK
  BY DEF IInv
<1> QED
  BY <1>1, Invariance, PTL

\* A host whose alerts handle suppresses is one the kernel drops, over
\* crashes, restarts and every failing system call.
THEOREM SuppressedIsBlocked == Spec => []TrackedIsBlocked
<1>1. IInv => TrackedIsBlocked
  BY DEF IInv
<1> QED
  BY <1>1, Invariance, PTL

\* No entry leaves the kernel map before its record has expired.
THEOREM NoEarlyUnblock == Spec => UnblockOnlyExpired
<1> DEFINE A == \A ip \in IPs : ip \in reputationMap /\ ip \notin reputationMap'
                  => ip \in blocked /\ remaining[ip] < 0
<1>1. IInv /\ [Next]_vars => A
  <2> SUFFICES ASSUME IInv, [Next]_vars PROVE A
    OBVIOUS
  <2>1. ASSUME NEW ip \in IPs, JanitorUnblock(ip) PROVE A
    BY <2>1 DEF JanitorUnblock, UnblockIP, IInv, Sweeps
  <2> QED
    BY <2>1 DEF Next, vars, Start, HandleIgnored, HandleRecord, HandleBlocked,
       HandleFailed, JanitorSweep, JanitorForget, JanitorFailed, Stop, Crash,
       LoseRegistry, OperatorBlock, OperatorFails, Tick, BlockIP
<1> QED
  BY <1>1, Invariance, PTL DEF Spec, UnblockOnlyExpired

\* No auto-block ever hits a host of the safe-network registry.
THEOREM InfrastructureProtected == Spec => ExemptNeverPushed
<1> DEFINE A == \A ip \in safeNetworks :
                  ip \notin reputationMap /\ ip \in reputationMap'
                    => ip \in manual'
<1>1. IInv /\ [Next]_vars => A
  <2> SUFFICES ASSUME IInv, [Next]_vars PROVE A
    OBVIOUS
  <2>1. CASE HandleBlocked
    BY <2>1 DEF HandleBlocked, BlockIP, IInv, Calls
  <2>2. ASSUME NEW k \in Keys, OperatorBlock(k) PROVE A
    BY <2>2 DEF OperatorBlock, BlockIP
  <2>3. ASSUME NEW ip \in IPs, JanitorUnblock(ip) PROVE A
    BY <2>3 DEF JanitorUnblock, UnblockIP
  <2> QED
    BY <2>1, <2>2, <2>3 DEF Next, vars, Start, HandleIgnored, HandleRecord,
       HandleFailed, JanitorSweep, JanitorForget, JanitorFailed, Stop, Crash,
       LoseRegistry, OperatorFails, Tick
<1> QED
  BY <1>1, Invariance, PTL DEF Spec, ExemptNeverPushed

-----------------------------------------------------------------------------
(* Every entry is accounted for.                                           *)

\* Each step preserves the accounting of host entries.
LEMMA StepAccounted == IInv /\ Accounted /\ [Next]_vars => Accounted'
<1> SUFFICES ASSUME IInv, Accounted, [Next]_vars PROVE Accounted'
  OBVIOUS
<1> USE ConstantsAssumption DEF Accounted, BlocksAccounted
<1>0. TypeOK /\ Calls /\ Sweeps
  BY DEF IInv
<1>1. CASE Start
  BY <1>1 DEF Start
<1>2. ASSUME NEW ip \in IPs, HandleRecord(ip) PROVE Accounted'
  BY <1>2 DEF HandleRecord
<1>3. CASE HandleBlocked
  BY <1>3, <1>0 DEF HandleBlocked, BlockIP, Calls
<1>4. CASE HandleFailed
  BY <1>4 DEF HandleFailed
<1>5. CASE JanitorSweep
  BY <1>5 DEF JanitorSweep
<1>6. ASSUME NEW ip \in IPs, JanitorUnblock(ip) PROVE Accounted'
  BY <1>6 DEF JanitorUnblock, UnblockIP
<1>7. CASE JanitorForget
  BY <1>7 DEF JanitorForget
<1>8. ASSUME NEW ip \in IPs, JanitorFailed(ip) PROVE Accounted'
  BY <1>8 DEF JanitorFailed
<1>9. CASE Stop \/ Crash
  BY <1>9 DEF Stop, Crash, LoseRegistry
<1>10. ASSUME NEW k \in Keys, OperatorBlock(k) PROVE Accounted'
  BY <1>10 DEF OperatorBlock, BlockIP
<1>11. CASE Tick
  BY <1>11 DEF Tick
<1>12. CASE UNCHANGED vars
  BY <1>12 DEF vars
<1> QED
  BY <1>1, <1>2, <1>3, <1>4, <1>5, <1>6, <1>7, <1>8, <1>9, <1>10, <1>11,
     <1>12
     DEF Next, HandleIgnored, OperatorFails

\* Every host entry of the map is an operator's, has a record that a later
\* sweep will find, or lost its record to a restart or a refused overwrite,
\* over any number of restarts and whatever else fails.
THEOREM NoLostBlock == Spec => []BlocksAccounted
<1>1. Init => Accounted
  BY DEF Init, Accounted, BlocksAccounted
<1>2. Accounted => BlocksAccounted
  BY DEF Accounted
<1> QED
  BY <1>1, <1>2, StepAccounted, Invariance, PTL DEF Spec

-----------------------------------------------------------------------------
(* No sweep is missed for a dropped tick.                                  *)

\* Each step preserves the bound on the delay.
LEMMA StepOnTime == IInv /\ OnTime /\ [Next]_vars => OnTime'
<1> SUFFICES ASSUME IInv, OnTime, [Next]_vars PROVE OnTime'
  OBVIOUS
<1> USE ConstantsAssumption DEF OnTime
<1>0. TypeOK /\ Calls /\ Sweeps
  BY DEF IInv
<1>1. CASE Start
  BY <1>1, <1>0 DEF Start, Calls
<1>2. ASSUME NEW ip \in IPs, HandleRecord(ip) PROVE OnTime'
  BY <1>2, <1>0 DEF HandleRecord, TypeOK
<1>3. CASE HandleBlocked
  BY <1>3, <1>0 DEF HandleBlocked
<1>4. CASE HandleFailed
  BY <1>4, <1>0 DEF HandleFailed, TypeOK
<1>5. CASE JanitorSweep
  BY <1>5, <1>0 DEF JanitorSweep, TypeOK
<1>6. ASSUME NEW ip \in IPs, JanitorUnblock(ip) PROVE OnTime'
  BY <1>6, <1>0 DEF JanitorUnblock
<1>7. CASE JanitorForget
  BY <1>7, <1>0 DEF JanitorForget, TypeOK
<1>8. ASSUME NEW ip \in IPs, JanitorFailed(ip) PROVE OnTime'
  BY <1>8 DEF JanitorFailed
<1>9. CASE Stop \/ Crash
  BY <1>9, <1>0 DEF Stop, Crash, LoseRegistry
<1>10. ASSUME NEW k \in Keys, OperatorBlock(k) PROVE OnTime'
  BY <1>10 DEF OperatorBlock
<1>11. CASE Tick
  <2> USE <1>0, <1>11 DEF Tick
  <2>1. CASE tickPending \/ sweepIn = 1
    BY <2>1, Zenon
  <2>2. CASE ~tickPending /\ sweepIn # 1
    <3> SUFFICES ASSUME NEW ip \in blocked \ refused, ip \notin expired,
                        ~(pc = "forget" /\ cur = ip)
                 PROVE  remaining'[ip] >= sweepIn' - janitorInterval
      OBVIOUS
    <3>1. ip \in IPs /\ remaining[ip] \in Int /\ sweepIn \in 1 .. janitorInterval
      BY DEF TypeOK, Overdue
    <3>2. remaining[ip] >= sweepIn - janitorInterval
      BY <2>2
    <3>3. sweepIn' = sweepIn - 1
      BY <2>2
    <3>4. remaining'[ip] = remaining[ip] - 1
      BY <3>1, <3>2 DEF Overdue
    <3> QED
      BY <3>1, <3>2, <3>3, <3>4
  <2> QED
    BY <2>1, <2>2
<1>12. CASE UNCHANGED vars
  BY <1>12 DEF vars
<1> QED
  BY <1>1, <1>2, <1>3, <1>4, <1>5, <1>6, <1>7, <1>8, <1>9, <1>10, <1>11,
     <1>12
     DEF Next, HandleIgnored, OperatorFails

\* No block outlives its TTL by more than one janitorInterval, for any TTL
\* and interval, unless the loop is kept busy or the kernel refuses.
THEOREM DelayBound == Spec => []UnblockDelayBounded
<1>1. Init => OnTime
  BY DEF Init, OnTime
<1>2. IInv /\ OnTime => UnblockDelayBounded
  <2> SUFFICES ASSUME IInv, OnTime,
                      NEW ip \in blocked \ refused,
                      remaining[ip] >= sweepIn - janitorInterval
               PROVE  remaining[ip] >= 0 - janitorInterval
    BY DEF OnTime, UnblockDelayBounded
  <2> QED
    BY ConstantsAssumption DEF IInv, TypeOK, Overdue
<1> QED
  BY <1>1, <1>2, StepOnTime, Invariance, PTL DEF Spec

-----------------------------------------------------------------------------
(* The controller implements Blocklist, over every failure and restart.    *)

\* Each step of the controller is one step of the lease service, or none.
LEMMA StepLeases == IInv /\ [Next]_vars => [Leases!Next]_(Leases!vars)
<1> SUFFICES ASSUME IInv, [Next]_vars PROVE [Leases!Next]_(Leases!vars)
  OBVIOUS
<1> USE ConstantsAssumption DEF Settled
<1>0. TypeOK /\ Calls /\ Sweeps
  BY DEF IInv
<1>t. blocked \subseteq IPs /\ remaining \in [IPs -> Int] /\ Malformed \notin IPs
  BY <1>0 DEF TypeOK, Overdue
<1>1. CASE Start
  <2>1. blocked = {} /\ blocked' = {} /\ pc = "stopped" /\ pc' = "select"
    BY <1>1, <1>0 DEF Start, Calls
  <2>2. safeNetworks' \in SUBSET IPs /\ reputationMap' = reputationMap
    BY <1>1 DEF Start
  <2>3. Leases!Restart
    BY <2>1, <2>2 DEF Leases!Restart
  <2> QED
    BY <2>3 DEF Leases!Next
<1>2. ASSUME NEW ip \in IPs, HandleRecord(ip) PROVE Leases!Next
  <2> USE <1>2, <1>t DEF HandleRecord
  <2>1. ip \notin safeNetworks /\ ~(ip \in blocked /\ remaining[ip] > 0)
    OBVIOUS
  <2>2. \A h \in IPs : h # ip => remaining'[h] = remaining[h]
    OBVIOUS
  <2>3. Leases!Request(ip)
    BY <2>1, <2>2 DEF Leases!Request
  <2> QED
    BY <2>3 DEF Leases!Next
<1>3. CASE HandleBlocked
  <2> USE <1>3, <1>t DEF HandleBlocked, BlockIP
  <2>1. cur \in blocked /\ cur \in IPs /\ pc = "put" /\ pc' = "select"
    BY <1>0 DEF Calls
  <2>2. PICK h \in IPs : h = cur
    BY <2>1
  <2>3. Leases!Grant(h)
    <3>1. CASE remaining[h] > 0
      BY <3>1, <2>1, <2>2 DEF Leases!Grant
    <3>2. CASE remaining[h] <= 0
      BY <3>2, <2>1, <2>2 DEF Leases!Grant
    <3> QED
      BY <3>1, <3>2
  <2> QED
    BY <2>3 DEF Leases!Next
<1>4. CASE HandleFailed
  <2> USE <1>4, <1>t DEF HandleFailed
  <2>1. cur \in IPs /\ pc = "put" /\ pc' = "select"
    BY <1>0 DEF Calls
  <2>2. PICK h \in IPs : h = cur
    BY <2>1
  <2>3. \A g \in IPs : g # h => remaining'[g] = remaining[g]
    BY <2>2
  <2>4. Leases!Refuse(h)
    BY <2>1, <2>2, <2>3 DEF Leases!Refuse
  <2> QED
    BY <2>4 DEF Leases!Next
<1>5. CASE JanitorSweep
  BY <1>5 DEF JanitorSweep, Leases!vars
<1>6. ASSUME NEW ip \in IPs, JanitorUnblock(ip) PROVE Leases!Next
  <2> USE <1>6, <1>t DEF JanitorUnblock, UnblockIP
  <2>1. ip \in blocked /\ remaining[ip] < 0 /\ pc = "sweep" /\ pc' = "forget"
    BY <1>0 DEF Sweeps
  <2>2. Leases!Lift(ip)
    BY <2>1 DEF Leases!Lift
  <2> QED
    BY <2>2 DEF Leases!Next
<1>7. CASE JanitorForget
  <2> USE <1>7, <1>t DEF JanitorForget
  <2>1. cur \in IPs /\ pc = "forget" /\ pc' \in {"select", "sweep"}
    BY <1>0 DEF Calls
  <2>2. \A h \in IPs : h # cur => remaining'[h] = remaining[h]
    OBVIOUS
  <2> QED
    BY <2>1, <2>2 DEF Leases!vars
<1>8. ASSUME NEW ip \in IPs, JanitorFailed(ip) PROVE UNCHANGED Leases!vars
  BY <1>8 DEF JanitorFailed, Leases!vars
<1>9. CASE Stop \/ Crash
  <2>1. Leases!Forget
    BY <1>9 DEF Stop, Crash, LoseRegistry, Leases!Forget
  <2> QED
    BY <2>1 DEF Leases!Next
<1>10. ASSUME NEW k \in Keys, OperatorBlock(k) PROVE Leases!Next
  <2>1. Leases!Order(k)
    BY <1>10 DEF OperatorBlock, BlockIP, Leases!Order
  <2> QED
    BY <2>1 DEF Leases!Next
<1>11. CASE Tick
  <2> USE <1>11, <1>t DEF Tick
  <2>1. PICK H \in SUBSET IPs :
          H = {ip \in Settled : remaining[ip] > 0 /\ remaining'[ip] <= 0}
    OBVIOUS
  <2>2. \A ip \in Settled : remaining[ip] \in Int /\ remaining'[ip] \in Int
                               /\ remaining'[ip] <= remaining[ip]
    BY DEF Overdue
  <2>3. Settled' = Settled
    OBVIOUS
  <2>4. Leases!Lapse(H)
    BY <2>1, <2>2, <2>3 DEF Leases!Lapse
  <2> QED
    BY <2>4 DEF Leases!Next
<1>12. CASE UNCHANGED vars
  BY <1>12 DEF vars, Leases!vars
<1> QED
  BY <1>1, <1>2, <1>3, <1>4, <1>5, <1>6, <1>7, <1>8, <1>9, <1>10, <1>11,
     <1>12
     DEF Next, HandleIgnored, OperatorFails

\* For any hosts, failures, TTL and number of restarts, what others see of
\* the controller is a service of atomic leases.
THEOREM LeaseService == Spec => ImplementsBlocklist
<1>1. Init => Leases!Init
  BY DEF Init, Leases!Init, Settled
<1>2. IInv /\ [Next]_vars => [Leases!Next]_(Leases!vars)
  BY StepLeases
<1> QED
  BY <1>1, <1>2, Invariance, PTL DEF Spec, ImplementsBlocklist, Leases!Spec
=============================================================================
