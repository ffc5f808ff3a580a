------------------------------ MODULE Blocklist ------------------------------
(***************************************************************************)
(* What the closed loop promises to those it blocks (BlockTTL and TC-08 in *)
(* user-space/pkg/engine/feedback.go): an auto-block is a lease.  It is    *)
(* requested, and then granted or refused; it is granted and lifted in one *)
(* indivisible step together with its kernel entry, never to an exempt     *)
(* host, and it is lifted only when its term is over.  Entry and lease     *)
(* part only when all leases are forgotten or a renewal is refused.        *)
(*                                                                         *)
(* FeedbackController, which needs a record, a system call and a sweep for *)
(* what is one step here, implements this specification.                   *)
(***************************************************************************)
CONSTANTS
  Hosts,   \* hosts that may be auto-blocked
  Keys     \* what an operator may block: hosts and networks

VARIABLES
  entries,  \* keys the kernel drops
  exempt,   \* hosts no lease may be granted to
  pending,  \* hosts a lease is requested for
  current,  \* hosts with a lease whose term runs
  over      \* hosts with a lease whose term is over

vars == <<entries, exempt, pending, current, over>>

Init ==
  entries = {} /\ exempt = {} /\ pending = {} /\ current = {} /\ over = {}

\* A host without a lease, or with one that is over, is to have a new one.
Request(h) ==
  /\ h \notin exempt \cup current
  /\ pending' = pending \cup {h}
  /\ over' = over \ {h}
  /\ UNCHANGED <<entries, exempt, current>>

\* The term counts from the request: a lease granted late may be over when
\* it begins.
Grant(h) ==
  /\ h \in pending
  /\ pending' = pending \ {h}
  /\ entries' = entries \cup {h}
  /\ \/ current' = current \cup {h} /\ UNCHANGED over
     \/ over' = over \cup {h} /\ UNCHANGED current
  /\ UNCHANGED exempt

Refuse(h) ==
  /\ h \in pending
  /\ pending' = pending \ {h}
  /\ UNCHANGED <<entries, exempt, current, over>>

\* Terms end.
Lapse(H) ==
  /\ H \subseteq current
  /\ current' = current \ H
  /\ over' = over \cup H
  /\ UNCHANGED <<entries, exempt, pending>>

Lift(h) ==
  /\ h \in over
  /\ over' = over \ {h}
  /\ entries' = entries \ {h}
  /\ UNCHANGED <<exempt, pending, current>>

\* An operator's entry is permanent and no lease.
Order(k) ==
  /\ entries' = entries \cup {k}
  /\ UNCHANGED <<exempt, pending, current, over>>

\* The leases are forgotten; their entries stay.
Forget ==
  /\ pending' = {} /\ current' = {} /\ over' = {}
  /\ UNCHANGED <<entries, exempt>>

\* A new start finds out whom to exempt.
Restart ==
  /\ pending = {} /\ current = {} /\ over = {}
  /\ exempt' \in SUBSET Hosts
  /\ UNCHANGED <<entries, pending, current, over>>

Next ==
  \/ \E h \in Hosts : Request(h) \/ Grant(h) \/ Refuse(h) \/ Lift(h)
  \/ \E H \in SUBSET Hosts : Lapse(H)
  \/ \E k \in Keys : Order(k)
  \/ Forget
  \/ Restart

Spec == Init /\ [][Next]_vars
=============================================================================
