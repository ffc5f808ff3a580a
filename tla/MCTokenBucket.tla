---------------------------- MODULE MCTokenBucket ----------------------------
(***************************************************************************)
(* An instance of TokenBucket for TLC: two CPUs, which share the log       *)
(* limiter's entry; either may own an entry of the per-source limiter.     *)
(***************************************************************************)
EXTENDS TokenBucket

CONSTANTS c1, c2

TwoCPUs == {c1, c2}
=============================================================================
