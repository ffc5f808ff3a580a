----------------------------- MODULE MCDataPlane -----------------------------
(***************************************************************************)
(* Small instances of Telemetry for TLC: hosts of which some are also      *)
(* covered by a network, a well-known and an ephemeral port, and one       *)
(* packet for each way through the program.                                *)
(***************************************************************************)
EXTENDS Telemetry, TLC

CONSTANTS a, lo, zero, hostA, net

AllHosts == {a, lo, zero}
LoopbackHosts == {lo}
HostAndNet == {hostA, net}
Overlapping == (hostA :> {a}) @@ (net :> {a, lo})

\* The network is written with host bits set, as an operator may.
Addresses == (a :> <<64, 9, 0, 5>>) @@ (lo :> <<127, 0, 0, 1>>) @@ (zero :> <<0, 0, 0, 0>>)
HostAndNetKeys == (hostA :> HostKey(<<64, 9, 0, 5>>)) @@ (net :> NewLpmKey(<<64, 9, 0, 5>>, 2))

TwoPorts == {80, 40000}
OnOff == {0, 3}

Request == [eth_type |-> "ipv4", intact |-> TRUE, is_fragment |-> FALSE,
            proto |-> "tcp", l4ok |-> TRUE, src_ip |-> a, dst_ip |-> zero,
            dst_port |-> 80, flags |-> {"SYN"}]

\* What the maps decide first, then what the headers decide.
AllPackets ==
  { Request,
    [Request EXCEPT !.proto = "udp", !.flags = {}],
    [Request EXCEPT !.proto = "udp", !.dst_port = 40000, !.flags = {}],
    [Request EXCEPT !.is_fragment = TRUE],
    [Request EXCEPT !.eth_type = "short"],
    [Request EXCEPT !.eth_type = "arp"],
    [Request EXCEPT !.eth_type = "arp", !.intact = FALSE],
    [Request EXCEPT !.eth_type = "other"],
    [Request EXCEPT !.intact = FALSE],
    [Request EXCEPT !.l4ok = FALSE],
    [Request EXCEPT !.l4ok = FALSE, !.proto = "udp"],
    [Request EXCEPT !.proto = "other", !.flags = {}],
    [Request EXCEPT !.dst_ip = a],
    [Request EXCEPT !.src_ip = lo, !.dst_ip = lo, !.flags = {"SYN", "ACK"}],
    [Request EXCEPT !.src_ip = zero, !.dst_ip = zero, !.flags = {"ECE"}],
    [Request EXCEPT !.flags = {"SYN", "FIN", "ACK"}],
    [Request EXCEPT !.flags = {"FIN", "PSH", "URG"}] }
=============================================================================
