------------------------ MODULE MCFeedbackController ------------------------
(***************************************************************************)
(* Instances of FeedbackController for TLC.  h1 and h2 are ordinary hosts; *)
(* gw is the gateway, which discovery may or may not find; lo stands for   *)
(* the static safe networks; net is a prefix an operator blocks.           *)
(***************************************************************************)
EXTENDS FeedbackController

CONSTANTS h1, h2, gw, lo, net

TwoHosts == {h1, h2}
AllHosts == {h1, gw, lo}
Nets == {net}
NoHosts == {}
Gateway == {gw}
Loopback == {lo}
NoFailure == {}
AnyFailure == {"insert", "replace", "delete"}
=============================================================================
