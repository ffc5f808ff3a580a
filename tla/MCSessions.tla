----------------------------- MODULE MCSessions -----------------------------
(***************************************************************************)
(* Small instances of Sessions for TLC.                                    *)
(***************************************************************************)
EXTENDS Sessions

CONSTANTS d1, m1, l1

OneDaemon == {d1}
OneMonitor == {m1}
OneLoader == {l1}
TwoMaps == <<"config_map", "events">>
SomeNames == {"debug", "warn", "off", "verbose"}
LowAndHigh == {1, 3}
=============================================================================
