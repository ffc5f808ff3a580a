---------------------------- MODULE Daemon_proofs ----------------------------
(***************************************************************************)
(* The daemon's pipeline for any number of flows and any sizes of its two  *)
(* channels: its types, that no malicious flow is lost between goroutines, *)
(* and that no goroutine sends on, or closes again, a closed channel.      *)
(***************************************************************************)
EXTENDS Daemon, FiniteSetTheorems, TLAPS

USE DEF reading, stopping, aggregating, inferring, acting

-----------------------------------------------------------------------------
(* A channel as a sequence.                                                *)

\* A send adds the element and nothing else.
LEMMA SendElements ==
  ASSUME NEW S, NEW s \in Seq(S), NEW x \in S
  PROVE  /\ Append(s, x) \in Seq(S) /\ Len(Append(s, x)) = Len(s) + 1
         /\ ToSet(Append(s, x)) = ToSet(s) \cup {x}
<1>1. /\ Append(s, x) \in Seq(S) /\ Len(Append(s, x)) = Len(s) + 1
      /\ DOMAIN s = 1 .. Len(s) /\ Len(s) \in Nat
      /\ DOMAIN Append(s, x) = 1 .. Len(s) + 1
      /\ Append(s, x)[Len(s) + 1] = x
      /\ \A i \in 1 .. Len(s) : Append(s, x)[i] = s[i]
  OBVIOUS
<1>2. ToSet(Append(s, x)) \subseteq ToSet(s) \cup {x}
  BY <1>1 DEF ToSet
<1>3. ToSet(s) \subseteq ToSet(Append(s, x)) /\ x \in ToSet(Append(s, x))
  BY <1>1 DEF ToSet
<1> QED
  BY <1>1, <1>2, <1>3

\* A receive takes the head and keeps the others.
LEMMA ReceiveElements ==
  ASSUME NEW S, NEW s \in Seq(S), s # <<>>
  PROVE  /\ Head(s) \in S /\ Tail(s) \in Seq(S) /\ Len(Tail(s)) = Len(s) - 1
         /\ ToSet(s) = {Head(s)} \cup ToSet(Tail(s))
<1>1. /\ Head(s) \in S /\ Tail(s) \in Seq(S) /\ Len(Tail(s)) = Len(s) - 1
      /\ Len(s) \in Nat /\ Len(s) >= 1 /\ DOMAIN s = 1 .. Len(s)
      /\ DOMAIN Tail(s) = 1 .. Len(s) - 1
      /\ Head(s) = s[1]
      /\ \A i \in 1 .. Len(s) - 1 : Tail(s)[i] = s[i + 1]
  OBVIOUS
<1>2. ToSet(s) \subseteq {Head(s)} \cup ToSet(Tail(s))
  <2> SUFFICES ASSUME NEW i \in 1 .. Len(s)
               PROVE  s[i] \in {Head(s)} \cup ToSet(Tail(s))
    BY <1>1 DEF ToSet
  <2>1. CASE i = 1
    BY <1>1, <2>1
  <2>2. CASE i # 1
    <3>1. i - 1 \in 1 .. Len(s) - 1 /\ Tail(s)[i - 1] = s[i]
      BY <1>1, <2>2
    <3> QED
      BY <1>1, <3>1 DEF ToSet
  <2> QED
    BY <2>1, <2>2
<1>3. {Head(s)} \cup ToSet(Tail(s)) \subseteq ToSet(s)
  BY <1>1 DEF ToSet
<1> QED
  BY <1>1, <1>2, <1>3

-----------------------------------------------------------------------------
(* The invariant.                                                          *)

Sets ==
  /\ unread \subseteq Flows /\ tracked \subseteq Flows /\ batch \subseteq Flows
  /\ handled \subseteq Malicious /\ dropped \subseteq Flows
  /\ sending \subseteq Malicious

Flags ==
  /\ readerClosed \in BOOLEAN /\ sigPending \in BOOLEAN /\ cancelled \in BOOLEAN
  /\ outClosed \in BOOLEAN /\ alertsClosed \in BOOLEAN

Counters ==
  /\ main \in {"read", "cancel", "wait", "returned"}
  /\ watcher \in {"wait", "cancel", "done"}
  /\ run \in {"loop", "final", "done"}
  /\ feedback \in {"loop", "done"}
  /\ inference \in {"recv", "send", "done"}

Channels ==
  /\ out \in Seq(Flows) /\ Len(out) <= outputBufferSize
  /\ alerts \in Seq(Malicious) /\ Len(alerts) <= alertBufferSize

\* Whoever sends on a channel is also who closes it, as its last act.
OwnersClose ==
  /\ run = "done" <=> outClosed
  /\ run = "done" => batch = {}
  /\ inference = "done" <=> alertsClosed
  /\ \/ inference = "send" /\ \E f \in Malicious : sending = {f}
     \/ inference # "send" /\ sending = {}

\* The inductive invariant.
DInv == Sets /\ Flags /\ Counters /\ Channels /\ OwnersClose /\ NoAlertLost

\* A daemon that has just started satisfies it.
LEMMA InitDInv == Init => DInv
<1> SUFFICES ASSUME Init PROVE DInv
  OBVIOUS
<1>1. Sets /\ Counters
  BY DaemonAssumption DEF Init, Sets, Counters
<1>2. Flags
  BY Zenon DEF Init, Flags
<1>3. Channels
  BY DaemonAssumption DEF Init, Channels
<1>4. OwnersClose
  BY Zenon DEF Init, OwnersClose
<1>5. NoAlertLost
  BY DaemonAssumption DEF Init, NoAlertLost
<1> QED
  BY <1>1, <1>2, <1>3, <1>4, <1>5 DEF DInv

\* Each step preserves it.
LEMMA StepDInv == DInv /\ [Next]_vars => DInv'
<1> SUFFICES ASSUME DInv, [Next]_vars PROVE DInv'
  OBVIOUS
<1> USE DaemonAssumption
<1>0. Sets /\ Flags /\ Counters /\ Channels /\ OwnersClose /\ NoAlertLost
  BY DEF DInv
<1>1. ASSUME NEW f \in Flows, Read(f) \/ ReadBad(f) PROVE DInv'
  <2>1. /\ UNCHANGED <<main, readerClosed, stopping, run, batch, out, outClosed,
                       inferring, alerts, acting>>
        /\ unread' = unread \ {f}
    BY <1>1 DEF Read, ReadBad
  <2>2. \/ tracked' = tracked \cup {f} /\ dropped' = dropped
        \/ dropped' = dropped \cup {f} /\ tracked' = tracked
    BY <1>1 DEF Read, ReadBad
  <2>3. Flags' /\ Counters' /\ Channels' /\ OwnersClose'
    BY <1>0, <2>1, Zenon DEF Flags, Counters, Channels, OwnersClose
  <2>4. Sets'
    BY <1>0, <2>1, <2>2 DEF Sets
  <2>5. NoAlertLost'
    BY <1>0, <2>1, <2>2, Zenon DEF NoAlertLost
  <2> QED
    BY <2>3, <2>4, <2>5 DEF DInv
<1>2. CASE LeaveLoop \/ MainCancel \/ MainReturn \/ Signal \/ CallerCancels
             \/ WatcherSignalled \/ WatcherCancels \/ WatcherDone
  <2>1. UNCHANGED <<unread, aggregating, out, outClosed, inferring, alerts, acting>>
    BY <1>2 DEF LeaveLoop, MainCancel, MainReturn, Signal, CallerCancels,
                WatcherSignalled, WatcherCancels, WatcherDone
  <2>2. cancelled' \in BOOLEAN /\ (~cancelled' => ~cancelled)
    BY <1>0, <1>2, Zenon DEF Flags, LeaveLoop, MainCancel, MainReturn, Signal,
                CallerCancels, WatcherSignalled, WatcherCancels, WatcherDone
  <2>3. Flags'
    BY <1>0, <1>2, <2>1, <2>2, Zenon DEF Flags, LeaveLoop, MainCancel, MainReturn,
                Signal, CallerCancels, WatcherSignalled, WatcherCancels, WatcherDone
  <2>5. Counters'
    BY <1>0, <1>2, <2>1 DEF Counters, LeaveLoop, MainCancel, MainReturn,
                Signal, CallerCancels, WatcherSignalled, WatcherCancels, WatcherDone
  <2>4. Sets' /\ Channels' /\ OwnersClose' /\ NoAlertLost'
    BY <1>0, <2>1, <2>2, Zenon DEF Sets, Channels, OwnersClose, NoAlertLost
  <2> QED
    BY <2>3, <2>4, <2>5 DEF DInv
<1>3. ASSUME NEW final \in BOOLEAN, Flush(final) PROVE DInv'
  <2>1. run' \in {"loop", "final"} /\ run = "loop"
    BY <1>3, Zenon DEF Flush
  <2> QED
    BY <1>0, <1>3, <2>1, Zenon
       DEF Flush, DInv, Sets, Flags, Counters, Channels, OwnersClose, NoAlertLost
<1>4. ASSUME NEW f \in Flows, EmitFlow(f) PROVE DInv'
  <2>a. out \in Seq(Flows) /\ Len(out) \in Nat
    BY <1>0 DEF Channels
  <2>0. /\ Append(out, f) \in Seq(Flows) /\ Len(Append(out, f)) = Len(out) + 1
        /\ ToSet(Append(out, f)) = ToSet(out) \cup {f}
    BY <2>a, SendElements
  <2> USE <1>0, <1>4 DEF EmitFlow
  <2>1. Channels' /\ Sets'
    <3>1. CASE Len(out) < outputBufferSize
      BY <2>0, <2>a, <3>1 DEF Channels, Sets
    <3>2. CASE ~(Len(out) < outputBufferSize)
      BY <3>2 DEF Channels, Sets
    <3> QED
      BY <3>1, <3>2
  <2>2. ToSet(out') \cup dropped' = ToSet(out) \cup dropped \cup {f}
    BY <2>0
  <2>3. NoAlertLost'
    BY <2>2, Zenon DEF NoAlertLost
  <2>4. Flags' /\ Counters' /\ OwnersClose'
    BY Zenon DEF Flags, Counters, OwnersClose
  <2> QED
    BY <2>1, <2>3, <2>4 DEF DInv
<1>5. CASE CloseOut
  BY <1>0, <1>5, Zenon
     DEF CloseOut, DInv, Sets, Flags, Counters, Channels, OwnersClose, NoAlertLost
<1>6. CASE Classify
  <2> USE <1>0, <1>6 DEF Classify
  <2>1. /\ Head(out) \in Flows /\ out' \in Seq(Flows)
        /\ Len(out') = Len(out) - 1 /\ Len(out) \in Nat
        /\ ToSet(out) = {Head(out)} \cup ToSet(out')
    BY ReceiveElements DEF Channels
  <2>2. Channels'
    BY <2>1 DEF Channels
  <2>3. Sets' /\ Flags' /\ Counters'
    BY Zenon DEF Sets, Flags, Counters, OwnersClose
  <2>4. OwnersClose'
    BY Zenon DEF OwnersClose
  <2>5. NoAlertLost'
    BY <2>1, Zenon DEF NoAlertLost, OwnersClose
  <2> QED
    BY <2>2, <2>3, <2>4, <2>5 DEF DInv
<1>7. ASSUME NEW f \in Flows, SendAlert(f) PROVE DInv'
  <2> USE <1>0, <1>7 DEF SendAlert
  <2>1. f \in Malicious /\ sending = {f}
    BY DEF OwnersClose
  <2>2. Channels' /\ ToSet(alerts') = ToSet(alerts) \cup {f}
    BY <2>1, SendElements DEF Channels
  <2>3. Sets' /\ Flags' /\ Counters' /\ OwnersClose'
    BY Zenon DEF Sets, Flags, Counters, OwnersClose
  <2>4. NoAlertLost'
    BY <2>1, <2>2, Zenon DEF NoAlertLost
  <2> QED
    BY <2>2, <2>3, <2>4 DEF DInv
<1>8. CASE GiveUp \/ InferenceEnds
  <2>1. /\ UNCHANGED <<reading, stopping, aggregating, out, outClosed, alerts, acting>>
        /\ inference' = "done" /\ sending' = {} /\ (cancelled \/ sending = {})
    BY <1>0, <1>8 DEF GiveUp, InferenceEnds, OwnersClose
  <2>2. alertsClosed'
    BY <1>8, Zenon DEF GiveUp, InferenceEnds
  <2>3. Sets' /\ Flags' /\ Channels'
    BY <1>0, <1>8, <2>1, Zenon DEF Sets, Flags, Channels, GiveUp, InferenceEnds
  <2>4. Counters'
    BY <1>0, <2>1 DEF Counters
  <2>5. OwnersClose'
    BY <1>0, <2>1, <2>2, Zenon DEF OwnersClose
  <2>6. NoAlertLost'
    BY <1>0, <2>1, Zenon DEF NoAlertLost
  <2> QED
    BY <2>3, <2>4, <2>5, <2>6 DEF DInv
<1>9. CASE HandleAlert
  <2> USE <1>0, <1>9 DEF HandleAlert
  <2>1. /\ Head(alerts) \in Malicious /\ Channels'
        /\ ToSet(alerts) = {Head(alerts)} \cup ToSet(alerts')
    BY ReceiveElements DEF Channels
  <2>2. Sets' /\ Flags' /\ Counters' /\ OwnersClose'
    BY <2>1, Zenon DEF Sets, Flags, Counters, OwnersClose
  <2>3. NoAlertLost'
    BY <2>1, Zenon DEF NoAlertLost
  <2> QED
    BY <2>1, <2>2, <2>3 DEF DInv
<1>10. CASE FeedbackEnds
  BY <1>0, <1>10, Zenon
     DEF FeedbackEnds, DInv, Sets, Flags, Counters, Channels, OwnersClose, NoAlertLost
<1>11. CASE UNCHANGED vars
  BY <1>0, <1>11, Zenon
     DEF vars, DInv, Sets, Flags, Counters, Channels, OwnersClose, NoAlertLost
<1> QED
  BY <1>1, <1>2, <1>3, <1>4, <1>5, <1>6, <1>7, <1>8, <1>9, <1>10, <1>11 DEF Next

-----------------------------------------------------------------------------
\* The invariant holds in every reachable state.
THEOREM DInvariance == Spec => []DInv
BY InitDInv, StepDInv, PTL DEF Spec

\* The goroutines of RunDaemon keep to their states, both channels to their
\* capacities, and inference holds at most one alert while it waits to send.
THEOREM TypeCorrect == Spec => []TypeOK
<1>1. DInv => TypeOK
  <2> SUFFICES ASSUME DInv PROVE TypeOK
    OBVIOUS
  <2>1. {readerClosed, sigPending, cancelled, outClosed, alertsClosed} \subseteq BOOLEAN
    BY Zenon DEF DInv, Flags
  <2>2. Cardinality(sending) <= 1
    <3>1. Cardinality(sending) = 0 \/ Cardinality(sending) = 1
      BY FS_EmptySet, FS_Singleton, Zenon DEF DInv, OwnersClose
    <3> QED
      BY <3>1
  <2> QED
    BY <2>1, <2>2, Zenon DEF DInv, Sets, Counters, Channels, TypeOK
<1> QED
  BY <1>1, DInvariance, PTL

\* Until the context is cancelled a malicious flow is on its way through the
\* stages, handled, or counted as dropped: however full the channels are and
\* however the stages take turns, no stage loses one.
THEOREM AlertsKept == Spec => []NoAlertLost
<1>1. DInv => NoAlertLost
  BY DEF DInv
<1> QED
  BY <1>1, DInvariance, PTL

\* A step sends only on an open channel and closes only an open one; in Go
\* either would otherwise panic (daemon.go: close(alerts) in the inference
\* goroutine, close(a.out) in Aggregator.Run).
ChannelDiscipline ==
  /\ (\E f \in Flows : EmitFlow(f)) \/ CloseOut => ~outClosed
  /\ (\E f \in Flows : SendAlert(f)) \/ GiveUp \/ InferenceEnds => ~alertsClosed

\* No goroutine sends on a closed channel or closes one twice, whichever of
\* the flush, the cancellation and the end of the input comes first.
THEOREM NoPanicOnChannels == Spec => [][ChannelDiscipline]_vars
<1>1. DInv /\ [Next]_vars => [ChannelDiscipline]_vars
  BY Zenon DEF DInv, OwnersClose, Counters, ChannelDiscipline, EmitFlow, CloseOut,
     SendAlert, GiveUp, InferenceEnds
<1> QED
  BY <1>1, DInvariance, PTL DEF Spec
=============================================================================
