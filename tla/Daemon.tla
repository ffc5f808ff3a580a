------------------------------- MODULE Daemon -------------------------------
(***************************************************************************)
(* RunDaemon (user-space/pkg/engine/daemon.go): the goroutines of the      *)
(* closed loop, the two channels between them, and how they stop.          *)
(*                                                                         *)
(*   reader -> aggregator -(out)-> inference -(alerts)-> feedback          *)
(*                                                                         *)
(* A flow is followed from its record in the ring buffer to the alert it   *)
(* gives rise to.  Aggregator and FeedbackController model the two ends in *)
(* detail; here the aggregator is a set of flows that a flush takes, and   *)
(* the controller consumes an alert in one step.                           *)
(***************************************************************************)
EXTENDS Naturals, Sequences, FiniteSets, SequencesExt

CONSTANTS
  Flows,           \* flows, in the order of their records
  Malicious,       \* those inference.Classify reports
  outputBufferSize,
  alertBufferSize

ASSUME DaemonAssumption ==
  /\ Malicious \subseteq Flows
  /\ outputBufferSize \in Nat \ {0}
  /\ alertBufferSize \in Nat \ {0}

VARIABLES
  unread,          \* flows whose records have not been read yet
  main,            \* RunDaemon: "read", "cancel", "wait" or "returned"
  readerClosed,
  sigPending,      \* a signal is in sigChan
  watcher,         \* the signal goroutine: "wait", "cancel" or "done"
  cancelled,       \* daemonCtx
  tracked,         \* flows in the aggregator's tables
  run,             \* Aggregator.Run: "loop", "final" or "done"
  batch,           \* flows the current flush has still to emit
  out, outClosed,
  inference,       \* "recv", "send" or "done"
  sending,         \* the flow whose alert inference is to send, if any
  alerts, alertsClosed,
  feedback,        \* FeedbackController.Run: "loop" or "done"
  handled,         \* flows whose alert reached handle
  dropped          \* flows given up: undecodable record, or out was full

vars == <<unread, main, readerClosed, sigPending, watcher, cancelled, tracked,
          run, batch, out, outClosed, inference, sending, alerts, alertsClosed,
          feedback, handled, dropped>>

reading == <<unread, main, readerClosed>>
stopping == <<sigPending, watcher, cancelled>>
aggregating == <<tracked, run, batch, dropped>>
inferring == <<inference, sending, alertsClosed>>
acting == <<feedback, handled>>

TypeOK ==
  /\ unread \subseteq Flows /\ tracked \subseteq Flows /\ batch \subseteq Flows
  /\ handled \subseteq Malicious /\ dropped \subseteq Flows
  /\ main \in {"read", "cancel", "wait", "returned"}
  /\ watcher \in {"wait", "cancel", "done"}
  /\ run \in {"loop", "final", "done"}
  /\ feedback \in {"loop", "done"}
  /\ {readerClosed, sigPending, cancelled, outClosed, alertsClosed} \subseteq BOOLEAN
  /\ inference \in {"recv", "send", "done"}
  /\ sending \subseteq Malicious /\ Cardinality(sending) <= 1
  /\ out \in Seq(Flows) /\ Len(out) <= outputBufferSize
  /\ alerts \in Seq(Malicious) /\ Len(alerts) <= alertBufferSize

\* RunDaemon has set up its reader and started its goroutines.
Init ==
  /\ unread = Flows /\ main = "read" /\ readerClosed = FALSE
  /\ sigPending = FALSE /\ watcher = "wait" /\ cancelled = FALSE
  /\ tracked = {} /\ run = "loop" /\ batch = {} /\ dropped = {}
  /\ out = <<>> /\ outClosed = FALSE
  /\ inference = "recv" /\ sending = {} /\ alerts = <<>> /\ alertsClosed = FALSE
  /\ feedback = "loop" /\ handled = {}
-----------------------------------------------------------------------------
\* readLoop: a record is read, decoded and ingested.
Read(f) ==
  /\ main = "read" /\ ~readerClosed
  /\ f \in unread
  /\ unread' = unread \ {f}
  /\ tracked' = tracked \cup {f}
  /\ UNCHANGED <<main, readerClosed, stopping, run, batch, dropped, out,
                 outClosed, inferring, alerts, acting>>

\* A record that does not decode is skipped.
ReadBad(f) ==
  /\ main = "read" /\ ~readerClosed
  /\ f \in unread
  /\ unread' = unread \ {f}
  /\ dropped' = dropped \cup {f}
  /\ UNCHANGED <<main, readerClosed, stopping, tracked, run, batch, out,
                 outClosed, inferring, alerts, acting>>

\* Read returns ErrClosed, or another error with the context cancelled.  Any
\* other error is reported and the loop goes on.
LeaveLoop ==
  /\ main = "read" /\ (readerClosed \/ cancelled)
  /\ main' = "cancel"
  /\ UNCHANGED <<unread, readerClosed, stopping, aggregating, out, outClosed,
                 inferring, alerts, acting>>

MainCancel ==
  /\ main = "cancel"
  /\ main' = "wait"
  /\ cancelled' = TRUE
  /\ UNCHANGED <<unread, readerClosed, sigPending, watcher, aggregating, out,
                 outClosed, inferring, alerts, acting>>

\* wg.Wait ends; the deferred calls cancel, close the reader and restore the
\* log level.
MainReturn ==
  /\ main = "wait"
  /\ run = "done" /\ inference = "done" /\ feedback = "done"
  /\ main' = "returned"
  /\ readerClosed' = TRUE
  /\ UNCHANGED <<unread, stopping, aggregating, out, outClosed, inferring,
                 alerts, acting>>

\* The operating system delivers SIGINT, SIGTERM or SIGHUP; or whoever called
\* RunDaemon cancels its context.
Signal ==
  /\ ~sigPending /\ main # "returned"
  /\ sigPending' = TRUE
  /\ UNCHANGED <<reading, watcher, cancelled, aggregating, out, outClosed,
                 inferring, alerts, acting>>

CallerCancels ==
  /\ ~cancelled
  /\ cancelled' = TRUE
  /\ UNCHANGED <<reading, sigPending, watcher, aggregating, out, outClosed,
                 inferring, alerts, acting>>

\* The signal goroutine: on a signal it closes the reader, then cancels.
WatcherSignalled ==
  /\ watcher = "wait" /\ sigPending
  /\ readerClosed' = TRUE
  /\ watcher' = "cancel"
  /\ UNCHANGED <<unread, main, sigPending, cancelled, aggregating, out,
                 outClosed, inferring, alerts, acting>>

WatcherCancels ==
  /\ watcher = "cancel"
  /\ cancelled' = TRUE
  /\ watcher' = "done"
  /\ UNCHANGED <<reading, sigPending, aggregating, out, outClosed, inferring,
                 alerts, acting>>

\* ... or the context is cancelled and it closes the reader.
WatcherDone ==
  /\ watcher = "wait" /\ cancelled
  /\ readerClosed' = TRUE
  /\ watcher' = "done"
  /\ UNCHANGED <<unread, main, sigPending, cancelled, aggregating, out,
                 outClosed, inferring, alerts, acting>>
-----------------------------------------------------------------------------
\* Aggregator.Run: a tick starts a flush, the cancelled context the last one.
Flush(final) ==
  /\ run = "loop" /\ batch = {}
  /\ final => cancelled
  /\ batch' = tracked /\ tracked' = {}
  /\ run' = IF final THEN "final" ELSE "loop"
  /\ UNCHANGED <<reading, stopping, dropped, out, outClosed, inferring, alerts,
                 acting>>

EmitFlow(f) ==
  /\ f \in batch
  /\ batch' = batch \ {f}
  /\ IF Len(out) < outputBufferSize
     THEN out' = Append(out, f) /\ UNCHANGED dropped
     ELSE dropped' = dropped \cup {f} /\ UNCHANGED out
  /\ UNCHANGED <<reading, stopping, tracked, run, outClosed, inferring, alerts,
                 acting>>

CloseOut ==
  /\ run = "final" /\ batch = {}
  /\ outClosed' = TRUE
  /\ run' = "done"
  /\ UNCHANGED <<reading, stopping, tracked, batch, dropped, out, inferring,
                 alerts, acting>>

\* Inference takes the next flow; a benign one is passed over.
Classify ==
  /\ inference = "recv" /\ out # <<>>
  /\ out' = Tail(out)
  /\ IF Head(out) \in Malicious
     THEN inference' = "send" /\ sending' = {Head(out)}
     ELSE UNCHANGED <<inference, sending>>
  /\ UNCHANGED <<reading, stopping, aggregating, outClosed, alertsClosed,
                 alerts, acting>>

\* Mutant: an alert that finds no room is skipped.
SendAlertOrSkip(f) ==
  /\ inference = "send" /\ f \in sending
  /\ alerts' = IF Len(alerts) < alertBufferSize THEN Append(alerts, f) ELSE alerts
  /\ inference' = "recv" /\ sending' = {}
  /\ UNCHANGED <<reading, stopping, aggregating, out, outClosed, alertsClosed,
                 acting>>

\* Mutant: the channel has no bound.
SendAlertUnbounded(f) ==
  /\ inference = "send" /\ f \in sending
  /\ alerts' = Append(alerts, f)
  /\ inference' = "recv" /\ sending' = {}
  /\ UNCHANGED <<reading, stopping, aggregating, out, outClosed, alertsClosed,
                 acting>>

\* The select of the inference goroutine: the alert is sent ...
SendAlert(f) ==
  /\ inference = "send" /\ f \in sending
  /\ Len(alerts) < alertBufferSize
  /\ alerts' = Append(alerts, f)
  /\ inference' = "recv" /\ sending' = {}
  /\ UNCHANGED <<reading, stopping, aggregating, out, outClosed, alertsClosed,
                 acting>>

\* Mutant: a plain send, which only room in the channel ends.
GiveUpNever ==
  /\ inference = "send" /\ cancelled
  /\ Len(alerts) < alertBufferSize
  /\ inference' = "done" /\ sending' = {} /\ alertsClosed' = TRUE
  /\ UNCHANGED <<reading, stopping, aggregating, out, outClosed, alerts,
                 acting>>

\* ... or the context is cancelled and the goroutine returns.
GiveUp ==
  /\ inference = "send" /\ cancelled
  /\ inference' = "done" /\ sending' = {} /\ alertsClosed' = TRUE
  /\ UNCHANGED <<reading, stopping, aggregating, out, outClosed, alerts,
                 acting>>

InferenceEnds ==
  /\ inference = "recv" /\ out = <<>> /\ outClosed
  /\ inference' = "done" /\ alertsClosed' = TRUE
  /\ UNCHANGED <<reading, stopping, aggregating, out, outClosed, sending,
                 alerts, acting>>

\* FeedbackController.Run: an alert is handled, or the loop ends.
HandleAlert ==
  /\ feedback = "loop" /\ alerts # <<>>
  /\ alerts' = Tail(alerts)
  /\ handled' = handled \cup {Head(alerts)}
  /\ UNCHANGED <<reading, stopping, aggregating, out, outClosed, inferring,
                 feedback>>

FeedbackEnds ==
  /\ feedback = "loop"
  /\ cancelled \/ (alertsClosed /\ alerts = <<>>)
  /\ feedback' = "done"
  /\ UNCHANGED <<reading, stopping, aggregating, out, outClosed, inferring,
                 alerts, handled>>

Next ==
  \/ \E f \in Flows : Read(f) \/ ReadBad(f) \/ EmitFlow(f) \/ SendAlert(f)
  \/ LeaveLoop \/ MainCancel \/ MainReturn
  \/ Signal \/ CallerCancels
  \/ WatcherSignalled \/ WatcherCancels \/ WatcherDone
  \/ \E final \in BOOLEAN : Flush(final)
  \/ CloseOut
  \/ Classify \/ GiveUp \/ InferenceEnds
  \/ HandleAlert \/ FeedbackEnds

Spec == Init /\ [][Next]_vars

\* The Go scheduler runs every goroutine that can run, the ticker ticks, and
\* a select that finds the same case ready for ever takes it in the end.
\* Nothing is assumed of records, of signals or of the caller.
Fairness ==
  /\ WF_vars(LeaveLoop) /\ WF_vars(MainCancel) /\ WF_vars(MainReturn)
  /\ WF_vars(WatcherSignalled \/ WatcherDone) /\ WF_vars(WatcherCancels)
  /\ WF_vars(Flush(TRUE)) /\ WF_vars(Flush(FALSE))
  /\ WF_vars(\E f \in Flows : EmitFlow(f)) /\ WF_vars(CloseOut)
  /\ WF_vars(Classify \/ (\E f \in Flows : SendAlert(f)) \/ GiveUp \/ InferenceEnds)
  /\ WF_vars(HandleAlert) /\ WF_vars(FeedbackEnds)

FairSpec == Spec /\ Fairness
-----------------------------------------------------------------------------
\* Until the context is cancelled no malicious flow that was read is lost
\* between the goroutines, even when both channels are full: it is on its
\* way, handled, or counted as dropped (daemon.go, the three stages).
NoAlertLost ==
  ~cancelled =>
    Malicious \subseteq unread \cup tracked \cup batch \cup ToSet(out)
                        \cup sending \cup ToSet(alerts) \cup handled \cup dropped

\* A signal, or the caller's cancellation, ends the daemon and its signal
\* goroutine, whichever stage is blocked on whichever channel
\* (daemon.go:69-78, 103-112).
ShutdownCompletes ==
  sigPending \/ cancelled ~> main = "returned" /\ watcher = "done"

\* While the daemon runs, a malicious flow the aggregator tracks reaches the
\* feedback controller unless it is counted as dropped.
AlertArrives ==
  \A f \in Malicious : f \in tracked ~> f \in handled \cup dropped \/ cancelled
=============================================================================
