------------------------------- MODULE Sessions -------------------------------
(***************************************************************************)
(* The life of the system's processes and of the kernel objects they share *)
(* through the pins in /sys/fs/bpf/ai_ida.                                 *)
(*                                                                         *)
(* A loader (ebpf-loader/src/main.rs) brings a generation of maps and the  *)
(* program that uses them.  A daemon or monitor (cmd/main.go) opens the    *)
(* pinned maps one after the other (LoadPinnedMaps), raises the log level, *)
(* reads the ring buffer and puts the level back (engine/daemon.go,        *)
(* engine/monitor.go).  An open map outlives its pin and its program.      *)
(***************************************************************************)
EXTENDS Naturals, Sequences

CONSTANTS
  Daemons, Monitors, Loaders,  \* processes
  Maps,            \* the pinned maps, in the order both sides handle them
  LevelNames,      \* what a monitor may be given as --log-level
  Severities,      \* severities of what the program has to report
  RingSize,        \* bound: records the ring buffer holds
  Overlap,         \* bound: may two daemons or monitors, or two loaders, run at once?
  MaxLoads,        \* bound: loaders started
  MaxKills         \* bound: daemons and monitors that die without leaving

LogLevelOff == 0
LogLevelDebug == 1
Processes == Daemons \cup Monitors
Generations == 1 .. MaxLoads
None == 0

\* types.ParseLogLevel; there is no level for any other name.
ParseLogLevel ==
  [debug |-> LogLevelDebug, info |-> 2, warn |-> 3, warning |-> 3, error |-> 4,
   off |-> LogLevelOff, none |-> LogLevelOff, disabled |-> LogLevelOff]

ASSUME SessionsAssumption ==
  /\ Daemons \cap Monitors = {}
  /\ Maps \in Seq(STRING) /\ \E i, j \in DOMAIN Maps : Maps[i] = "config_map" /\ Maps[j] = "events"
  /\ Severities \subseteq 1 .. 4
  /\ RingSize \in Nat /\ MaxLoads \in Nat /\ MaxKills \in Nat
  /\ Overlap \in BOOLEAN

VARIABLES
  pins,     \* map name -> generation of the map pinned there, None if there is none
  loads,    \* generations created so far
  lstage,   \* loader -> where it is
  lpos,     \* loader -> the map it is pinning
  lgen,     \* loader -> its generation
  level,    \* generation -> CONFIG_MAP[0]
  ring,     \* generation -> the records in EVENTS, by severity
  stage,    \* process -> where it is
  held,     \* process -> generations of the maps it has opened, in order
  prev,     \* process -> prevLevel
  target,   \* process -> the level it sets
  kills,    \* daemons and monitors that died without leaving
  \* History
  stuck,    \* the pins a loader could not remove, by its generation
  since,    \* process -> the generation that was up when it began to open maps
  blind     \* daemons that missed a packet that could have been reported

loaderVars == <<pins, loads, lstage, lpos, lgen, stuck>>
kernelVars == <<level, ring>>
history == <<since, blind>>
vars == <<loaderVars, kernelVars, stage, held, prev, target, kills, history>>

Stages == {"down", "opening", "opened", "starting", "raised", "running", "leaving"}

\* A generation's program is attached until the process that brought it ends.
Up == {lgen[l] : l \in {k \in Loaders : lstage[k] = "up"}}
Attached == Up \cup {lgen[l] : l \in {k \in Loaders : lstage[k] = "unpinned"}}

Index(name) == CHOOSE i \in DOMAIN Maps : Maps[i] = name
ConfigOf(p) == held[p][Index("config_map")]
EventsOf(p) == held[p][Index("events")]

\* All maps p has open are of generation g.
HoldsAll(p, g) == \A i \in DOMAIN held[p] : held[p][i] = g

TypeOK ==
  /\ pins \in [{Maps[i] : i \in DOMAIN Maps} -> Generations \cup {None}]
  /\ loads \in 0 .. MaxLoads
  /\ lstage \in [Loaders -> {"down", "unpinning", "pinning", "attaching", "up", "unpinned"}]
  /\ lpos \in [Loaders -> DOMAIN Maps]
  /\ lgen \in [Loaders -> Generations \cup {None}]
  /\ stuck \subseteq Generations \X DOMAIN pins
  /\ level \in [Generations -> 0 .. 4]
  /\ \A g \in Generations : ring[g] \in Seq(Severities) /\ Len(ring[g]) <= RingSize
  /\ stage \in [Processes -> Stages]
  /\ \A p \in Processes : held[p] \in Seq(Generations) /\ Len(held[p]) <= Len(Maps)
  /\ prev \in [Processes -> 0 .. 4] /\ target \in [Processes -> 0 .. 4]
  /\ kills \in 0 .. MaxKills
  /\ since \in [Processes -> Generations \cup {None}]
  /\ blind \subseteq Daemons

Init ==
  /\ pins = [m \in {Maps[i] : i \in DOMAIN Maps} |-> None]
  /\ loads = 0
  /\ lstage = [l \in Loaders |-> "down"]
  /\ lpos = [l \in Loaders |-> 1]
  /\ lgen = [l \in Loaders |-> None]
  /\ stuck = {}
  /\ level = [g \in Generations |-> LogLevelOff]
  /\ ring = [g \in Generations |-> <<>>]
  /\ stage = [p \in Processes |-> "down"]
  /\ held = [p \in Processes |-> <<>>]
  /\ prev = [p \in Processes |-> LogLevelOff]
  /\ target = [p \in Processes |-> LogLevelDebug]
  /\ kills = 0
  /\ since = [p \in Processes |-> None]
  /\ blind = {}

-----------------------------------------------------------------------------
(* The loader.                                                             *)

LUnchanged == UNCHANGED <<kernelVars, stage, held, prev, target, kills, history>>
Goto(l, s) == lstage' = [lstage EXCEPT ![l] = s]

\* aya::Ebpf::load creates the maps.
Load(l) ==
  /\ lstage[l] = "down" /\ loads < MaxLoads
  /\ Overlap \/ \A k \in Loaders : lstage[k] = "down"
  /\ loads' = loads + 1
  /\ lgen' = [lgen EXCEPT ![l] = loads + 1]
  /\ lpos' = [lpos EXCEPT ![l] = 1]
  /\ Goto(l, "unpinning")
  /\ UNCHANGED <<pins, stuck>> /\ LUnchanged

\* Mutant: a pin that is there already is left alone.
RemoveFileNever(l) ==
  /\ lstage[l] = "unpinning"
  /\ Goto(l, "pinning")
  /\ UNCHANGED <<pins, loads, lpos, lgen, stuck>> /\ LUnchanged

\* fs::remove_file on the path of the map at hand, which may have no pin.
RemoveFile(l) ==
  /\ lstage[l] = "unpinning"
  /\ pins' = [pins EXCEPT ![Maps[lpos[l]]] = None]
  /\ Goto(l, "pinning")
  /\ UNCHANGED <<loads, lpos, lgen, stuck>> /\ LUnchanged

\* It fails although there is a pin, and the loader does not ask.
RemoveFileFails(l) ==
  /\ lstage[l] = "unpinning"
  /\ pins[Maps[lpos[l]]] # None
  /\ stuck' = stuck \cup {<<lgen[l], Maps[lpos[l]]>>}
  /\ Goto(l, "pinning")
  /\ UNCHANGED <<pins, loads, lpos, lgen>> /\ LUnchanged

\* On to the next map; after the last the program is loaded and attached.
NextMap(l) ==
  IF lpos[l] < Len(Maps)
  THEN lpos' = [lpos EXCEPT ![l] = @ + 1] /\ Goto(l, "unpinning")
  ELSE lpos' = lpos /\ Goto(l, "attaching")

\* map.pin, which fails where a pin is there already; the loader does not ask.
Pin(l) ==
  /\ lstage[l] = "pinning"
  /\ pins' = [pins EXCEPT ![Maps[lpos[l]]] = IF @ = None THEN lgen[l] ELSE @]
  /\ NextMap(l)
  /\ UNCHANGED <<loads, lgen, stuck>> /\ LUnchanged

PinFails(l) ==
  /\ lstage[l] = "pinning"
  /\ NextMap(l)
  /\ UNCHANGED <<pins, loads, lgen, stuck>> /\ LUnchanged

Attach(l) ==
  /\ lstage[l] = "attaching"
  /\ Goto(l, "up")
  /\ UNCHANGED <<pins, loads, lpos, lgen, stuck>> /\ LUnchanged

\* Ctrl-C: the pins go first, the program when the process ends.  The error
\* of fs::remove_dir_all is ignored, so that only some pins may be gone.
CtrlC(l, gone) ==
  /\ lstage[l] = "up"
  /\ pins' = [m \in DOMAIN pins |-> IF m \in gone THEN None ELSE pins[m]]
  /\ Goto(l, "unpinned")
  /\ UNCHANGED <<loads, lpos, lgen, stuck>> /\ LUnchanged

\* The loader ends: after Ctrl-C, with an error from load or attach, or
\* killed at any time.  Whatever is pinned then stays pinned.
LoaderEnds(l) ==
  /\ lstage[l] # "down"
  /\ Goto(l, "down")
  /\ UNCHANGED <<pins, loads, lpos, lgen, stuck>> /\ LUnchanged

-----------------------------------------------------------------------------
(* The program.                                                            *)

\* It reports a packet if the level admits it, the log limiter has a token
\* (TokenBucket has its rules) and there is room.
Handle(g, sev, token) ==
  LET admitted == level[g] # LogLevelOff /\ sev >= level[g]
      room == Len(ring[g]) < RingSize
  IN  /\ g \in Attached
      /\ ring' = IF admitted /\ token /\ room
                 THEN [ring EXCEPT ![g] = Append(@, sev)] ELSE ring
      /\ blind' = blind \cup {p \in Daemons : /\ stage[p] = "running" /\ HoldsAll(p, g)
                                              /\ token /\ room /\ ~admitted}
      /\ UNCHANGED <<loaderVars, level, stage, held, prev, target, kills, since>>

-----------------------------------------------------------------------------
(* Daemon and monitor.                                                     *)

At(p, s) == stage[p] = s
Move(p, s) == stage' = [stage EXCEPT ![p] = s]

\* The command starts with a valid level and sets out to open the maps.
Start(p, t) ==
  /\ At(p, "down")
  /\ Overlap \/ \A q \in Processes : stage[q] = "down"
  /\ Move(p, "opening")
  /\ held' = [held EXCEPT ![p] = <<>>]
  /\ target' = [target EXCEPT ![p] = t]
  /\ since' = [since EXCEPT ![p] = IF loads \in Up THEN loads ELSE None]
  /\ blind' = blind \ {p}
  /\ UNCHANGED <<loaderVars, kernelVars, prev, kills>>

\* The map LoadPinnedMaps opens next.
NextPin(p) == pins[Maps[Len(held[p]) + 1]]

\* Mutant: the error of ebpf.LoadPinnedMap is ignored.
OpenMapUnchecked(p) ==
  /\ At(p, "opening")
  /\ held' = [held EXCEPT ![p] = Append(@, NextPin(p))]
  /\ Move(p, IF Len(held'[p]) = Len(Maps) THEN "opened" ELSE "opening")
  /\ UNCHANGED <<loaderVars, kernelVars, prev, target, kills, history>>

OpenMap(p) ==
  /\ At(p, "opening")
  /\ NextPin(p) # None
  /\ held' = [held EXCEPT ![p] = Append(@, NextPin(p))]
  /\ Move(p, IF Len(held'[p]) = Len(Maps) THEN "opened" ELSE "opening")
  /\ UNCHANGED <<loaderVars, kernelVars, prev, target, kills, history>>

\* A map cannot be opened: those opened so far are closed, the command exits.
OpenMapFails(p) ==
  /\ At(p, "opening")
  /\ Move(p, "down")
  /\ held' = [held EXCEPT ![p] = <<>>]
  /\ UNCHANGED <<loaderVars, kernelVars, prev, target, kills, history>>

\* The level is read; OFF if it cannot be.
GetLogLevel(p, read) ==
  /\ At(p, "opened")
  /\ prev' = [prev EXCEPT ![p] = IF read THEN level[ConfigOf(p)] ELSE LogLevelOff]
  /\ Move(p, "starting")
  /\ UNCHANGED <<loaderVars, kernelVars, held, target, kills, history>>

\* Mutant: the level is only ever raised.
SetLogLevelUpwards(p) ==
  /\ At(p, "starting")
  /\ level' = [level EXCEPT ![ConfigOf(p)] = IF @ < target[p] THEN target[p] ELSE @]
  /\ Move(p, "raised")
  /\ UNCHANGED <<loaderVars, ring, held, prev, target, kills, history>>

SetLogLevel(p) ==
  /\ At(p, "starting")
  /\ level' = [level EXCEPT ![ConfigOf(p)] = target[p]]
  /\ Move(p, "raised")
  /\ UNCHANGED <<loaderVars, ring, held, prev, target, kills, history>>

\* mgr.Close, deferred by the command.
Close(p) == Move(p, "down") /\ held' = [held EXCEPT ![p] = <<>>]

\* The level cannot be set: the process returns before it defers restoring it.
SetFails(p) ==
  /\ At(p, "starting")
  /\ Close(p)
  /\ UNCHANGED <<loaderVars, kernelVars, prev, target, kills, history>>

\* The ring buffer reader is open and signals are caught from here on.
Notify(p) ==
  /\ At(p, "raised")
  /\ Move(p, "running")
  /\ UNCHANGED <<loaderVars, kernelVars, held, prev, target, kills, history>>

\* The ring buffer cannot be opened: an error, through the deferred calls.
ReaderFails(p) ==
  /\ At(p, "raised")
  /\ Move(p, "leaving")
  /\ UNCHANGED <<loaderVars, kernelVars, held, prev, target, kills, history>>

\* A record is taken out of the ring buffer, whoever else is waiting for it;
\* the daemon ingests it, the monitor prints it unless it is below its level.
Read(p) ==
  LET g == EventsOf(p)
  IN  /\ At(p, "running")
      /\ ring[g] # <<>>
      /\ ring' = [ring EXCEPT ![g] = Tail(@)]
      /\ blind' = blind \cup {q \in Daemons \ {p} : At(q, "running") /\ HoldsAll(q, g)}
      /\ UNCHANGED <<loaderVars, level, stage, held, prev, target, kills, since>>

\* A signal is caught; the reader is closed and the loop ends.
Signal(p) ==
  /\ At(p, "running")
  /\ Move(p, "leaving")
  /\ UNCHANGED <<loaderVars, kernelVars, held, prev, target, kills, history>>

\* Mutant: the daemon leaves the level as it is.
RestoreMonitorOnly(p) ==
  /\ At(p, "leaving")
  /\ level' = [level EXCEPT ![ConfigOf(p)] = IF p \in Daemons THEN @ ELSE LogLevelOff]
  /\ Close(p)
  /\ UNCHANGED <<loaderVars, ring, prev, target, kills, history>>

\* The deferred call: the daemon restores what it read, the monitor OFF.
Restore(p) ==
  /\ At(p, "leaving")
  /\ level' = [level EXCEPT ![ConfigOf(p)] = IF p \in Daemons THEN prev[p] ELSE LogLevelOff]
  /\ Close(p)
  /\ UNCHANGED <<loaderVars, ring, prev, target, kills, history>>

\* SIGKILL, a panic, or a signal before signal.Notify: no deferred call runs;
\* or it runs and fails, which the program ignores.
Kill(p) ==
  /\ ~At(p, "down")
  /\ kills < MaxKills
  /\ kills' = kills + 1
  /\ Close(p)
  /\ UNCHANGED <<loaderVars, kernelVars, prev, target, history>>

Next ==
  \/ \E l \in Loaders :
       \/ Load(l) \/ RemoveFile(l) \/ RemoveFileFails(l) \/ Pin(l) \/ PinFails(l)
       \/ Attach(l) \/ (\E gone \in SUBSET DOMAIN pins : CtrlC(l, gone)) \/ LoaderEnds(l)
  \/ \E g \in Generations, sev \in Severities, token \in BOOLEAN : Handle(g, sev, token)
  \/ \E p \in Daemons : Start(p, LogLevelDebug)
  \/ \E p \in Monitors, n \in LevelNames \cap DOMAIN ParseLogLevel : Start(p, ParseLogLevel[n])
  \/ \E p \in Processes :
       \/ OpenMap(p) \/ OpenMapFails(p)
       \/ \E read \in BOOLEAN : GetLogLevel(p, read)
       \/ SetLogLevel(p) \/ SetFails(p) \/ Notify(p) \/ ReaderFails(p)
       \/ Read(p) \/ Signal(p) \/ Restore(p) \/ Kill(p)

Spec == Init /\ [][Next]_vars

-----------------------------------------------------------------------------
\* When every process has gone, none of them killed, no map of any
\* generation is left with a level, however the processes failed to start or
\* were stopped and however often the loader came and went in between
\* (daemon.go:33-34, monitor.go:28).
LevelRestored ==
  kills = 0 /\ (\A p \in Processes : At(p, "down"))
    => \A g \in Generations : level[g] = LogLevelOff

\* A daemon that runs is told of every packet the program behind its maps
\* handles, unless the ring buffer is full or the log limiter is empty, also
\* after a predecessor was killed: its features "are meaningless if EVENTS
\* only ever carries violations" (daemon.go:43-45).  A daemon whose maps are
\* of two generations, opened while the loader was restarted, is promised
\* nothing.
DaemonMissesNothing == blind = {}

\* Every map p has open is of the generation that was up when it set out,
\* but for those whose older pin that loader failed to remove.
HoldsOwn(p) ==
  \A i \in DOMAIN held[p] :
    held[p][i] = since[p] \/ <<since[p], Maps[i]>> \in stuck

\* A command that opens the pinned maps while the loader is up gets the maps
\* the attached program uses, all of them of one generation, although an
\* earlier loader may have left its own pins behind, whole or in part, and a
\* new pin may fail.  The exception is a pin the loader could not remove: it
\* ignores that error, the pin call after it fails too, and the command is
\* given the older map, for that name and no other (main.rs:48-72).
MapsOfProgram ==
  \A p \in Processes :
    At(p, "opened") /\ since[p] # None /\ since[p] \in Up => HoldsOwn(p)
=============================================================================
