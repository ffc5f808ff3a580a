--------------------------- MODULE Sessions_proofs ---------------------------
(***************************************************************************)
(* Daemons, monitors and loaders, for any maps, levels, severities, number *)
(* of generations and of kills.  The types hold however the processes      *)
(* overlap; what the operator relies on is proved where no two daemons or  *)
(* monitors, and no two loaders, run at once (Overlap = FALSE).            *)
(***************************************************************************)
EXTENDS Sessions, TLAPS

USE DEF loaderVars, kernelVars, history, At, Move, Goto

MapNames == {Maps[i] : i \in DOMAIN Maps}

\* The stages in which a process has all its maps open, and those in which
\* the level in its configuration map is its own doing.
Open == {"opened", "starting", "raised", "running", "leaving"}
Raised == {"raised", "running", "leaving"}

\* Among the types of the loader: one that runs has a generation.
LoaderTypes ==
  /\ pins \in [MapNames -> Generations \cup {None}]
  /\ loads \in 0 .. MaxLoads
  /\ lstage \in [Loaders -> {"down", "unpinning", "pinning", "attaching", "up", "unpinned"}]
  /\ lpos \in [Loaders -> DOMAIN Maps]
  /\ lgen \in [Loaders -> Generations \cup {None}]
  /\ \A l \in Loaders : lstage[l] # "down" => lgen[l] \in Generations
  /\ stuck \subseteq Generations \X MapNames

KernelTypes ==
  /\ level \in [Generations -> 0 .. 4]
  /\ ring \in [Generations -> Seq(Severities)]
  /\ \A g \in Generations : Len(ring[g]) <= RingSize

ProcessTypes ==
  /\ stage \in [Processes -> Stages]
  /\ held \in [Processes -> Seq(Generations)]
  /\ prev \in [Processes -> 0 .. 4]
  /\ target \in [Processes -> 0 .. 4]
  /\ since \in [Processes -> Generations \cup {None}]
  /\ kills \in 0 .. MaxKills

\* A process has opened all maps when it goes on, and lacks one before.
HeldComplete ==
  \A p \in Processes :
    /\ stage[p] \in Open => Len(held[p]) = Len(Maps)
    /\ stage[p] = "opening" => Len(held[p]) < Len(Maps)
    /\ stage[p] = "down" => held[p] = <<>>

\* The inductive invariant of the types.
SInv == LoaderTypes /\ KernelTypes /\ ProcessTypes /\ HeldComplete /\ blind \subseteq Daemons

-----------------------------------------------------------------------------
(* Constants.                                                              *)

\* There are maps, the configuration and the ring buffer among them.
LEMMA MapsFacts ==
  /\ Maps \in Seq(STRING) /\ Len(Maps) \in Nat /\ Len(Maps) >= 1
  /\ DOMAIN Maps = 1 .. Len(Maps)
  /\ Index("config_map") \in 1 .. Len(Maps)
  /\ Index("events") \in 1 .. Len(Maps)
<1>1. Maps \in Seq(STRING)
  BY SessionsAssumption, Zenon
<1>2. PICK i, j \in DOMAIN Maps : Maps[i] = "config_map" /\ Maps[j] = "events"
  BY SessionsAssumption, Zenon
<1>3. Index("config_map") \in DOMAIN Maps /\ Index("events") \in DOMAIN Maps
  BY <1>2, Zenon DEF Index
<1> QED
  BY <1>1, <1>3

\* The bounds.
LEMMA Bounds ==
  /\ MaxLoads \in Nat /\ MaxKills \in Nat /\ RingSize \in Nat
  /\ Severities \subseteq 1 .. 4
  /\ Daemons \cap Monitors = {}
BY SessionsAssumption, Zenon

\* ParseLogLevel yields a level for every name it knows.
LEMMA ParsedLevels ==
  ASSUME NEW n \in DOMAIN ParseLogLevel
  PROVE  ParseLogLevel[n] \in 0 .. 4
BY DEF ParseLogLevel, LogLevelDebug, LogLevelOff

-----------------------------------------------------------------------------
(* Types.                                                                  *)

\* Before anything has started.
LEMMA InitSInv == Init => SInv
<1> SUFFICES ASSUME Init PROVE SInv
  OBVIOUS
<1> USE MapsFacts, Bounds
<1>1. LoaderTypes
  BY DEF Init, LoaderTypes, MapNames, None
<1>2. KernelTypes
  <2>1. ring \in [Generations -> Seq(Severities)]
    BY DEF Init
  <2> QED
    BY <2>1 DEF Init, KernelTypes, LogLevelOff
<1>3. ProcessTypes
  <2>1. held \in [Processes -> Seq(Generations)]
    BY DEF Init
  <2> QED
    BY <2>1 DEF Init, ProcessTypes, LogLevelOff, LogLevelDebug, None, Stages
<1>4. HeldComplete /\ blind \subseteq Daemons
  BY DEF Init, HeldComplete, Open
<1> QED
  BY <1>1, <1>2, <1>3, <1>4 DEF SInv

\* The loader's steps touch no process and no map's contents.
LoaderStep ==
  \E l \in Loaders :
    \/ Load(l) \/ RemoveFile(l) \/ RemoveFileFails(l) \/ Pin(l) \/ PinFails(l)
    \/ Attach(l) \/ (\E gone \in SUBSET DOMAIN pins : CtrlC(l, gone)) \/ LoaderEnds(l)

\* What a loader does leaves the processes alone.
LEMMA LoaderFrame == LoaderStep => LUnchanged
BY DEF LoaderStep, Load, RemoveFile, RemoveFileFails, Pin, PinFails, Attach, CtrlC,
       LoaderEnds

\* What a loader does keeps its own state well-formed.
LEMMA LoaderStepTypes == LoaderTypes /\ LoaderStep => LoaderTypes'
<1> SUFFICES ASSUME LoaderTypes, NEW l \in Loaders,
                    \/ Load(l) \/ RemoveFile(l) \/ RemoveFileFails(l) \/ Pin(l)
                    \/ PinFails(l) \/ Attach(l)
                    \/ (\E gone \in SUBSET DOMAIN pins : CtrlC(l, gone)) \/ LoaderEnds(l)
             PROVE  LoaderTypes'
  BY DEF LoaderStep
<1> USE MapsFacts, Bounds
<1>0. /\ lpos[l] \in DOMAIN Maps /\ Maps[lpos[l]] \in MapNames
      /\ l \in DOMAIN lstage /\ l \in DOMAIN lgen
  BY DEF LoaderTypes, MapNames
<1>k. ASSUME lgen' = lgen, lstage[l] # "down",
             \A k \in Loaders \ {l} : lstage'[k] = lstage[k]
      PROVE  \A k \in Loaders : lstage'[k] # "down" => lgen'[k] \in Generations
  BY <1>k DEF LoaderTypes
<1>1. CASE Load(l)
  BY <1>0, <1>1 DEF Load, LoaderTypes, Generations
<1>2. CASE RemoveFile(l)
  BY <1>0, <1>2, <1>k DEF RemoveFile, LoaderTypes
<1>8. CASE RemoveFileFails(l)
  <2>1. lgen[l] \in Generations
    BY <1>8 DEF RemoveFileFails, LoaderTypes
  <2> QED
    BY <1>0, <1>8, <1>k, <2>1 DEF RemoveFileFails, LoaderTypes
<1>3. ASSUME NextMap(l)
      PROVE  /\ lpos' \in [Loaders -> DOMAIN Maps]
             /\ lstage' \in [Loaders -> {"down", "unpinning", "pinning", "attaching",
                                        "up", "unpinned"}]
             /\ \A k \in Loaders \ {l} : lstage'[k] = lstage[k]
  <2>1. CASE lpos[l] < Len(Maps)
    <3>1. lpos[l] + 1 \in DOMAIN Maps
      BY <1>0, <2>1
    <3>2. lpos' = [lpos EXCEPT ![l] = lpos[l] + 1] /\ lstage' = [lstage EXCEPT ![l] = "unpinning"]
      BY <1>3, <2>1 DEF NextMap
    <3> QED
      BY <3>1, <3>2 DEF LoaderTypes
  <2>2. CASE ~(lpos[l] < Len(Maps))
    <3>1. lpos' = lpos /\ lstage' = [lstage EXCEPT ![l] = "attaching"]
      BY <1>3, <2>2 DEF NextMap
    <3> QED
      BY <3>1 DEF LoaderTypes
  <2> QED
    BY <2>1, <2>2
<1>4. CASE Pin(l)
  BY <1>0, <1>3, <1>4, <1>k DEF Pin, LoaderTypes
<1>5. CASE PinFails(l)
  BY <1>3, <1>5, <1>k DEF PinFails, LoaderTypes
<1>6. CASE Attach(l) \/ LoaderEnds(l)
  BY <1>6, <1>k DEF Attach, LoaderEnds, LoaderTypes
<1>7. ASSUME NEW gone \in SUBSET DOMAIN pins, CtrlC(l, gone) PROVE LoaderTypes'
  BY <1>7, <1>k DEF CtrlC, LoaderTypes
<1> QED
  BY <1>1, <1>2, <1>4, <1>5, <1>6, <1>7, <1>8

\* Every step keeps the types.
LEMMA StepSInv == SInv /\ [Next]_vars => SInv'
<1> SUFFICES ASSUME SInv, [Next]_vars PROVE SInv'
  OBVIOUS
<1> USE MapsFacts, Bounds
<1>0. LoaderTypes /\ KernelTypes /\ ProcessTypes /\ HeldComplete /\ blind \subseteq Daemons
  BY DEF SInv
<1>1. CASE LoaderStep
  <2>1. LoaderTypes'
    BY <1>0, <1>1, LoaderStepTypes
  <2>2. LUnchanged
    BY <1>1, LoaderFrame
  <2> QED
    BY <1>0, <2>1, <2>2
       DEF LUnchanged, SInv, KernelTypes, ProcessTypes, HeldComplete
<1>2. ASSUME NEW g \in Generations, NEW sev \in Severities, NEW token \in BOOLEAN,
             Handle(g, sev, token)
      PROVE  SInv'
  <2> USE <1>0, <1>2 DEF Handle
  <2>1. blind' \subseteq Daemons
    BY Zenon
  <2>2. KernelTypes'
    <3>1. level' = level
      OBVIOUS
    <3>2. ring' = ring \/ (Len(ring[g]) < RingSize /\ ring' = [ring EXCEPT ![g] = Append(@, sev)])
      OBVIOUS
    <3>3. CASE ring' = ring
      BY ONLY <1>0, <3>1, <3>3 DEF KernelTypes
    <3>4. CASE Len(ring[g]) < RingSize /\ ring' = [ring EXCEPT ![g] = Append(@, sev)]
      <4>1. ring[g] \in Seq(Severities) /\ Len(ring[g]) \in Nat
        BY ONLY <1>0, g \in Generations DEF KernelTypes
      <4>2. /\ Append(ring[g], sev) \in Seq(Severities)
            /\ Len(Append(ring[g], sev)) = Len(ring[g]) + 1
        BY ONLY <4>1, sev \in Severities
      <4> QED
        BY ONLY <1>0, <3>1, <3>4, <4>1, <4>2, Bounds, g \in Generations DEF KernelTypes
    <3> QED
      BY <3>2, <3>3, <3>4
  <2>3. UNCHANGED <<loaderVars, stage, held, prev, target, kills, since>>
    OBVIOUS
  <2> QED
    BY <2>1, <2>2, <2>3 DEF SInv, LoaderTypes, ProcessTypes, HeldComplete
<1>3. ASSUME NEW p \in Processes, NEW t \in 0 .. 4, Start(p, t) PROVE SInv'
  <2> USE <1>0, <1>3 DEF Start
  <2>1. UNCHANGED <<loaderVars, kernelVars>>
    OBVIOUS
  <2>2. ProcessTypes'
    <3>1. since' \in [Processes -> Generations \cup {None}]
      <4>1. loads \in Up => loads \in Generations \cup {None}
        BY DEF Up, LoaderTypes
      <4> QED
        BY <4>1 DEF ProcessTypes
    <3>2. held' \in [Processes -> Seq(Generations)]
      BY DEF ProcessTypes
    <3> QED
      BY <3>1, <3>2 DEF ProcessTypes, Stages
  <2>3. HeldComplete'
    BY DEF HeldComplete, ProcessTypes, Open
  <2>4. LoaderTypes' /\ KernelTypes'
    BY <2>1 DEF LoaderTypes, KernelTypes
  <2> QED
    BY <2>2, <2>3, <2>4 DEF SInv
<1>4. ASSUME NEW p \in Processes, OpenMap(p) PROVE SInv'
  <2>0. /\ held[p] \in Seq(Generations) /\ Len(held[p]) \in Nat
        /\ stage[p] = "opening" /\ NextPin(p) # None
    <3>1. held[p] \in Seq(Generations) /\ Len(held[p]) \in Nat
      BY <1>0 DEF ProcessTypes
    <3>2. stage[p] = "opening" /\ NextPin(p) # None
      BY <1>4, Zenon DEF OpenMap
    <3> QED
      BY <3>1, <3>2
  <2>a. Len(held[p]) < Len(Maps)
    BY <1>0, <2>0 DEF HeldComplete
  <2>1. NextPin(p) \in Generations
    <3>1. Maps[Len(held[p]) + 1] \in MapNames
      BY <2>0, <2>a DEF MapNames
    <3> QED
      BY <1>0, <2>0, <3>1 DEF NextPin, LoaderTypes
  <2>2. /\ Append(held[p], NextPin(p)) \in Seq(Generations)
        /\ Len(Append(held[p], NextPin(p))) = Len(held[p]) + 1
    BY <2>0, <2>1
  <2>3. /\ held' = [held EXCEPT ![p] = Append(held[p], NextPin(p))]
        /\ held' \in [Processes -> Seq(Generations)]
    BY <1>0, <1>4, <2>2 DEF OpenMap, ProcessTypes
  <2>4. stage' = [stage EXCEPT ![p] = IF Len(held'[p]) = Len(Maps) THEN "opened" ELSE "opening"]
    BY <1>4 DEF OpenMap
  <2>5. held'[p] = Append(held[p], NextPin(p)) /\ \A q \in Processes \ {p} : held'[q] = held[q]
    BY <1>0, <2>3 DEF ProcessTypes
  <2>6. ProcessTypes'
    BY <1>0, <1>4, <2>3, <2>4 DEF OpenMap, ProcessTypes, Stages
  <2>7. HeldComplete'
    <3> SUFFICES ASSUME NEW q \in Processes
                 PROVE  /\ stage'[q] \in Open => Len(held'[q]) = Len(Maps)
                        /\ stage'[q] = "opening" => Len(held'[q]) < Len(Maps)
                        /\ stage'[q] = "down" => held'[q] = <<>>
      BY DEF HeldComplete
    <3>1. CASE q = p
      <4>1. stage'[p] = IF Len(held'[p]) = Len(Maps) THEN "opened" ELSE "opening"
        BY <1>0, <2>4 DEF ProcessTypes
      <4>2. Len(held'[p]) = Len(held[p]) + 1
        BY <2>2, <2>5
      <4>3. CASE Len(held'[p]) = Len(Maps)
        BY <3>1, <4>1, <4>3 DEF Open
      <4>4. CASE Len(held'[p]) # Len(Maps)
        <5>1. Len(held'[p]) < Len(Maps)
          <6>1. Len(held[p]) \in Nat /\ Len(Maps) \in Nat
            BY <2>0
          <6> QED
            BY ONLY <6>1, <2>a, <4>2, <4>4
        <5> QED
          BY <3>1, <4>1, <4>4, <5>1 DEF Open
      <4> QED
        BY <4>3, <4>4
    <3>2. CASE q # p
      <4>1. stage'[q] = stage[q] /\ held'[q] = held[q]
        BY <1>0, <2>4, <2>5, <3>2 DEF ProcessTypes
      <4> QED
        BY <1>0, <4>1 DEF HeldComplete
    <3> QED
      BY <3>1, <3>2
  <2>8. LoaderTypes' /\ KernelTypes' /\ blind' \subseteq Daemons
    BY <1>0, <1>4 DEF OpenMap, LoaderTypes, KernelTypes
  <2> QED
    BY <2>6, <2>7, <2>8 DEF SInv
<1>a. ASSUME NEW p \in Processes, Close(p) PROVE HeldComplete'
  BY <1>0, <1>a DEF Close, HeldComplete, ProcessTypes, Open
<1>b. ASSUME NEW p \in Processes, Close(p)
      PROVE  stage' \in [Processes -> Stages] /\ held' \in [Processes -> Seq(Generations)]
  BY <1>0, <1>b DEF Close, ProcessTypes, Stages
<1>5. ASSUME NEW p \in Processes, OpenMapFails(p) \/ SetFails(p) PROVE SInv'
  <2>1. Close(p) /\ UNCHANGED <<loaderVars, kernelVars, prev, target, kills, history>>
    BY <1>5 DEF OpenMapFails, SetFails, Close
  <2> QED
    BY <1>0, <1>a, <1>b, <2>1 DEF SInv, LoaderTypes, KernelTypes, ProcessTypes
<1>6. ASSUME NEW p \in Processes, NEW read \in BOOLEAN, GetLogLevel(p, read) PROVE SInv'
  <2> USE <1>0, <1>6 DEF GetLogLevel
  <2>1. ConfigOf(p) \in Generations
    BY DEF ConfigOf, HeldComplete, ProcessTypes, Open
  <2>2. prev' \in [Processes -> 0 .. 4]
    BY <2>1 DEF KernelTypes, ProcessTypes, LogLevelOff
  <2> QED
    BY <2>2 DEF SInv, LoaderTypes, KernelTypes, ProcessTypes, HeldComplete, Open, Stages
<1>7. ASSUME NEW p \in Processes, SetLogLevel(p) PROVE SInv'
  <2> USE <1>0, <1>7 DEF SetLogLevel
  <2>1. level' \in [Generations -> 0 .. 4]
    BY DEF KernelTypes, ProcessTypes
  <2> QED
    BY <2>1 DEF SInv, LoaderTypes, KernelTypes, ProcessTypes, HeldComplete, Open, Stages
<1>8. ASSUME NEW p \in Processes, Notify(p) \/ ReaderFails(p) \/ Signal(p) PROVE SInv'
  <2>1. /\ UNCHANGED <<loaderVars, kernelVars, held, prev, target, kills, history>>
        /\ stage[p] \in Open
        /\ \E s \in {"running", "leaving"} : stage' = [stage EXCEPT ![p] = s]
    BY <1>8 DEF Notify, ReaderFails, Signal, Open
  <2>2. HeldComplete'
    BY <1>0, <2>1 DEF HeldComplete, ProcessTypes, Open
  <2>3. stage' \in [Processes -> Stages]
    BY <1>0, <2>1 DEF ProcessTypes, Stages
  <2> QED
    BY <1>0, <2>1, <2>2, <2>3 DEF SInv, LoaderTypes, KernelTypes, ProcessTypes
<1>9. ASSUME NEW p \in Processes, Read(p) PROVE SInv'
  <2> USE <1>0, <1>9 DEF Read
  <2>1. EventsOf(p) \in Generations
    BY DEF EventsOf, HeldComplete, ProcessTypes, Open
  <2>2. KernelTypes'
    BY <2>1 DEF KernelTypes
  <2>3. blind' \subseteq Daemons
    OBVIOUS
  <2> QED
    BY <2>2, <2>3 DEF SInv, LoaderTypes, ProcessTypes, HeldComplete
<1>10. ASSUME NEW p \in Processes, Restore(p) PROVE SInv'
  <2>1. /\ Close(p) /\ UNCHANGED <<loaderVars, ring, prev, target, kills, history>>
        /\ level' = [level EXCEPT ![ConfigOf(p)] =
                       IF p \in Daemons THEN prev[p] ELSE LogLevelOff]
    BY <1>10 DEF Restore
  <2>2. level' \in [Generations -> 0 .. 4]
    <3>1. (IF p \in Daemons THEN prev[p] ELSE LogLevelOff) \in 0 .. 4
      BY <1>0 DEF ProcessTypes, LogLevelOff
    <3> QED
      BY <1>0, <2>1, <3>1 DEF KernelTypes
  <2> QED
    BY <1>0, <1>a, <1>b, <2>1, <2>2 DEF SInv, LoaderTypes, KernelTypes, ProcessTypes
<1>11. ASSUME NEW p \in Processes, Kill(p) PROVE SInv'
  <2>1. Close(p) /\ UNCHANGED <<loaderVars, kernelVars, prev, target, history>>
    BY <1>11 DEF Kill
  <2>2. kills' \in 0 .. MaxKills
    BY <1>0, <1>11 DEF Kill, ProcessTypes
  <2> QED
    BY <1>0, <1>a, <1>b, <2>1, <2>2 DEF SInv, LoaderTypes, KernelTypes, ProcessTypes
<1>12. CASE UNCHANGED vars
  BY <1>0, <1>12 DEF vars, SInv, LoaderTypes, KernelTypes, ProcessTypes, HeldComplete
<1> QED
  <2>1. LogLevelDebug \in 0 .. 4 /\ Daemons \subseteq Processes /\ Monitors \subseteq Processes
    BY DEF LogLevelDebug, Processes
  <2> QED
    BY <1>1, <1>2, <1>3, <1>4, <1>5, <1>6, <1>7, <1>8, <1>9, <1>10, <1>11, <1>12, <2>1,
       ParsedLevels DEF Next, LoaderStep

\* The invariant of the types holds in every reachable state.
LEMMA SInvariance == Spec => []SInv
BY InitSInv, StepSInv, PTL DEF Spec

\* However loaders, daemons and monitors overlap, fail or are killed, a pin
\* is of an existing generation, a process past LoadPinnedMaps holds real
\* maps, and a level is one the program knows.
THEOREM TypeCorrect == Spec => []TypeOK
<1>1. SInv => TypeOK
  <2> SUFFICES ASSUME SInv PROVE TypeOK
    OBVIOUS
  <2>1. \A p \in Processes : held[p] \in Seq(Generations) /\ Len(held[p]) <= Len(Maps)
    <3> SUFFICES ASSUME NEW p \in Processes
                 PROVE  held[p] \in Seq(Generations) /\ Len(held[p]) <= Len(Maps)
      OBVIOUS
    <3>1. held[p] \in Seq(Generations) /\ Len(held[p]) \in Nat
      BY DEF SInv, ProcessTypes
    <3>2. Len(held[p]) = Len(Maps) \/ Len(held[p]) < Len(Maps) \/ held[p] = <<>>
      BY DEF SInv, ProcessTypes, HeldComplete, Stages, Open
    <3> QED
      BY <3>1, <3>2, MapsFacts
  <2>2. \A g \in Generations : ring[g] \in Seq(Severities) /\ Len(ring[g]) <= RingSize
    BY DEF SInv, KernelTypes
  <2> QED
    BY <2>1, <2>2 DEF SInv, LoaderTypes, KernelTypes, ProcessTypes, TypeOK, MapNames
<1> QED
  BY <1>1, SInvariance, PTL

-----------------------------------------------------------------------------
(* One daemon or monitor at a time.                                        *)

Alone == \A p, q \in Processes : stage[p] # "down" /\ stage[q] # "down" => p = q

OthersDown(p) == \A q \in Processes \ {p} : stage[q] = "down"

\* A step of a running process leaves all others where they are.
ProcessStep(p) ==
  \/ OpenMap(p) \/ OpenMapFails(p) \/ (\E read \in BOOLEAN : GetLogLevel(p, read))
  \/ SetLogLevel(p) \/ SetFails(p) \/ Notify(p) \/ ReaderFails(p)
  \/ Read(p) \/ Signal(p) \/ Restore(p) \/ Kill(p)

\* A daemon starts with level DEBUG, a monitor with the level it was given.
Starts(p, t) == Start(p, t) /\ t \in 0 .. 4 /\ (p \in Daemons => t = LogLevelDebug)

\* The steps, sorted by who takes them.
LEMMA StepKinds ==
  ASSUME Next
  PROVE  \/ LoaderStep
         \/ \E g \in Generations, sev \in Severities, token \in BOOLEAN : Handle(g, sev, token)
         \/ \E p \in Processes, t \in 0 .. 4 : Starts(p, t)
         \/ \E p \in Processes : ProcessStep(p)
<1>1. ASSUME NEW p \in Daemons, Start(p, LogLevelDebug)
      PROVE  \E q \in Processes, t \in 0 .. 4 : Starts(q, t)
  BY <1>1 DEF LogLevelDebug, Processes, Starts
<1>2. ASSUME NEW p \in Monitors, NEW n \in LevelNames \cap DOMAIN ParseLogLevel,
             Start(p, ParseLogLevel[n])
      PROVE  \E q \in Processes, t \in 0 .. 4 : Starts(q, t)
  <2>1. p \notin Daemons /\ p \in Processes /\ ParseLogLevel[n] \in 0 .. 4
    BY Bounds, ParsedLevels DEF Processes
  <2> QED
    BY <1>2, <2>1 DEF Starts
<1> QED
  BY <1>1, <1>2 DEF Next, LoaderStep, ProcessStep

\* A process that takes a step is not down, and is alone.
LEMMA StepperAlone ==
  ASSUME Alone, NEW p \in Processes, ProcessStep(p)
  PROVE  stage[p] # "down" /\ OthersDown(p)
<1>1. stage[p] # "down"
  BY DEF ProcessStep, OpenMap, OpenMapFails, GetLogLevel, SetLogLevel, SetFails, Notify,
         ReaderFails, Read, Signal, Restore, Kill
<1> QED
  BY <1>1 DEF Alone, OthersDown

\* So is one that starts.
LEMMA StarterAlone ==
  ASSUME ~Overlap, NEW p \in Processes, NEW t, Start(p, t)
  PROVE  OthersDown(p)
BY DEF Start, OthersDown

\* A step of one process changes no other's stage.
LEMMA StageFrame ==
  ASSUME ProcessTypes, NEW p \in Processes, ProcessStep(p) \/ (\E t : Start(p, t))
  PROVE  \A q \in Processes \ {p} : stage'[q] = stage[q]
<1>1. stage' = stage \/ \E s : stage' = [stage EXCEPT ![p] = s]
  <2>1. CASE OpenMap(p)
    BY <2>1, Zenon DEF OpenMap
  <2>2. CASE OpenMapFails(p) \/ (\E read \in BOOLEAN : GetLogLevel(p, read)) \/ SetLogLevel(p)
    BY <2>2, Zenon DEF OpenMapFails, GetLogLevel, SetLogLevel
  <2>3. CASE SetFails(p) \/ Restore(p) \/ Kill(p)
    BY <2>3, Zenon DEF SetFails, Restore, Kill, Close
  <2>4. CASE Notify(p) \/ ReaderFails(p) \/ Signal(p) \/ Read(p)
    BY <2>4, Zenon DEF Notify, ReaderFails, Signal, Read
  <2>5. CASE \E t : Start(p, t)
    BY <2>5, Zenon DEF Start
  <2> QED
    BY <2>1, <2>2, <2>3, <2>4, <2>5 DEF ProcessStep
<1> QED
  BY <1>1 DEF ProcessTypes

\* Neither loaders nor the program change a process's stage.
LEMMA QuietFrame ==
  ASSUME \/ LoaderStep
         \/ \E g \in Generations, sev \in Severities, token \in BOOLEAN : Handle(g, sev, token)
         \/ UNCHANGED vars
  PROVE  UNCHANGED <<level, stage, held, prev, target, kills, since>>
BY LoaderFrame DEF LUnchanged, Handle, vars

\* Without overlap, one process runs at a time.
LEMMA StepAlone == ASSUME ~Overlap, SInv, Alone, [Next]_vars PROVE Alone'
<1>1. CASE \E p \in Processes, t \in 0 .. 4 : Starts(p, t)
  <2>1. PICK p \in Processes, t \in 0 .. 4 : Start(p, t)
    BY <1>1 DEF Starts
  <2> QED
    BY <2>1, StarterAlone, StageFrame DEF SInv, OthersDown, Alone
<1>2. CASE \E p \in Processes : ProcessStep(p)
  <2>1. PICK p \in Processes : ProcessStep(p)
    BY <1>2
  <2> QED
    BY <2>1, StepperAlone, StageFrame DEF SInv, OthersDown, Alone
<1>3. CASE ~(\E p \in Processes, t \in 0 .. 4 : Starts(p, t)) /\ ~(\E p \in Processes : ProcessStep(p))
  BY <1>3, StepKinds, QuietFrame DEF Alone
<1> QED
  BY <1>1, <1>2, <1>3

-----------------------------------------------------------------------------
(* The level.                                                              *)

\* A process that has raised the level finds it as it set it.
LevelHeld ==
  /\ \A d \in Daemons : target[d] = LogLevelDebug
  /\ \A p \in Processes :
       stage[p] \in {"raised", "running"} => level[ConfigOf(p)] = target[p]

\* Whoever finds a level other than OFF is the one who set it.
LevelOwned ==
  kills = 0 =>
    /\ \A g \in Generations : level[g] # LogLevelOff =>
         \E p \in Processes : stage[p] \in Raised /\ ConfigOf(p) = g
    /\ \A p \in Processes : stage[p] \in Raised \cup {"starting"} => prev[p] = LogLevelOff

\* A process past LoadPinnedMaps has a configuration map.
LEMMA ConfigOfOpen ==
  ASSUME SInv, NEW p \in Processes, stage[p] \in Open
  PROVE  ConfigOf(p) \in Generations /\ EventsOf(p) \in Generations
BY MapsFacts DEF SInv, ProcessTypes, HeldComplete, ConfigOf, EventsOf

\* A change of stage that keeps the maps keeps the configuration map.
LEMMA SameConfig ==
  ASSUME held' = held, NEW p
  PROVE  ConfigOf(p)' = ConfigOf(p)
BY DEF ConfigOf

\* Without overlap, the level stays what the running process wrote.
LEMMA StepLevelHeld ==
  ASSUME ~Overlap, SInv, Alone, LevelHeld, [Next]_vars PROVE LevelHeld'
<1>1. ASSUME NEW p \in Processes, NEW t \in 0 .. 4, Starts(p, t) PROVE LevelHeld'
  <2>1. OthersDown(p) /\ target' = [target EXCEPT ![p] = t] /\ stage'[p] = "opening"
    BY <1>1, StarterAlone DEF Starts, Start, SInv, ProcessTypes
  <2>2. \A q \in Processes : stage'[q] \in {"opening", "down"}
    BY <1>1, <2>1, StageFrame DEF Starts, SInv, OthersDown
  <2>3. \A d \in Daemons : target'[d] = LogLevelDebug
    BY <1>1, <2>1 DEF LevelHeld, Starts, SInv, ProcessTypes, Processes
  <2> QED
    BY <2>2, <2>3 DEF LevelHeld
<1>2. ASSUME NEW p \in Processes, ProcessStep(p) PROVE LevelHeld'
  <2>1. \A q \in Processes \ {p} : stage'[q] = "down"
    BY <1>2, StepperAlone, StageFrame DEF SInv, OthersDown
  <2>2. UNCHANGED target
    BY <1>2 DEF ProcessStep, OpenMap, OpenMapFails, GetLogLevel, SetLogLevel, SetFails,
                Notify, ReaderFails, Read, Signal, Restore, Kill, Close
  <2>3. ASSUME stage'[p] \in {"raised", "running"} PROVE level'[ConfigOf(p)'] = target[p]
    <3>1. stage[p] \in Stages /\ p \in DOMAIN stage
      BY DEF SInv, ProcessTypes
    <3>2. CASE SetLogLevel(p)
      <4>1. /\ ConfigOf(p)' = ConfigOf(p) /\ ConfigOf(p) \in Generations
            /\ level' = [level EXCEPT ![ConfigOf(p)] = target[p]]
        BY <3>2, SameConfig, ConfigOfOpen DEF SetLogLevel, Open
      <4> QED
        BY <4>1 DEF SInv, KernelTypes
    <3>3. CASE Notify(p) \/ Read(p)
      <4>1. stage[p] \in {"raised", "running"} /\ held' = held /\ level' = level
        BY <3>3 DEF Notify, Read
      <4> QED
        BY <4>1, SameConfig DEF LevelHeld
    <3>4. CASE OpenMap(p)
      BY <2>3, <3>1, <3>4 DEF OpenMap
    <3>5. CASE OpenMapFails(p) \/ (\E read \in BOOLEAN : GetLogLevel(p, read)) \/ SetFails(p)
                 \/ ReaderFails(p) \/ Signal(p) \/ Restore(p) \/ Kill(p)
      BY <2>3, <3>1, <3>5
         DEF OpenMapFails, GetLogLevel, SetFails, ReaderFails, Signal, Restore, Kill, Close
    <3> QED
      BY <1>2, <3>2, <3>3, <3>4, <3>5 DEF ProcessStep
  <2> QED
    BY <2>1, <2>2, <2>3 DEF LevelHeld
<1>3. CASE UNCHANGED <<level, stage, held, prev, target, kills, since>>
  BY <1>3, SameConfig DEF LevelHeld
<1> QED
  BY <1>1, <1>2, <1>3, StepKinds, QuietFrame

\* Without overlap, a raised level has a process that will lower it.
LEMMA StepLevelOwned ==
  ASSUME ~Overlap, SInv, Alone, LevelOwned, [Next]_vars PROVE LevelOwned'
<1> SUFFICES ASSUME kills' = 0
             PROVE  /\ \A g \in Generations : level'[g] # LogLevelOff =>
                         \E p \in Processes : stage'[p] \in Raised /\ ConfigOf(p)' = g
                    /\ \A p \in Processes :
                         stage'[p] \in Raised \cup {"starting"} => prev'[p] = LogLevelOff
  BY DEF LevelOwned
<1>1. ASSUME NEW p \in Processes, NEW t \in 0 .. 4, Starts(p, t)
      PROVE  LevelOwned'
  <2>1. /\ OthersDown(p) /\ stage[p] = "down" /\ stage'[p] = "opening"
        /\ kills' = kills /\ level' = level
    BY <1>1, StarterAlone DEF Starts, Start, SInv, ProcessTypes
  <2>2. \A q \in Processes : stage'[q] \in {"opening", "down"} /\ stage[q] = "down"
    BY <1>1, <2>1, StageFrame DEF Starts, SInv, OthersDown
  <2> QED
    BY <2>1, <2>2 DEF LevelOwned, Raised
<1>2. ASSUME NEW p \in Processes, ProcessStep(p) PROVE LevelOwned'
  <2>0. kills = 0 /\ ~Kill(p)
    BY <1>2 DEF ProcessStep, OpenMap, OpenMapFails, GetLogLevel, SetLogLevel, SetFails,
                Notify, ReaderFails, Read, Signal, Restore, Kill, Close, SInv, ProcessTypes
  <2>1. \A q \in Processes \ {p} : stage[q] = "down" /\ stage'[q] = "down"
    BY <1>2, StepperAlone, StageFrame DEF SInv, OthersDown
  <2>2. \A g \in Generations : level[g] # LogLevelOff => stage[p] \in Raised /\ ConfigOf(p) = g
    BY <2>0, <2>1 DEF LevelOwned, Raised
  <2>3. stage[p] \in Raised \cup {"starting"} => prev[p] = LogLevelOff
    BY <2>0 DEF LevelOwned
  <2>a. p \in DOMAIN stage /\ p \in DOMAIN prev
    BY DEF SInv, ProcessTypes
  <2> SUFFICES /\ \A g \in Generations : level'[g] # LogLevelOff =>
                     stage'[p] \in Raised /\ ConfigOf(p)' = g
               /\ stage'[p] \in Raised \cup {"starting"} => prev'[p] = LogLevelOff
    BY <2>1 DEF LevelOwned, Raised
  <2>4. CASE OpenMap(p) \/ OpenMapFails(p) \/ SetFails(p)
    <3>1. /\ stage[p] \notin Raised /\ level' = level
          /\ stage'[p] \in {"opened", "opening", "down"}
      BY <2>4, <2>a DEF OpenMap, OpenMapFails, SetFails, Close, Raised
    <3> QED
      BY <2>2, <3>1 DEF Raised
  <2>5. CASE \E read \in BOOLEAN : GetLogLevel(p, read)
    <3>1. PICK read \in BOOLEAN : GetLogLevel(p, read)
      BY <2>5
    <3>2. stage[p] = "opened" /\ level' = level /\ stage'[p] = "starting"
      BY <2>a, <3>1 DEF GetLogLevel
    <3>3. ConfigOf(p) \in Generations
      BY <3>2, ConfigOfOpen DEF Open
    <3>4. \A g \in Generations : level[g] = LogLevelOff
      BY <2>2, <3>2 DEF Raised
    <3>5. prev'[p] = LogLevelOff
      BY <2>a, <3>1, <3>3, <3>4 DEF GetLogLevel
    <3> QED
      BY <3>2, <3>4, <3>5 DEF Raised
  <2>6. CASE SetLogLevel(p)
    <3>1. /\ stage[p] = "starting" /\ stage'[p] = "raised" /\ held' = held /\ prev' = prev
          /\ level' = [level EXCEPT ![ConfigOf(p)] = target[p]]
      BY <2>6, <2>a DEF SetLogLevel
    <3>2. ConfigOf(p) \in Generations /\ ConfigOf(p)' = ConfigOf(p)
      BY <3>1, ConfigOfOpen, SameConfig DEF Open
    <3>3. \A g \in Generations \ {ConfigOf(p)} : level'[g] = LogLevelOff
      BY <2>2, <3>1, <3>2 DEF Raised, SInv, KernelTypes
    <3> QED
      BY <2>3, <3>1, <3>2, <3>3 DEF Raised
  <2>7. CASE Notify(p) \/ ReaderFails(p) \/ Signal(p) \/ Read(p)
    <3>1. /\ stage[p] \in Raised /\ stage'[p] \in Raised /\ level' = level /\ held' = held
          /\ prev' = prev
      BY <2>7, <2>a DEF Notify, ReaderFails, Signal, Read, Raised
    <3> QED
      BY <2>2, <2>3, <3>1, SameConfig
  <2>8. CASE Restore(p)
    <3>1. /\ stage[p] = "leaving" /\ stage'[p] = "down"
          /\ level' = [level EXCEPT ![ConfigOf(p)] =
                         IF p \in Daemons THEN prev[p] ELSE LogLevelOff]
      BY <2>8, <2>a DEF Restore, Close
    <3>2. ConfigOf(p) \in Generations /\ prev[p] = LogLevelOff
      BY <2>3, <3>1, ConfigOfOpen DEF Open, Raised
    <3>3. \A g \in Generations : level'[g] = LogLevelOff
      BY <2>2, <3>1, <3>2 DEF SInv, KernelTypes
    <3> QED
      BY <3>1, <3>3 DEF Raised
  <2> QED
    BY <1>2, <2>0, <2>4, <2>5, <2>6, <2>7, <2>8 DEF ProcessStep
<1>3. CASE UNCHANGED <<level, stage, held, prev, target, kills, since>>
  BY <1>3, SameConfig DEF LevelOwned
<1> QED
  BY <1>1, <1>2, <1>3, StepKinds, QuietFrame DEF LevelOwned

\* A daemon alone misses nothing in a step: what the program does not report
\* the level forbids, and the daemon's level forbids nothing.
LEMMA StepNothingMissed ==
  ASSUME SInv, Alone, LevelHeld, DaemonMissesNothing, [Next]_vars PROVE DaemonMissesNothing'
<1>1. ASSUME NEW g \in Generations, NEW sev \in Severities, NEW token \in BOOLEAN,
             Handle(g, sev, token)
      PROVE  DaemonMissesNothing'
  <2>1. ASSUME NEW p \in Daemons, stage[p] = "running", HoldsAll(p, g)
        PROVE  level[g] # LogLevelOff /\ sev >= level[g]
    <3>1. p \in Processes /\ ConfigOf(p) = g
      BY <2>1, MapsFacts DEF Processes, HoldsAll, ConfigOf, SInv, ProcessTypes, HeldComplete, Open
    <3>2. level[g] = 1
      BY <2>1, <3>1 DEF LevelHeld, LogLevelDebug
    <3>3. sev \in 1 .. 4
      BY Bounds
    <3> QED
      BY <3>2, <3>3 DEF LogLevelOff
  <2> QED
    BY <1>1, <2>1 DEF Handle, DaemonMissesNothing
<1>2. ASSUME NEW p \in Processes, Read(p) PROVE DaemonMissesNothing'
  <2>1. \A q \in Daemons \ {p} : stage[q] # "running"
    BY <1>2 DEF Alone, Read, Processes
  <2> QED
    BY <1>2, <2>1 DEF Read, DaemonMissesNothing
<1>3. ASSUME NEW p \in Processes, NEW t, Start(p, t) PROVE DaemonMissesNothing'
  BY <1>3 DEF Start, DaemonMissesNothing
<1>4. ASSUME NEW p \in Processes, ProcessStep(p), ~Read(p) PROVE UNCHANGED blind
  BY <1>4 DEF ProcessStep, OpenMap, OpenMapFails, GetLogLevel, SetLogLevel, SetFails,
              Notify, ReaderFails, Signal, Restore, Kill, Close
<1>5. LoaderStep \/ UNCHANGED vars => UNCHANGED blind
  BY LoaderFrame DEF LUnchanged, vars
<1> QED
  BY <1>1, <1>2, <1>3, <1>4, <1>5, StepKinds DEF DaemonMissesNothing, Starts

-----------------------------------------------------------------------------
(* One loader at a time.                                                   *)

LoaderAlone ==
  \A k, l \in Loaders : lstage[k] # "down" /\ lstage[l] # "down" => k = l

\* A running loader's generation is the newest.
Newest == \A l \in Loaders : lstage[l] # "down" => lgen[l] = loads /\ loads > 0

\* What a loader has done with the pins so far; a pin it could not remove
\* may be anyone's.
Pinned(l, i) ==
  pins[Maps[i]] \in {None, lgen[l]} \/ <<lgen[l], Maps[i]>> \in stuck
PinsMine ==
  \A l \in Loaders :
    /\ lstage[l] \in {"unpinning", "pinning"} => \A i \in DOMAIN Maps : i < lpos[l] => Pinned(l, i)
    /\ lstage[l] = "pinning" =>
         pins[Maps[lpos[l]]] = None \/ <<lgen[l], Maps[lpos[l]]>> \in stuck
    /\ lstage[l] \in {"attaching", "up"} => \A i \in DOMAIN Maps : Pinned(l, i)

\* No process has seen a generation up that is only being brought up.
SinceUp ==
  \A p \in Processes :
    /\ since[p] <= loads
    /\ \A l \in Loaders : lstage[l] \in {"unpinning", "pinning", "attaching"} => since[p] # loads

\* While the generation a process set out with is up, all it has opened is
\* of that generation, or of a pin its loader could not remove.
SinceHeld == \A p \in Processes : since[p] \in Up => HoldsOwn(p)

LInv == LoaderAlone /\ Newest /\ PinsMine /\ SinceUp /\ SinceHeld

\* With no loader up there is nothing to hold.
LEMMA NoneUp ==
  ASSUME \A l \in Loaders : lstage[l] # "up"
  PROVE  Up = {}
BY DEF Up

\* A loader's steps on the way up.
LEMMA ClimbLInv ==
  ASSUME ~Overlap, SInv, LInv, NEW l \in Loaders,
         Load(l) \/ RemoveFile(l) \/ RemoveFileFails(l) \/ Pin(l) \/ PinFails(l)
  PROVE  LInv'
<1> USE MapsFacts, Bounds
<1>0. LoaderTypes /\ lpos[l] \in DOMAIN Maps /\ loads \in Nat /\ l \in DOMAIN lstage
  BY DEF SInv, LoaderTypes
<1>a. \A p \in Processes : since[p] \in Nat
  BY DEF SInv, ProcessTypes, Generations, None
<1>b. UNCHANGED <<since, held>>
  BY LoaderFrame DEF LoaderStep, LUnchanged
<1>c. \A k \in Loaders \ {l} : lstage[k] = "down"
  BY DEF LInv, LoaderAlone, Load, RemoveFile, RemoveFileFails, Pin, PinFails
<1>d. /\ lstage'[l] \in {"unpinning", "pinning", "attaching"}
      /\ \A k \in Loaders \ {l} : lstage'[k] = "down"
  BY <1>0, <1>c DEF Load, RemoveFile, RemoveFileFails, Pin, PinFails, NextMap, LoaderTypes
<1>1. LoaderAlone'
  BY <1>d DEF LoaderAlone
<1>2. Newest'
  <2>1. lgen'[l] = loads' /\ loads' > 0
    <3>1. CASE Load(l)
      BY <1>0, <3>1 DEF Load, LoaderTypes
    <3>2. CASE RemoveFile(l) \/ RemoveFileFails(l) \/ Pin(l) \/ PinFails(l)
      BY <1>0, <3>2 DEF RemoveFile, RemoveFileFails, Pin, PinFails, LInv, Newest
    <3> QED
      BY <3>1, <3>2
  <2> QED
    BY <1>d, <2>1 DEF Newest
<1>3. PinsMine'
  <2>1. CASE Load(l)
    <3>1. lpos'[l] = 1 /\ lstage'[l] = "unpinning"
      BY <1>0, <2>1 DEF Load, LoaderTypes
    <3> QED
      BY <1>d, <3>1 DEF PinsMine
  <2>2. CASE RemoveFile(l)
    <3>1. /\ lpos' = lpos /\ lgen' = lgen /\ lstage[l] = "unpinning" /\ lstage'[l] = "pinning"
          /\ stuck' = stuck /\ pins' = [pins EXCEPT ![Maps[lpos[l]]] = None]
      BY <1>0, <2>2 DEF RemoveFile, LoaderTypes
    <3>2. \A i \in DOMAIN Maps : pins'[Maps[i]] \in {pins[Maps[i]], None}
      BY <1>0, <3>1 DEF LoaderTypes, MapNames
    <3>3. pins'[Maps[lpos[l]]] = None
      BY <1>0, <3>1 DEF LoaderTypes, MapNames
    <3> QED
      BY <1>d, <3>1, <3>2, <3>3 DEF LInv, PinsMine, Pinned
  <2>4. CASE RemoveFileFails(l)
    <3>1. /\ UNCHANGED <<lpos, lgen, pins>> /\ lstage[l] = "unpinning"
          /\ lstage'[l] = "pinning" /\ stuck' = stuck \cup {<<lgen[l], Maps[lpos[l]]>>}
      BY <1>0, <2>4 DEF RemoveFileFails, LoaderTypes
    <3> QED
      BY <1>d, <3>1 DEF LInv, PinsMine, Pinned
  <2>3. CASE Pin(l) \/ PinFails(l)
    <3>1. /\ lgen' = lgen /\ stuck' = stuck /\ lstage[l] = "pinning" /\ NextMap(l)
          /\ pins[Maps[lpos[l]]] = None \/ <<lgen[l], Maps[lpos[l]]>> \in stuck
      BY <2>3 DEF Pin, PinFails, LInv, PinsMine
    <3>2. \A i \in DOMAIN Maps : pins'[Maps[i]] \in {pins[Maps[i]], None, lgen[l]}
      BY <1>0, <2>3 DEF LoaderTypes, MapNames, Pin, PinFails
    <3>3. pins'[Maps[lpos[l]]] \in {None, lgen[l]} \/ <<lgen[l], Maps[lpos[l]]>> \in stuck
      BY <1>0, <2>3, <3>1 DEF LoaderTypes, MapNames, Pin, PinFails
    <3>4. \A i \in DOMAIN Maps : i <= lpos[l] => Pinned(l, i)'
      <4> SUFFICES ASSUME NEW i \in DOMAIN Maps, i <= lpos[l] PROVE Pinned(l, i)'
        OBVIOUS
      <4>1. CASE i = lpos[l]
        BY <3>1, <3>3, <4>1 DEF Pinned
      <4>2. CASE i < lpos[l]
        <5>1. Pinned(l, i)
          BY <3>1, <4>2 DEF LInv, PinsMine
        <5> QED
          BY <3>1, <3>2, <5>1 DEF Pinned
      <4> QED
        BY <1>0, <4>1, <4>2
    <3>5. CASE lpos[l] < Len(Maps)
      <4>1. lpos'[l] = lpos[l] + 1 /\ lstage'[l] = "unpinning"
        BY <1>0, <3>1, <3>5 DEF NextMap, LoaderTypes
      <4> QED
        BY <1>0, <1>d, <3>4, <4>1 DEF PinsMine
    <3>6. CASE ~(lpos[l] < Len(Maps))
      <4>1. lpos[l] = Len(Maps) /\ lstage'[l] = "attaching"
        BY <1>0, <3>1, <3>6 DEF NextMap, LoaderTypes
      <4> QED
        BY <1>0, <1>d, <3>4, <4>1 DEF PinsMine
    <3> QED
      BY <3>5, <3>6
  <2> QED
    BY <2>1, <2>2, <2>3, <2>4
<1>4. SinceUp'
  <2>1. CASE Load(l)
    BY <1>0, <1>a, <1>b, <2>1 DEF Load, LInv, SinceUp
  <2>2. CASE RemoveFile(l) \/ RemoveFileFails(l) \/ Pin(l) \/ PinFails(l)
    <3>1. lstage[l] \in {"unpinning", "pinning"} /\ loads' = loads
      BY <2>2 DEF RemoveFile, RemoveFileFails, Pin, PinFails
    <3> QED
      BY <1>b, <3>1 DEF LInv, SinceUp
  <2> QED
    BY <2>1, <2>2
<1>5. SinceHeld'
  <2>1. Up' = {}
    BY <1>d DEF Up
  <2> QED
    BY <2>1 DEF SinceHeld
<1> QED
  BY <1>1, <1>2, <1>3, <1>4, <1>5 DEF LInv

\* A loader attaches, is told to stop, or ends.
LEMMA EndLInv ==
  ASSUME ~Overlap, SInv, LInv, NEW l \in Loaders,
         Attach(l) \/ (\E gone \in SUBSET DOMAIN pins : CtrlC(l, gone)) \/ LoaderEnds(l)
  PROVE  LInv'
<1>0. LoaderTypes /\ l \in DOMAIN lstage /\ lstage[l] # "down"
  BY DEF SInv, LoaderTypes, Attach, CtrlC, LoaderEnds
<1>b. UNCHANGED <<since, held, loads, lgen, lpos, stuck>>
  BY LoaderFrame DEF LoaderStep, LUnchanged, Attach, CtrlC, LoaderEnds
<1>c. \A k \in Loaders \ {l} : lstage[k] = "down" /\ lstage'[k] = "down"
  BY <1>0 DEF LInv, LoaderAlone, LoaderTypes, Attach, CtrlC, LoaderEnds
<1>d. \/ Attach(l) /\ lstage[l] = "attaching" /\ lstage'[l] = "up" /\ pins' = pins
      \/ lstage'[l] \in {"unpinned", "down"}
  BY <1>0 DEF Attach, CtrlC, LoaderEnds, LoaderTypes
<1>1. LoaderAlone' /\ Newest'
  BY <1>0, <1>b, <1>c DEF LInv, LoaderAlone, Newest
<1>2. PinsMine'
  BY <1>b, <1>c, <1>d DEF LInv, PinsMine, Pinned
<1>3. SinceUp'
  BY <1>b, <1>c, <1>d DEF LInv, SinceUp
<1>4. SinceHeld'
  <2>1. CASE Attach(l) /\ lstage[l] = "attaching" /\ lstage'[l] = "up"
    <3>1. lgen[l] = loads /\ \A p \in Processes : since[p] # loads
      BY <2>1 DEF LInv, Newest, SinceUp
    <3>2. Up' \subseteq {loads}
      BY <1>b, <1>c, <3>1 DEF Up
    <3> QED
      BY <1>b, <3>1, <3>2 DEF SinceHeld
  <2>2. CASE lstage'[l] \in {"unpinned", "down"}
    <3>1. Up' = {}
      BY <1>c, <2>2 DEF Up
    <3> QED
      BY <3>1 DEF SinceHeld
  <2> QED
    BY <1>d, <2>1, <2>2
<1> QED
  BY <1>1, <1>2, <1>3, <1>4 DEF LInv

\* Without overlap, the pins stay those of the loader that is up.
LEMMA StepLInv == ASSUME ~Overlap, SInv, LInv, [Next]_vars PROVE LInv'
<1>1. CASE LoaderStep
  BY <1>1, ClimbLInv, EndLInv DEF LoaderStep
<1>2. ASSUME UNCHANGED loaderVars, SinceUp', SinceHeld' PROVE LInv'
  BY <1>2 DEF LInv, LoaderAlone, Newest, PinsMine, Pinned
<1>3. CASE UNCHANGED <<loaderVars, held, since>>
  BY <1>2, <1>3 DEF LInv, SinceUp, SinceHeld, HoldsOwn, Up
<1>4. ASSUME NEW p \in Processes, NEW t, Start(p, t) PROVE LInv'
  <2>1. /\ UNCHANGED loaderVars /\ Up' = Up /\ held' = [held EXCEPT ![p] = <<>>]
        /\ since' = [since EXCEPT ![p] = IF loads \in Up THEN loads ELSE None]
    BY <1>4 DEF Start, Up
  <2>2. SinceUp'
    <3>1. loads \in Nat
      BY Bounds DEF SInv, LoaderTypes
    <3>2. loads \in Up =>
            \A l \in Loaders : lstage[l] \notin {"unpinning", "pinning", "attaching"}
      BY DEF Up, LInv, LoaderAlone
    <3>3. \A l \in Loaders : lstage[l] \in {"unpinning", "pinning", "attaching"} => loads > 0
      BY DEF LInv, Newest
    <3> QED
      BY <2>1, <3>1, <3>2, <3>3 DEF LInv, SinceUp, SInv, ProcessTypes, None
  <2>3. SinceHeld'
    <3>1. held'[p] = <<>> /\ \A q \in Processes \ {p} : held'[q] = held[q] /\ since'[q] = since[q]
      BY <2>1 DEF SInv, ProcessTypes
    <3>2. HoldsOwn(p)'
      BY <3>1 DEF HoldsOwn
    <3>3. ASSUME NEW q \in Processes \ {p}, since'[q] \in Up PROVE HoldsOwn(q)'
      <4>1. HoldsOwn(q)
        BY <3>1, <3>3 DEF LInv, SinceHeld
      <4> QED
        BY <2>1, <3>1, <4>1 DEF HoldsOwn
    <3> QED
      BY <2>1, <3>2, <3>3 DEF SinceHeld
  <2> QED
    BY <1>2, <2>1, <2>2, <2>3
<1>5. ASSUME NEW p \in Processes, OpenMap(p) PROVE LInv'
  <2>0. UNCHANGED <<loaderVars, since>> /\ Up' = Up
    BY <1>5 DEF OpenMap, Up
  <2>1. /\ held[p] \in Seq(Generations) /\ Len(held[p]) \in Nat /\ Len(held[p]) < Len(Maps)
        /\ NextPin(p) # None
    <3>1. held[p] \in Seq(Generations) /\ stage[p] = "opening" /\ NextPin(p) # None
      BY <1>5 DEF OpenMap, SInv, ProcessTypes
    <3> QED
      BY <3>1 DEF SInv, HeldComplete
  <2>2. held' = [held EXCEPT ![p] = Append(held[p], NextPin(p))]
    BY <1>5 DEF OpenMap
  <2>3. ASSUME since[p] \in Up PROVE HoldsOwn(p)'
    <3>1. PICK l \in Loaders : lstage[l] = "up" /\ lgen[l] = since[p]
      BY <2>3 DEF Up
    <3>2. Len(held[p]) + 1 \in DOMAIN Maps
      BY <2>1, MapsFacts
    <3>3. NextPin(p) = since[p] \/ <<since[p], Maps[Len(held[p]) + 1]>> \in stuck
      BY <2>1, <3>1, <3>2 DEF NextPin, LInv, PinsMine, Pinned
    <3>4. \A i \in DOMAIN held[p] : held[p][i] = since[p] \/ <<since[p], Maps[i]>> \in stuck
      BY <2>3 DEF LInv, SinceHeld, HoldsOwn
    <3>5. \A i \in DOMAIN Append(held[p], NextPin(p)) :
            \/ Append(held[p], NextPin(p))[i] = since[p]
            \/ <<since[p], Maps[i]>> \in stuck
      <4>1. DOMAIN held[p] = 1 .. Len(held[p])
            /\ DOMAIN Append(held[p], NextPin(p)) = 1 .. Len(held[p]) + 1
        BY <2>1
      <4>2. \A i \in 1 .. Len(held[p]) : Append(held[p], NextPin(p))[i] = held[p][i]
        BY <2>1
      <4>3. Append(held[p], NextPin(p))[Len(held[p]) + 1] = NextPin(p)
        BY <2>1
      <4> QED
        BY <2>1, <3>3, <3>4, <4>1, <4>2, <4>3
    <3> QED
      BY <2>0, <2>2, <3>5 DEF HoldsOwn, SInv, ProcessTypes
  <2>4. SinceHeld'
    BY <2>0, <2>2, <2>3 DEF LInv, SinceHeld, HoldsOwn, SInv, ProcessTypes
  <2>5. SinceUp'
    BY <2>0 DEF LInv, SinceUp
  <2> QED
    BY <1>2, <2>0, <2>4, <2>5
<1>6. ASSUME NEW p \in Processes, OpenMapFails(p) \/ SetFails(p) \/ Restore(p) \/ Kill(p)
      PROVE  LInv'
  <2>1. UNCHANGED <<loaderVars, since>> /\ Up' = Up /\ held' = [held EXCEPT ![p] = <<>>]
    BY <1>6 DEF OpenMapFails, SetFails, Restore, Kill, Close, Up
  <2>2. SinceHeld'
    <3>1. held'[p] = <<>> /\ \A q \in Processes \ {p} : held'[q] = held[q] /\ since'[q] = since[q]
      BY <2>1 DEF SInv, ProcessTypes
    <3>2. HoldsOwn(p)'
      BY <3>1 DEF HoldsOwn
    <3>3. ASSUME NEW q \in Processes \ {p}, since'[q] \in Up PROVE HoldsOwn(q)'
      <4>1. HoldsOwn(q)
        BY <3>1, <3>3 DEF LInv, SinceHeld
      <4> QED
        BY <2>1, <3>1, <4>1 DEF HoldsOwn
    <3> QED
      BY <2>1, <3>2, <3>3 DEF SinceHeld
  <2>3. SinceUp'
    BY <2>1 DEF LInv, SinceUp
  <2> QED
    BY <1>2, <2>1, <2>2, <2>3
<1>7. ASSUME NEW p \in Processes,
             \/ (\E read \in BOOLEAN : GetLogLevel(p, read)) \/ SetLogLevel(p) \/ Notify(p)
             \/ ReaderFails(p) \/ Read(p) \/ Signal(p)
      PROVE  UNCHANGED <<loaderVars, held, since>>
  BY <1>7 DEF GetLogLevel, SetLogLevel, Notify, ReaderFails, Read, Signal
<1>8. ASSUME NEW g \in Generations, NEW sev \in Severities, NEW token \in BOOLEAN,
             Handle(g, sev, token)
      PROVE  UNCHANGED <<loaderVars, held, since>>
  BY <1>8 DEF Handle
<1>9. UNCHANGED vars => UNCHANGED <<loaderVars, held, since>>
  BY DEF vars
<1> QED
  BY <1>1, <1>3, <1>4, <1>5, <1>6, <1>7, <1>8, <1>9, StepKinds DEF ProcessStep, Starts

-----------------------------------------------------------------------------
(* What the operator relies on.                                            *)

\* At the start nobody runs and nothing is pinned.
LEMMA InitAlone ==
  Init => Alone /\ LevelHeld /\ LevelOwned /\ DaemonMissesNothing /\ LInv
<1> SUFFICES ASSUME Init
             PROVE  Alone /\ LevelHeld /\ LevelOwned /\ DaemonMissesNothing /\ LInv
  OBVIOUS
<1>1. Alone /\ LevelHeld /\ LevelOwned /\ DaemonMissesNothing
  BY DEF Init, Alone, LevelHeld, LevelOwned, DaemonMissesNothing, Raised, Processes
<1>2. LoaderAlone /\ Newest /\ PinsMine
  BY DEF Init, LoaderAlone, Newest, PinsMine
<1>3. SinceUp /\ SinceHeld
  BY DEF Init, SinceUp, SinceHeld, HoldsOwn, None
<1> QED
  BY <1>1, <1>2, <1>3 DEF LInv

\* Without overlap all of the invariants hold in every reachable state.
LEMMA AloneInvariance ==
  ASSUME ~Overlap
  PROVE  Spec => [](SInv /\ Alone /\ LevelHeld /\ LevelOwned /\ DaemonMissesNothing /\ LInv)
<1>1. SInv /\ Alone /\ LevelHeld /\ LevelOwned /\ DaemonMissesNothing /\ LInv /\ [Next]_vars
      => (SInv /\ Alone /\ LevelHeld /\ LevelOwned /\ DaemonMissesNothing /\ LInv)'
  BY StepSInv, StepAlone, StepLevelHeld, StepLevelOwned, StepNothingMissed, StepLInv
<1> QED
  BY <1>1, InitSInv, InitAlone, PTL DEF Spec

\* When all daemons and monitors have gone, none of them killed, no map of
\* any generation is left with a level: the daemon that restores what it
\* read always read OFF, provided no other ran at the same time
\* (daemon.go:33-34, monitor.go:28).
THEOREM LevelComesBack == ASSUME ~Overlap PROVE Spec => []LevelRestored
<1>1. LevelOwned => LevelRestored
  BY DEF LevelOwned, LevelRestored, Raised
<1> QED
  BY <1>1, AloneInvariance, PTL

\* A daemon that runs alone is told of every packet the program behind its
\* maps handles, also after any number of predecessors were killed and left
\* their level behind, as far as ring buffer and log limiter have room.
THEOREM NothingMissedAlone == ASSUME ~Overlap PROVE Spec => []DaemonMissesNothing
BY AloneInvariance, PTL

\* Whoever opens the pins while the loader is up, and finds it still up,
\* holds the maps of the attached program and no others, whatever earlier
\* loaders, killed or stopped, left in the pin directory, except under a name
\* whose older pin this loader failed to remove (main.rs:48-72).
THEOREM MapsMatchProgram == ASSUME ~Overlap PROVE Spec => []MapsOfProgram
<1>1. LInv => MapsOfProgram
  BY DEF LInv, SinceHeld, MapsOfProgram
<1> QED
  BY <1>1, AloneInvariance, PTL
=============================================================================
