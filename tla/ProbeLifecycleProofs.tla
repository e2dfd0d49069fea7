------------------------ MODULE ProbeLifecycleProofs -------------------------
(***************************************************************************)
(* What holds of the probe's lifecycle for any number of starts, of isolates *)
(* that exit and of failures, as long as no request overlaps a spawn that    *)
(* nothing protects from it: one feed, nothing stale, nothing left running.  *)
(***************************************************************************)
EXTENDS ProbeLifecycle, TLAPS

-----------------------------------------------------------------------------
(* The inductive invariant.                                                  *)

ExporterTypes ==
    /\ phase \in [Handles -> {"unused", "spawning", "connecting", "live", "waiting", "done"}]
    /\ stopped \in [Handles -> BOOLEAN]
    /\ currentId \in [Handles -> Isolates \cup {None}]
    /\ starts \in Handles
RacedType == raced \subseteq {"first start", "respawn", "shutdown"}
CallerTypes ==
    /\ handle \in Handles \cup {None} /\ mainWaits \in {None, 1}
    /\ restartWaits \in Handles \cup {None} /\ latest \in Handles \cup {None}
    /\ restart \in {"idle", "stopping", "starting"}
    /\ restart = "starting" <=> restartWaits # None
    /\ RacedType
DaemonTypes ==
    /\ kills \in [{"restart", "shutdown"} -> Isolates \cup {None}]
    /\ alive \subseteq Isolates /\ lastIsolate \in Nat

LEMMA Types == ExporterTypes /\ CallerTypes /\ DaemonTypes => TypeOK
BY DEF TypeOK, ExporterTypes, CallerTypes, RacedType, DaemonTypes

\* What is known of isolates, and of the waits, whatever overlaps.
IdsKnown ==
    /\ alive \subseteq 1..lastIsolate
    /\ handle <= starts
    /\ \A h \in Handles : /\ currentId[h] <= lastIsolate
                          /\ h > starts => phase[h] = "unused" /\ ~stopped[h]
                          /\ phase[h] \in {"unused", "spawning", "waiting"}
                                 => currentId[h] \notin alive
WaitsKnown ==
    /\ hooked => handle # None
    /\ restart # "stopping" => kills["restart"] = None
    /\ ~exiting => kills["shutdown"] = None

\* A handle that will not be heard.
Quiet(h) == phase[h] \in {"unused", "done"} \/ (phase[h] = "waiting" /\ stopped[h])

\* Without an overlap, one handle at most can be heard: the one that was started last, and
\* it is awaited or in use.
OneHeard ==
    \A h \in Handles : ~Quiet(h) =>
        /\ h = starts /\ ~stopped[h]
        /\ Awaited(h) \/ (h = handle /\ restart = "idle" /\ ~exiting)
Apart ==
    /\ \A h \in Handles : Awaited(h) => InFlight(h)
    /\ mainWaits # None => handle = None /\ restart = "idle"
    /\ restart # "idle" /\ handle # None => stopped[handle]
    /\ exiting => restart = "idle" /\ mainWaits = None
Fresh == latest # None => latest = starts
Accounted ==
    \A i \in alive \ leaked :
        \/ \E h \in Handles : currentId[h] = i /\ ~stopped[h] /\ (h = handle \/ Awaited(h))
        \/ \E c \in {"restart", "shutdown"} : kills[c] = i

Calm == OneHeard /\ Apart /\ Fresh /\ Accounted

IInv == /\ ExporterTypes /\ CallerTypes /\ DaemonTypes /\ IdsKnown /\ WaitsKnown
        /\ raced = {} => Calm

LEMMA InitIInv == Init => IInv
<1> SUFFICES ASSUME Init PROVE IInv
  OBVIOUS
<1> USE LifecycleAssumption DEF Init, Handles, None
<1>1. ExporterTypes /\ CallerTypes /\ DaemonTypes
  BY DEF ExporterTypes, CallerTypes, RacedType, DaemonTypes, Isolates
<1>2. IdsKnown /\ WaitsKnown
  BY DEF IdsKnown, WaitsKnown
<1>3. OneHeard /\ Apart
  BY DEF OneHeard, Apart, Quiet, Awaited, InFlight
<1>4. Fresh /\ Accounted
  BY DEF Fresh, Accounted
<1> QED
  BY <1>1, <1>2, <1>3, <1>4 DEF IInv, Calm

\* Nothing that is no handle is awaited.
LEMMA NothingAwaited ==
    ASSUME mainWaits = None, restartWaits = None
    PROVE  \A h \in Handles : ~Awaited(h)
BY DEF Awaited, Handles, None

LEMMA OverlapsType == Overlaps \subseteq {"first start", "respawn", "shutdown"}
BY DEF Overlaps

\* What nothing overlaps.
LEMMA NoOverlap ==
    ASSUME Overlaps = {}
    PROVE  mainWaits = None /\ ~exiting /\ (handle # None => ~InFlight(handle))
BY DEF Overlaps

LEMMA Numbers ==
    ASSUME ExporterTypes, CallerTypes
    PROVE  /\ starts \in Int /\ starts \in 1..MaxStarts /\ handle \in Int
           /\ \A h \in Handles : h \in Int /\ h # None
<1>1. starts \in Handles
  BY DEF ExporterTypes
<1>2. handle \in Handles \cup {None}
  BY DEF CallerTypes
<1>3. \A h \in Handles : h \in Int /\ h # None
  BY DEF Handles, None
<1> QED
  BY <1>1, <1>2, <1>3 DEF Handles, None

\* A handle that is used was started.
LEMMA Started ==
    ASSUME ExporterTypes, IdsKnown
    PROVE  \A h \in Handles : phase[h] # "unused" => h <= starts
BY DEF ExporterTypes, IdsKnown, Handles

-----------------------------------------------------------------------------
(* Every step keeps the invariant.                                           *)

LEMMA SpawnedKeepsIInv ==
    ASSUME IInv, NEW h \in Handles, Spawned(h)
    PROVE  IInv'
<1> USE LifecycleAssumption DEF Spawned, exporter, callers, daemon, history, None, Handles
<1>0. /\ ExporterTypes /\ CallerTypes /\ DaemonTypes /\ IdsKnown /\ WaitsKnown
      /\ raced = {} => OneHeard /\ Apart /\ Fresh /\ Accounted
  BY DEF IInv, Calm
<1>a. /\ lastIsolate \in Nat /\ lastIsolate' \in Isolates /\ lastIsolate' = lastIsolate + 1
      /\ currentId' = [currentId EXCEPT ![h] = lastIsolate']
      /\ alive' = alive \cup {lastIsolate'}
  BY <1>0 DEF DaemonTypes, Isolates
<1>1. ExporterTypes'
  BY <1>0, <1>a DEF ExporterTypes
<1>2. CallerTypes'
  BY <1>0 DEF ExporterTypes, CallerTypes, RacedType
<1>3. DaemonTypes'
  BY <1>0, <1>a DEF DaemonTypes
<1>4. IdsKnown'
  <2>1. alive' \subseteq 1..lastIsolate'
    BY <1>0, <1>a DEF IdsKnown
  <2>2. ASSUME NEW g \in Handles
        PROVE  /\ currentId'[g] <= lastIsolate'
               /\ g > starts' => phase'[g] = "unused" /\ ~stopped'[g]
               /\ phase'[g] \in {"unused", "spawning", "waiting"} => currentId'[g] \notin alive'
    BY <1>0, <1>a DEF IdsKnown, ExporterTypes, Isolates
  <2> QED BY <1>0, <2>1, <2>2 DEF IdsKnown
<1>5. WaitsKnown'
  BY <1>0 DEF WaitsKnown
<1>6. ASSUME raced' = {} PROVE OneHeard'
  BY <1>0, <1>6 DEF OneHeard, Quiet, Awaited
<1>7. ASSUME raced' = {} PROVE Apart'
  BY <1>0, <1>7 DEF Apart, Awaited, InFlight
<1>8. ASSUME raced' = {} PROVE Fresh'
  BY <1>0, <1>8 DEF Fresh
<1>9. ASSUME raced' = {} PROVE Accounted'
  BY <1>0, <1>9 DEF ExporterTypes, IdsKnown, OneHeard, Quiet, Awaited, Accounted
<1> QED
  BY <1>1, <1>2, <1>3, <1>4, <1>5, <1>6, <1>7, <1>8, <1>9 DEF IInv, Calm

LEMMA SpawnFailsKeepsIInv ==
    ASSUME IInv, NEW h \in Handles, SpawnFails(h)
    PROVE  IInv'
<1> USE LifecycleAssumption DEF SpawnFails, Reject, exporter, callers, daemon,
        history, None, Handles
<1>0. /\ ExporterTypes /\ CallerTypes /\ DaemonTypes /\ IdsKnown /\ WaitsKnown
      /\ raced = {} => OneHeard /\ Apart /\ Fresh /\ Accounted
  BY DEF IInv, Calm
<1>1. ExporterTypes'
  BY <1>0 DEF ExporterTypes
<1>2. CallerTypes'
  BY <1>0 DEF ExporterTypes, CallerTypes, RacedType
<1>3. DaemonTypes'
  BY <1>0 DEF DaemonTypes
<1>4. IdsKnown'
  BY <1>0 DEF IdsKnown
<1>5. WaitsKnown'
  <2>1. h # None
    OBVIOUS
  <2>2. restartWaits = h => kills["restart"] = None
    BY <1>0, <2>1 DEF CallerTypes, WaitsKnown
  <2>3. restart' # "stopping" => kills["restart"] = None
    BY <1>0, <2>2 DEF WaitsKnown
  <2>4. hooked' => handle' # None
    BY <1>0, <2>1 DEF WaitsKnown
  <2> QED BY <1>0, <2>3, <2>4 DEF WaitsKnown
<1>6. ASSUME raced' = {} PROVE OneHeard'
  BY <1>0, <1>6 DEF ExporterTypes, OneHeard, Quiet
<1>7. ASSUME raced' = {} PROVE Apart'
  BY <1>0, <1>7 DEF Apart, Awaited, InFlight
<1>8. ASSUME raced' = {} PROVE Fresh'
  BY <1>0, <1>8 DEF Fresh
<1>9. ASSUME raced' = {} PROVE Accounted'
  BY <1>0, <1>9 DEF IdsKnown, Awaited, Accounted
<1> QED
  BY <1>1, <1>2, <1>3, <1>4, <1>5, <1>6, <1>7, <1>8, <1>9 DEF IInv, Calm

LEMMA ConnectedKeepsIInv ==
    ASSUME IInv, NEW h \in Handles, Connected(h)
    PROVE  IInv'
<1> USE LifecycleAssumption DEF Connected, Resolve, exporter, callers, daemon,
        history, None, Handles
<1>0. /\ ExporterTypes /\ CallerTypes /\ DaemonTypes /\ IdsKnown /\ WaitsKnown
      /\ raced = {} => OneHeard /\ Apart /\ Fresh /\ Accounted
  BY DEF IInv, Calm
<1>1. ExporterTypes'
  BY <1>0 DEF ExporterTypes
<1>2. CallerTypes'
  BY <1>0 DEF ExporterTypes, CallerTypes, RacedType
<1>3. DaemonTypes'
  BY <1>0 DEF DaemonTypes
<1>4. IdsKnown'
  <2>1. h <= starts /\ handle' <= starts
    BY <1>0, Started DEF IdsKnown
  <2>2. ASSUME NEW g \in Handles
        PROVE  /\ g > starts => phase'[g] = "unused" /\ ~stopped[g]
               /\ phase'[g] \in {"unused", "spawning", "waiting"} => currentId[g] \notin alive
    BY <1>0, <2>1 DEF IdsKnown
  <2> QED BY <1>0, <2>1, <2>2 DEF IdsKnown
<1>5. WaitsKnown'
  <2>1. h # None
    OBVIOUS
  <2>2. restartWaits = h => kills["restart"] = None
    BY <1>0, <2>1 DEF CallerTypes, WaitsKnown
  <2>3. restart' # "stopping" => kills["restart"] = None
    BY <1>0, <2>2 DEF WaitsKnown
  <2>4. hooked' => handle' # None
    BY <1>0, <2>1 DEF WaitsKnown, Awaited
  <2> QED BY <1>0, <2>3, <2>4 DEF WaitsKnown
<1>6. ASSUME raced' = {} PROVE OneHeard'
  BY <1>0, <1>6 DEF CallerTypes, OneHeard, Apart, Quiet, Awaited
<1>7. ASSUME raced' = {} PROVE Apart'
  BY <1>0, <1>7 DEF CallerTypes, Apart, Awaited, InFlight
<1>8. ASSUME raced' = {} PROVE Fresh'
  BY <1>0, <1>8 DEF Fresh
<1>9. ASSUME raced' = {} PROVE Accounted'
  BY <1>0, <1>9 DEF CallerTypes, Apart, Awaited, Accounted
<1> QED
  BY <1>1, <1>2, <1>3, <1>4, <1>5, <1>6, <1>7, <1>8, <1>9 DEF IInv, Calm

LEMMA ConnectFailsKeepsIInv ==
    ASSUME IInv, NEW h \in Handles, ConnectFails(h)
    PROVE  IInv'
<1> USE LifecycleAssumption DEF ConnectFails, Reject, exporter, callers, daemon,
        history, None, Handles
<1>0. /\ ExporterTypes /\ CallerTypes /\ DaemonTypes /\ IdsKnown /\ WaitsKnown
      /\ raced = {} => OneHeard /\ Apart /\ Fresh /\ Accounted
  BY DEF IInv, Calm
<1>1. ExporterTypes'
  BY <1>0 DEF ExporterTypes
<1>2. CallerTypes'
  BY <1>0 DEF ExporterTypes, CallerTypes, RacedType
<1>3. DaemonTypes'
  BY <1>0 DEF DaemonTypes
<1>4. IdsKnown'
  BY <1>0 DEF IdsKnown
<1>5. WaitsKnown'
  <2>1. h # None
    OBVIOUS
  <2>2. restartWaits = h => kills["restart"] = None
    BY <1>0, <2>1 DEF CallerTypes, WaitsKnown
  <2>3. restart' # "stopping" => kills["restart"] = None
    BY <1>0, <2>2 DEF WaitsKnown
  <2>4. hooked' => handle' # None
    BY <1>0, <2>1 DEF WaitsKnown
  <2> QED BY <1>0, <2>3, <2>4 DEF WaitsKnown
<1>6. ASSUME raced' = {} PROVE OneHeard'
  BY <1>0, <1>6 DEF ExporterTypes, OneHeard, Quiet
<1>7. ASSUME raced' = {} PROVE Apart'
  BY <1>0, <1>7 DEF Apart, Awaited, InFlight
<1>8. ASSUME raced' = {} PROVE Fresh'
  BY <1>0, <1>8 DEF Fresh
<1>9. ASSUME raced' = {} PROVE Accounted'
  BY <1>0, <1>9 DEF Awaited, Accounted
<1> QED
  BY <1>1, <1>2, <1>3, <1>4, <1>5, <1>6, <1>7, <1>8, <1>9 DEF IInv, Calm

LEMMA SnapshotKeepsIInv ==
    ASSUME IInv, NEW h \in Handles, Snapshot(h)
    PROVE  IInv'
<1> USE LifecycleAssumption DEF Snapshot, exporter, callers, daemon, history, None, Handles
<1>0. /\ ExporterTypes /\ CallerTypes /\ DaemonTypes /\ IdsKnown /\ WaitsKnown
      /\ raced = {} => OneHeard /\ Apart /\ Fresh /\ Accounted
  BY DEF IInv, Calm
<1>1. ExporterTypes'
  BY <1>0 DEF ExporterTypes
<1>2. CallerTypes'
  BY <1>0 DEF ExporterTypes, CallerTypes, RacedType
<1>3. DaemonTypes'
  BY <1>0 DEF DaemonTypes
<1>4. IdsKnown'
  BY <1>0 DEF IdsKnown
<1>5. WaitsKnown'
  BY <1>0 DEF WaitsKnown
<1>6. ASSUME raced' = {} PROVE OneHeard'
  BY <1>0, <1>6 DEF OneHeard, Quiet, Awaited
<1>7. ASSUME raced' = {} PROVE Apart'
  BY <1>0, <1>7 DEF Apart, Awaited, InFlight
<1>8. ASSUME raced' = {} PROVE Fresh'
  BY <1>0, <1>8 DEF OneHeard, Quiet, Fresh
<1>9. ASSUME raced' = {} PROVE Accounted'
  BY <1>0, <1>9 DEF Awaited, Accounted
<1> QED
  BY <1>1, <1>2, <1>3, <1>4, <1>5, <1>6, <1>7, <1>8, <1>9 DEF IInv, Calm

LEMMA IsolateExitsKeepsIInv ==
    ASSUME IInv, NEW i \in alive, IsolateExits(i)
    PROVE  IInv'
<1> USE LifecycleAssumption DEF IsolateExits, exporter, callers, daemon, history, None, Handles
<1>0. /\ ExporterTypes /\ CallerTypes /\ DaemonTypes /\ IdsKnown /\ WaitsKnown
      /\ raced = {} => OneHeard /\ Apart /\ Fresh /\ Accounted
  BY DEF IInv, Calm
<1>1. ExporterTypes'
  BY <1>0 DEF ExporterTypes
<1>2. CallerTypes'
  BY <1>0 DEF ExporterTypes, CallerTypes, RacedType
<1>3. DaemonTypes'
  BY <1>0 DEF DaemonTypes
<1>4. IdsKnown'
  BY <1>0 DEF IdsKnown
<1>5. WaitsKnown'
  BY <1>0 DEF WaitsKnown
<1>6. ASSUME raced' = {} PROVE OneHeard'
  BY <1>0, <1>6 DEF OneHeard, Quiet, Awaited
<1>7. ASSUME raced' = {} PROVE Apart'
  BY <1>0, <1>7 DEF Apart, Awaited, InFlight
<1>8. ASSUME raced' = {} PROVE Fresh'
  BY <1>0, <1>8 DEF Fresh
<1>9. ASSUME raced' = {} PROVE Accounted'
  BY <1>0, <1>9 DEF Awaited, Accounted
<1> QED
  BY <1>1, <1>2, <1>3, <1>4, <1>5, <1>6, <1>7, <1>8, <1>9 DEF IInv, Calm

LEMMA ConsoleClosedKeepsIInv ==
    ASSUME IInv, NEW h \in Handles, ConsoleClosed(h)
    PROVE  IInv'
<1> USE LifecycleAssumption DEF ConsoleClosed, exporter, callers, daemon, history, None, Handles
<1>0. /\ ExporterTypes /\ CallerTypes /\ DaemonTypes /\ IdsKnown /\ WaitsKnown
      /\ raced = {} => OneHeard /\ Apart /\ Fresh /\ Accounted
  BY DEF IInv, Calm
<1>1. ExporterTypes'
  BY <1>0 DEF ExporterTypes
<1>2. CallerTypes'
  BY <1>0 DEF ExporterTypes, CallerTypes, RacedType
<1>3. DaemonTypes'
  BY <1>0 DEF DaemonTypes
<1>4. IdsKnown'
  BY <1>0 DEF IdsKnown
<1>5. WaitsKnown'
  BY <1>0 DEF WaitsKnown
<1>6. ASSUME raced' = {} PROVE OneHeard'
  BY <1>0, <1>6 DEF OneHeard, Quiet, Awaited
<1>7. ASSUME raced' = {} PROVE Apart'
  BY <1>0, <1>7 DEF Apart, Awaited, InFlight
<1>8. ASSUME raced' = {} PROVE Fresh'
  BY <1>0, <1>8 DEF Fresh
<1>9. ASSUME raced' = {} PROVE Accounted'
  BY <1>0, <1>9 DEF Awaited, Accounted
<1> QED
  BY <1>1, <1>2, <1>3, <1>4, <1>5, <1>6, <1>7, <1>8, <1>9 DEF IInv, Calm

LEMMA RespawnKeepsIInv ==
    ASSUME IInv, NEW h \in Handles, Respawn(h)
    PROVE  IInv'
<1> USE LifecycleAssumption DEF Respawn, exporter, callers, daemon, history, None, Handles
<1>0. /\ ExporterTypes /\ CallerTypes /\ DaemonTypes /\ IdsKnown /\ WaitsKnown
      /\ raced = {} => OneHeard /\ Apart /\ Fresh /\ Accounted
  BY DEF IInv, Calm
<1>1. ExporterTypes'
  BY <1>0 DEF ExporterTypes
<1>2. CallerTypes'
  BY <1>0 DEF ExporterTypes, CallerTypes, RacedType
<1>3. DaemonTypes'
  BY <1>0 DEF DaemonTypes
<1>4. IdsKnown'
  BY <1>0 DEF IdsKnown
<1>5. WaitsKnown'
  BY <1>0 DEF WaitsKnown
<1>6. ASSUME raced' = {} PROVE OneHeard'
  BY <1>0, <1>6 DEF OneHeard, Quiet, Awaited
<1>7. ASSUME raced' = {} PROVE Apart'
  BY <1>0, <1>7 DEF Apart, Awaited, InFlight
<1>8. ASSUME raced' = {} PROVE Fresh'
  BY <1>0, <1>8 DEF Fresh
<1>9. ASSUME raced' = {} PROVE Accounted'
  BY <1>0, <1>9 DEF Awaited, Accounted
<1> QED
  BY <1>1, <1>2, <1>3, <1>4, <1>5, <1>6, <1>7, <1>8, <1>9 DEF IInv, Calm

\* stop() silences a handle that is in no spawn.
LEMMA StopKeeps ==
    ASSUME ExporterTypes, IdsKnown, NEW h \in Handles, NEW caller, h = handle, Stop(h, caller),
           UNCHANGED <<currentId, starts, handle, alive, lastIsolate>>
    PROVE  /\ ExporterTypes' /\ IdsKnown'
           /\ ~InFlight(h) /\ (\A g \in Handles : g # h => Quiet(g)) => \A g \in Handles : Quiet(g)'
<1>1. /\ stopped' = [stopped EXCEPT ![h] = TRUE]
      /\ phase' = [phase EXCEPT ![h] = IF @ = "live" THEN "done" ELSE @]
  BY DEF Stop
<1>2. /\ stopped'[h] = TRUE /\ phase'[h] = IF phase[h] = "live" THEN "done" ELSE phase[h]
      /\ \A g \in Handles : g # h => stopped'[g] = stopped[g] /\ phase'[g] = phase[g]
  BY <1>1 DEF ExporterTypes
<1>3. ExporterTypes'
  BY <1>1, <1>2 DEF ExporterTypes
<1>4. ~(h > starts)
  BY DEF IdsKnown, ExporterTypes, Handles
<1>5. IdsKnown'
  <2>1. ASSUME NEW g \in Handles
        PROVE  /\ g > starts => phase'[g] = "unused" /\ ~stopped'[g]
               /\ phase'[g] \in {"unused", "spawning", "waiting"} => currentId[g] \notin alive
    BY <1>2, <1>4 DEF IdsKnown
  <2> QED BY <2>1 DEF IdsKnown
<1>6. ~InFlight(h) => Quiet(h)'
  BY <1>2 DEF ExporterTypes, InFlight, Quiet
<1>7. \A g \in Handles : g # h /\ Quiet(g) => Quiet(g)'
  BY <1>2 DEF Quiet
<1> QED
  BY <1>3, <1>5, <1>6, <1>7

\* ... and has its isolate killed.
LEMMA StopAccounts ==
    ASSUME Accounted, ExporterTypes, DaemonTypes, NEW caller \in {"restart", "shutdown"},
           handle \in Handles, Stop(handle, caller), kills[caller] = None,
           \A h \in Handles : ~Awaited(h),
           UNCHANGED <<currentId, handle, alive, leaked>>
    PROVE  Accounted'
<1> SUFFICES ASSUME NEW i \in alive \ leaked
             PROVE  \E c \in {"restart", "shutdown"} : kills'[c] = i
  BY DEF Accounted
<1>1. kills' = [kills EXCEPT ![caller] = currentId[handle]]
  BY DEF Stop
<1>2. i # None
  BY DEF DaemonTypes, Isolates
<1>3. CASE currentId[handle] = i
  BY <1>1, <1>3 DEF DaemonTypes
<1>4. CASE \E c \in {"restart", "shutdown"} : kills[c] = i
  BY <1>1, <1>2, <1>4 DEF DaemonTypes
<1> QED
  BY <1>3, <1>4 DEF Accounted

LEMMA RestartRequestedKeepsIInv ==
    ASSUME IInv, RestartRequested
    PROVE  IInv'
<1>0. /\ ExporterTypes /\ CallerTypes /\ DaemonTypes /\ IdsKnown /\ WaitsKnown
      /\ raced = {} => OneHeard /\ Apart /\ Fresh /\ Accounted
  BY DEF IInv, Calm
<1>1. /\ restart = "idle" /\ restart' = "stopping" /\ handle # None /\ Stop(handle, "restart")
      /\ raced' = raced \cup Overlaps
      /\ UNCHANGED <<currentId, starts, handle, mainWaits, hooked, restartWaits, exiting, latest,
                     alive, lastIsolate, leaked>>
  BY DEF RestartRequested, MayRestart, daemon
<1>2. handle \in Handles
  BY <1>0, <1>1 DEF CallerTypes
<1>3. ExporterTypes' /\ CallerTypes' /\ IdsKnown'
  <2>1. ExporterTypes' /\ IdsKnown'
    BY <1>0, <1>1, <1>2, StopKeeps
  <2>2. CallerTypes'
    BY <1>0, <1>1, OverlapsType DEF CallerTypes, RacedType
  <2> QED BY <2>1, <2>2
<1>4. kills'["shutdown"] = kills["shutdown"] /\ DaemonTypes'
  BY <1>0, <1>1, <1>2 DEF DaemonTypes, ExporterTypes, Stop
<1>5. WaitsKnown'
  BY <1>0, <1>1, <1>4 DEF WaitsKnown
<1>6. ASSUME raced' = {} PROVE Calm'
  <2>1. raced = {} /\ mainWaits = None /\ ~exiting /\ ~InFlight(handle)
    BY <1>1, <1>6, NoOverlap
  <2>2. \A h \in Handles : ~Awaited(h)
    BY <1>0, <1>1, <2>1, NothingAwaited DEF CallerTypes
  <2>3. \A h \in Handles : h # handle => Quiet(h)
    BY <1>0, <2>1, <2>2 DEF OneHeard
  <2>4. \A h \in Handles : Quiet(h)'
    BY <1>0, <1>1, <1>2, <2>1, <2>3, StopKeeps
  <2>5. OneHeard' /\ Fresh'
    BY <1>0, <1>1, <2>1, <2>4 DEF OneHeard, Fresh
  <2>6. Apart'
    <3>1. stopped'[handle]
      BY <1>0, <1>1, <1>2 DEF ExporterTypes, Stop
    <3> QED BY <1>1, <2>1, <2>2, <3>1 DEF Apart, Awaited
  <2>7. Accounted'
    BY <1>0, <1>1, <1>2, <2>1, <2>2, StopAccounts DEF WaitsKnown
  <2> QED BY <2>5, <2>6, <2>7 DEF Calm
<1> QED
  BY <1>3, <1>4, <1>5, <1>6 DEF IInv

LEMMA NewHandle ==
    ASSUME ExporterTypes, CallerTypes, IdsKnown, starts < MaxStarts
    PROVE  LET n == starts + 1
           IN /\ n \in Handles /\ n > starts /\ n # None /\ n # handle
              /\ phase[n] = "unused" /\ ~stopped[n] /\ currentId[n] \notin alive
<1> DEFINE n == starts + 1
<1>1. starts \in 1..MaxStarts /\ handle \in Int /\ handle <= starts
  BY Numbers DEF IdsKnown
<1>2. n \in Handles /\ n > starts /\ n # None /\ n # handle
  BY <1>1, LifecycleAssumption DEF Handles, None
<1> HIDE DEF n
<1>3. phase[n] = "unused" /\ ~stopped[n] /\ currentId[n] \notin alive
  BY <1>2 DEF IdsKnown
<1> QED
  BY <1>2, <1>3 DEF n

\* The next probe is started once the last one is stopped, or was never there.
LEMMA StartAfterStopKeeps ==
    ASSUME ExporterTypes, CallerTypes, IdsKnown, StartAfterStop, starts < MaxStarts,
           UNCHANGED <<stopped, currentId, handle, mainWaits, hooked, exiting, lastIsolate>>,
           alive' \subseteq alive, RacedType'
    PROVE  /\ ExporterTypes' /\ CallerTypes' /\ IdsKnown'
           /\ mainWaits = None /\ ~exiting /\ (\A h \in Handles : Quiet(h))
              /\ (handle # None => stopped[handle])
                  => OneHeard' /\ Apart' /\ Fresh'
<1>1. PICK n \in Handles : /\ n = starts + 1 /\ n > starts /\ n # None /\ n # handle
                            /\ phase[n] = "unused" /\ ~stopped[n] /\ currentId[n] \notin alive
  BY NewHandle
<1>2. /\ phase' = [phase EXCEPT ![n] = "spawning"] /\ starts' = n /\ latest' = None
      /\ restart' = "starting" /\ restartWaits' = n
  BY <1>1 DEF StartAfterStop, StartExporter
<1>3. phase'[n] = "spawning" /\ \A g \in Handles : g # n => phase'[g] = phase[g]
  BY <1>1, <1>2 DEF ExporterTypes
<1>4. ExporterTypes'
  BY <1>1, <1>2 DEF ExporterTypes
<1>5. CallerTypes'
  BY <1>1, <1>2 DEF CallerTypes
<1>6. starts \in Int /\ handle \in Int /\ n \in Int /\ \A g \in Handles : g \in Int
  BY <1>1, Numbers
<1>7. IdsKnown'
  <2>1. handle <= n
    <3>1. handle <= starts
      BY DEF IdsKnown
    <3> QED BY <1>1, <1>6, <3>1
  <2>2. ASSUME NEW g \in Handles
        PROVE  /\ currentId[g] <= lastIsolate
               /\ g > n => phase'[g] = "unused" /\ ~stopped[g]
               /\ phase'[g] \in {"unused", "spawning", "waiting"} => currentId[g] \notin alive
    <3>1. g > n => g > starts
      BY <1>1, <1>6
    <3>2. g > n => g # n
      BY <1>1, <1>6
    <3> QED BY <1>1, <1>3, <3>1, <3>2 DEF IdsKnown
  <2> QED BY <1>2, <2>1, <2>2 DEF IdsKnown
<1>8. ASSUME mainWaits = None, ~exiting, \A h \in Handles : Quiet(h),
             handle # None => stopped[handle]
      PROVE  OneHeard' /\ Apart' /\ Fresh'
  <2>1. \A g \in Handles : Awaited(g)' <=> g = n
    BY <1>1, <1>2, <1>8, Numbers DEF Awaited
  <2>2. \A g \in Handles : g # n => Quiet(g)'
    BY <1>3, <1>8 DEF Quiet
  <2>3. OneHeard'
    BY <1>1, <1>2, <2>1, <2>2 DEF OneHeard
  <2>4. Apart'
    BY <1>2, <1>3, <1>8, <2>1 DEF Apart, InFlight
  <2>5. Fresh'
    BY <1>2 DEF Fresh
  <2> QED BY <2>3, <2>4, <2>5
<1> QED
  BY <1>4, <1>5, <1>7, <1>8

LEMMA RestartWithoutProbeKeepsIInv ==
    ASSUME IInv, RestartWithoutProbe
    PROVE  IInv'
<1>0. /\ ExporterTypes /\ CallerTypes /\ DaemonTypes /\ IdsKnown /\ WaitsKnown
      /\ raced = {} => OneHeard /\ Apart /\ Fresh /\ Accounted
  BY DEF IInv, Calm
<1>1. /\ StartAfterStop /\ starts < MaxStarts /\ handle = None /\ restart = "idle"
      /\ raced' = raced \cup Overlaps /\ restart' = "starting"
      /\ UNCHANGED <<stopped, currentId, handle, mainWaits, hooked, kills, exiting, alive,
                     lastIsolate, leaked>>
  BY DEF RestartWithoutProbe, MayRestart, StartAfterStop, daemon
<1>2. RacedType'
  BY <1>0, <1>1, OverlapsType DEF CallerTypes, RacedType
<1>3. ExporterTypes' /\ CallerTypes' /\ IdsKnown'
  BY <1>0, <1>1, <1>2, StartAfterStopKeeps
<1>4. DaemonTypes' /\ WaitsKnown'
  BY <1>0, <1>1 DEF DaemonTypes, WaitsKnown
<1>5. ASSUME raced' = {} PROVE Calm'
  <2>1. OneHeard /\ Accounted /\ mainWaits = None /\ restartWaits = None /\ ~exiting
    BY <1>0, <1>1, <1>5, NoOverlap DEF CallerTypes
  <2>2. \A h \in Handles : ~Awaited(h) /\ h # handle
    BY <1>1, <2>1, NothingAwaited DEF Handles, None
  <2>3. \A h \in Handles : Quiet(h)
    BY <2>1, <2>2 DEF OneHeard
  <2>4. OneHeard' /\ Apart' /\ Fresh'
    BY <1>0, <1>1, <1>2, <2>1, <2>3, StartAfterStopKeeps
  <2>5. Accounted'
    BY <1>1, <2>1, <2>2 DEF Accounted
  <2> QED BY <2>4, <2>5 DEF Calm
<1> QED
  BY <1>3, <1>4, <1>5 DEF IInv

LEMMA RestartStoppedKeepsIInv ==
    ASSUME IInv, RestartStopped
    PROVE  IInv'
<1>0. /\ ExporterTypes /\ CallerTypes /\ DaemonTypes /\ IdsKnown /\ WaitsKnown
      /\ raced = {} => OneHeard /\ Apart /\ Fresh /\ Accounted
  BY DEF IInv, Calm
<1>1. /\ StartAfterStop /\ starts < MaxStarts /\ restart = "stopping"
      /\ restart' = "starting" /\ kills' = [kills EXCEPT !["restart"] = None]
      /\ UNCHANGED <<stopped, currentId, handle, mainWaits, hooked, exiting, lastIsolate, raced>>
  BY DEF RestartStopped, StartAfterStop
<1>2. alive' \subseteq alive /\ leaked \subseteq leaked'
      /\ kills["restart"] \notin alive' \ leaked'
  BY DEF RestartStopped, Killed
<1>3. RacedType'
  BY <1>0, <1>1 DEF CallerTypes, RacedType
<1>4. ExporterTypes' /\ CallerTypes' /\ IdsKnown'
  BY <1>0, <1>1, <1>2, <1>3, StartAfterStopKeeps
<1>5. kills'["restart"] = None /\ kills'["shutdown"] = kills["shutdown"] /\ DaemonTypes'
  BY <1>0, <1>1, <1>2 DEF DaemonTypes
<1>6. WaitsKnown'
  BY <1>0, <1>1, <1>5 DEF WaitsKnown
<1>7. ASSUME raced' = {} PROVE Calm'
  <2>1. OneHeard /\ Apart /\ Accounted
    BY <1>0, <1>1, <1>7
  <2>2. /\ mainWaits = None /\ restartWaits = None /\ ~exiting
        /\ handle # None => stopped[handle]
    BY <1>0, <1>1, <2>1 DEF Apart, CallerTypes
  <2>3. \A h \in Handles : ~Awaited(h)
    BY <2>2, NothingAwaited
  <2>4. \A h \in Handles : Quiet(h)
    BY <1>1, <2>1, <2>3 DEF OneHeard
  <2>5. OneHeard' /\ Apart' /\ Fresh'
    BY <1>0, <1>1, <1>2, <1>3, <2>2, <2>4, StartAfterStopKeeps
  <2>6. Accounted'
    <3> SUFFICES ASSUME NEW i \in alive' \ leaked'
                 PROVE  \/ \E h \in Handles : /\ currentId'[h] = i /\ ~stopped'[h]
                                              /\ h = handle' \/ Awaited(h)'
                        \/ \E c \in {"restart", "shutdown"} : kills'[c] = i
      BY DEF Accounted
    <3>1. i \in alive \ leaked /\ i # kills["restart"]
      BY <1>2
    <3>2. \/ \E h \in Handles : currentId[h] = i /\ ~stopped[h] /\ h = handle
          \/ kills["shutdown"] = i
      BY <2>1, <2>3, <3>1 DEF Accounted
    <3> QED BY <1>1, <1>5, <3>2
  <2> QED BY <2>5, <2>6 DEF Calm
<1> QED
  BY <1>4, <1>5, <1>6, <1>7 DEF IInv

LEMMA ShutdownRequestedKeepsIInv ==
    ASSUME IInv, ShutdownRequested
    PROVE  IInv'
<1>0. /\ ExporterTypes /\ CallerTypes /\ DaemonTypes /\ IdsKnown /\ WaitsKnown
      /\ raced = {} => OneHeard /\ Apart /\ Fresh /\ Accounted
  BY DEF IInv, Calm
<1>1. /\ hooked /\ ~exiting /\ exiting' = TRUE /\ Stop(handle, "shutdown")
      /\ raced' = raced \cup (Overlaps \ {"shutdown"})
                        \cup (IF restart # "idle" THEN {"shutdown"} ELSE {})
      /\ UNCHANGED <<currentId, starts, handle, mainWaits, hooked, restart, restartWaits, latest,
                     alive, lastIsolate, leaked>>
  BY DEF ShutdownRequested, daemon
<1>2. handle \in Handles /\ handle # None
  BY <1>0, <1>1 DEF CallerTypes, WaitsKnown
<1>3. ExporterTypes' /\ CallerTypes' /\ IdsKnown'
  <2>1. ExporterTypes' /\ IdsKnown'
    BY <1>0, <1>1, <1>2, StopKeeps
  <2>2. CallerTypes'
    BY <1>0, <1>1, OverlapsType DEF CallerTypes, RacedType
  <2> QED BY <2>1, <2>2
<1>4. kills'["restart"] = kills["restart"] /\ kills'["shutdown"] = currentId[handle] /\ DaemonTypes'
  BY <1>0, <1>1, <1>2 DEF DaemonTypes, ExporterTypes, Stop
<1>5. WaitsKnown'
  BY <1>0, <1>1, <1>4 DEF WaitsKnown
<1>6. ASSUME raced' = {} PROVE Calm'
  <2>1. raced = {} /\ mainWaits = None /\ restart = "idle" /\ ~InFlight(handle)
    <3>1. Overlaps \ {"shutdown"} = {} /\ raced = {} /\ restart = "idle"
      BY <1>1, <1>6
    <3>2. Overlaps \cap {"first start", "respawn"} = {}
      BY <3>1
    <3>3. mainWaits = None
      BY <3>2 DEF Overlaps
    <3>4. ~InFlight(handle)
      BY <1>2, <3>2 DEF Overlaps
    <3> QED BY <3>1, <3>3, <3>4
  <2>2. \A h \in Handles : ~Awaited(h)
    BY <1>0, <2>1, NothingAwaited DEF CallerTypes
  <2>3. \A h \in Handles : h # handle => Quiet(h)
    BY <1>0, <2>1, <2>2 DEF OneHeard
  <2>4. \A h \in Handles : Quiet(h)'
    BY <1>0, <1>1, <1>2, <2>1, <2>3, StopKeeps
  <2>5. OneHeard' /\ Fresh'
    BY <1>0, <1>1, <2>1, <2>4 DEF OneHeard, Fresh
  <2>6. Apart'
    BY <1>1, <2>1, <2>2 DEF Apart, Awaited
  <2>7. Accounted'
    BY <1>0, <1>1, <1>2, <1>4, <2>1, <2>2, StopAccounts DEF WaitsKnown
  <2> QED BY <2>5, <2>6, <2>7 DEF Calm
<1> QED
  BY <1>3, <1>4, <1>5, <1>6 DEF IInv

LEMMA ShutdownCompletesKeepsIInv ==
    ASSUME IInv, ShutdownCompletes
    PROVE  IInv'
<1>0. /\ ExporterTypes /\ CallerTypes /\ DaemonTypes /\ IdsKnown /\ WaitsKnown
      /\ raced = {} => OneHeard /\ Apart /\ Fresh /\ Accounted
  BY DEF IInv, Calm
<1>1. /\ kills' = [kills EXCEPT !["shutdown"] = None] /\ exiting
      /\ UNCHANGED <<phase, stopped, currentId, starts, handle, mainWaits, hooked, restart,
                     restartWaits, exiting, latest, lastIsolate, raced>>
  BY DEF ShutdownCompletes, exporter
<1>2. alive' \subseteq alive /\ leaked \subseteq leaked'
      /\ kills["shutdown"] \notin alive' \ leaked'
  BY DEF ShutdownCompletes, Killed
<1>3. ExporterTypes' /\ CallerTypes'
  BY <1>0, <1>1 DEF ExporterTypes, CallerTypes, RacedType
<1>4. IdsKnown'
  BY <1>0, <1>1, <1>2 DEF IdsKnown
<1>5. kills'["shutdown"] = None /\ kills'["restart"] = kills["restart"] /\ DaemonTypes'
  BY <1>0, <1>1, <1>2 DEF DaemonTypes
<1>6. WaitsKnown'
  BY <1>0, <1>1, <1>5 DEF WaitsKnown
<1>7. ASSUME raced' = {} PROVE Calm'
  <2>1. OneHeard' /\ Apart' /\ Fresh'
    BY <1>0, <1>1, <1>7 DEF OneHeard, Apart, Fresh, Quiet, Awaited, InFlight
  <2>2. Accounted'
    <3> SUFFICES ASSUME NEW i \in alive' \ leaked'
                 PROVE  \/ \E h \in Handles : /\ currentId'[h] = i /\ ~stopped'[h]
                                              /\ h = handle' \/ Awaited(h)'
                        \/ \E c \in {"restart", "shutdown"} : kills'[c] = i
      BY DEF Accounted
    <3>1. i \in alive \ leaked /\ i # kills["shutdown"]
      BY <1>2
    <3>2. \/ \E h \in Handles : currentId[h] = i /\ ~stopped[h] /\ (h = handle \/ Awaited(h))
          \/ kills["restart"] = i
      BY <1>0, <1>1, <1>7, <3>1 DEF Accounted
    <3> QED BY <1>1, <1>5, <3>2 DEF Awaited
  <2> QED BY <2>1, <2>2 DEF Calm
<1> QED
  BY <1>3, <1>4, <1>5, <1>6, <1>7 DEF IInv

LEMMA StutterKeepsIInv == ASSUME IInv, UNCHANGED vars PROVE IInv'
BY DEF vars, exporter, callers, daemon, history, IInv, ExporterTypes, CallerTypes, RacedType,
       DaemonTypes, IdsKnown, WaitsKnown, Calm, OneHeard, Apart, Fresh, Accounted, Quiet,
       Awaited, InFlight

LEMMA NextKeepsIInv == IInv /\ [Next]_vars => IInv'
<1> SUFFICES ASSUME IInv, [Next]_vars PROVE IInv'
  OBVIOUS
<1>1. ASSUME NEW h \in Handles, Progress(h) PROVE IInv'
  BY <1>1, SpawnedKeepsIInv, SpawnFailsKeepsIInv, ConnectedKeepsIInv, ConnectFailsKeepsIInv,
     ConsoleClosedKeepsIInv, RespawnKeepsIInv DEF Progress
<1>2. ASSUME NEW h \in Handles, Snapshot(h) PROVE IInv'
  BY <1>2, SnapshotKeepsIInv
<1>3. ASSUME NEW i \in alive, IsolateExits(i) PROVE IInv'
  BY <1>3, IsolateExitsKeepsIInv
<1>4. CASE RestartRequested
  BY <1>4, RestartRequestedKeepsIInv
<1>5. CASE RestartWithoutProbe
  BY <1>5, RestartWithoutProbeKeepsIInv
<1>6. CASE RestartStopped
  BY <1>6, RestartStoppedKeepsIInv
<1>7. CASE ShutdownRequested
  BY <1>7, ShutdownRequestedKeepsIInv
<1>8. CASE ShutdownCompletes
  BY <1>8, ShutdownCompletesKeepsIInv
<1>9. CASE UNCHANGED vars
  BY <1>9, StutterKeepsIInv
<1> QED
  BY <1>1, <1>2, <1>3, <1>4, <1>5, <1>6, <1>7, <1>8, <1>9 DEF Next

LEMMA Invariants == Spec => []IInv
<1> QED
  BY InitIInv, NextKeepsIInv, PTL DEF Spec

-----------------------------------------------------------------------------

\* The variables of portal.js and of restartProbe() keep their types, and restartProbe()
\* waits for a start exactly while it says so.
THEOREM TypesKept == Spec => []TypeOK
<1>1. IInv => TypeOK
  BY Types DEF IInv
<1> QED
  BY <1>1, Invariants, PTL

\* spawnOnce() and its respawn timer, stop(): the server is fed by its current probe alone,
\* however often probes are restarted, exit and fail, unless an overlap let another in.
THEOREM FedByOne == Spec => []OneFeed
<1>1. IInv => OneFeed
  BY DEF IInv, Calm, OneHeard, Apart, Quiet, Awaited, InFlight, OneFeed, Feeding
<1> QED
  BY <1>1, Invariants, PTL

\* restartProbe(): no snapshot of a probe that was replaced is the latest.
THEOREM LatestIsFresh == Spec => []NothingStale
<1>1. IInv => NothingStale
  BY DEF IInv, Calm, Fresh, NothingStale
<1> QED
  BY <1>1, Invariants, PTL

\* stop(): an isolate that runs is the current one, or being killed, or lost by a failure.
THEOREM NoIsolateLingers == Spec => []NoneLingers
<1>1. IInv => NoneLingers
  BY DEF IInv, Calm, Accounted, NoneLingers
<1> QED
  BY <1>1, Invariants, PTL
=============================================================================
