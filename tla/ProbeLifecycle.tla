--------------------------- MODULE ProbeLifecycle ----------------------------
(***************************************************************************)
(* Starting, stopping and replacing the probe: startExporter() of            *)
(* server/portal.js, which spawns an isolate and respawns it when it exits,  *)
(* and the three callers of server/index.js: main(), restartProbe() and      *)
(* shutdown().  A handle is what one call of startExporter() makes; each of  *)
(* its spawns is an isolate of the daemon, which outlives its spawner.       *)
(*                                                                         *)
(* JavaScript runs an action to its next await; what an await waits for (a   *)
(* child process, a connection, a timer, a close event) is an action.        *)
(***************************************************************************)
EXTENDS Integers, FiniteSets

CONSTANTS
    MaxStarts,     (* bound: calls of startExporter()                             *)
    MaxExits,      (* bound: isolates that exit by themselves                     *)
    MaxFailures    (* bound: spawns, connections and kills that fail              *)

ASSUME LifecycleAssumption == /\ MaxStarts \in Nat \ {0}
                              /\ MaxExits \in Nat /\ MaxFailures \in Nat

Handles == 1..MaxStarts
None == 0

VARIABLES
    phase,        (* handle -> where its spawnOnce() is: "unused", "spawning"      *)
                  (* (yeet run), "connecting", "live", "waiting" (for the respawn  *)
                  (* timer), "done"                                                *)
    stopped,      (* handle -> its flag                                            *)
    currentId,    (* handle -> the isolate it spawned last                         *)
    starts,       (* calls of startExporter() so far                               *)
    handle,       (* index.js: the handle in use                                   *)
    mainWaits,    (* the handle that main() awaits                                 *)
    hooked,       (* main() has installed the shutdown handlers                    *)
    restart,      (* restartProbe(): "idle", "stopping", "starting"                *)
    restartWaits, (* the handle that restartProbe() awaits                         *)
    kills,        (* the `yeet kill' running for "restart" and for "shutdown"      *)
    exiting,      (* shutdown() was called                                         *)
    exited,       (* the process is gone                                           *)
    latest,       (* the handle the latest snapshot came from                      *)
    status,       (* the last status broadcast                                     *)
    alive,        (* the daemon: isolates that run                                 *)
    lastIsolate,  (* the daemon: the last isolate id                               *)
    exits,        (* history: isolates that exited                                 *)
    failures,     (* history: failures                                             *)
    raced,        (* history: what overlapped that nothing keeps apart             *)
    leaked        (* history: isolates whose id was lost by a failure              *)

exporter == <<phase, stopped, currentId, starts>>
callers == <<handle, mainWaits, hooked, restart, restartWaits, exiting, exited>>
daemon == <<alive, lastIsolate, exits>>
history == <<failures, raced, leaked>>
vars == <<exporter, callers, kills, latest, status, daemon, history>>

-----------------------------------------------------------------------------
(* startExporter().                                                          *)

\* The call runs to `yeet run' and returns the promise of a handle.
StartExporter(h) ==
    /\ phase' = [phase EXCEPT ![h] = "spawning"]
    /\ starts' = h
    /\ status' = "spawning"

InFlight(h) == phase[h] \in {"spawning", "connecting"}
\* A caller awaits the first spawn; nobody awaits the respawns.
Awaited(h) == h \in {mainWaits, restartWaits}

\* Whoever awaits h goes on with it: main() and restartProbe() both set `handle'.
Resolve(h) ==
    /\ handle' = IF Awaited(h) THEN h ELSE handle
    /\ hooked' = (hooked \/ mainWaits = h)
    /\ mainWaits' = IF mainWaits = h THEN None ELSE mainWaits
    /\ restartWaits' = IF restartWaits = h THEN None ELSE restartWaits
    /\ restart' = IF restartWaits = h THEN "idle" ELSE restart
\* Fault: the guard is cleared on success only.
RejectHoldingGuard(h) ==
    /\ mainWaits' = IF mainWaits = h THEN None ELSE mainWaits
    /\ restartWaits' = IF restartWaits = h THEN None ELSE restartWaits
    /\ status' = "error"
    /\ UNCHANGED <<handle, hooked, restart>>
\* Fault: nobody is told.
RejectSilently(h) ==
    /\ mainWaits' = IF mainWaits = h THEN None ELSE mainWaits
    /\ restartWaits' = IF restartWaits = h THEN None ELSE restartWaits
    /\ restart' = IF restartWaits = h THEN "idle" ELSE restart
    /\ UNCHANGED <<status, handle, hooked>>
\* The spawn failed: main() gives up, restartProbe() answers 500, a respawn is reported.
Reject(h) ==
    /\ mainWaits' = IF mainWaits = h THEN None ELSE mainWaits
    /\ restartWaits' = IF restartWaits = h THEN None ELSE restartWaits
    /\ restart' = IF restartWaits = h THEN "idle" ELSE restart
    /\ status' = "error"
    /\ UNCHANGED <<handle, hooked>>

Init ==
    /\ phase = [h \in Handles |-> IF h = 1 THEN "spawning" ELSE "unused"]
    /\ stopped = [h \in Handles |-> FALSE]
    /\ currentId = [h \in Handles |-> None]
    /\ starts = 1
    /\ handle = None /\ mainWaits = 1 /\ hooked = FALSE
    /\ restart = "idle" /\ restartWaits = None
    /\ kills = [c \in {"restart", "shutdown"} |-> None]
    /\ exiting = FALSE /\ exited = FALSE
    /\ latest = None /\ status = "spawning"
    /\ alive = {} /\ lastIsolate = 0
    /\ exits = 0 /\ failures = 0 /\ raced = {} /\ leaked = {}

\* `yeet run' printed the id of the isolate it spawned.
Spawned(h) ==
    /\ ~exited /\ phase[h] = "spawning"
    /\ phase' = [phase EXCEPT ![h] = "connecting"]
    /\ lastIsolate' = lastIsolate + 1
    /\ alive' = alive \cup {lastIsolate'}
    /\ currentId' = [currentId EXCEPT ![h] = lastIsolate']
    /\ UNCHANGED <<stopped, starts, callers, kills, latest, status, exits, history>>

SpawnFails(h) ==
    /\ ~exited /\ phase[h] = "spawning"
    /\ failures < MaxFailures
    /\ failures' = failures + 1
    /\ phase' = [phase EXCEPT ![h] = "done"]
    /\ Reject(h)
    /\ UNCHANGED <<stopped, currentId, starts, kills, exiting, exited, latest, daemon,
                   raced, leaked>>

Connected(h) ==
    /\ ~exited /\ phase[h] = "connecting"
    /\ currentId[h] \in alive
    /\ phase' = [phase EXCEPT ![h] = "live"]
    /\ status' = "connected"
    /\ Resolve(h)
    /\ UNCHANGED <<stopped, currentId, starts, kills, exiting, exited, latest, daemon, history>>

\* Every retry failed.  An isolate whose first connection failed is left to itself: the
\* handle that knows its id is never returned.
ConnectFails(h) ==
    /\ ~exited /\ phase[h] = "connecting"
    /\ currentId[h] \notin alive \/ failures < MaxFailures
    /\ failures' = IF currentId[h] \in alive THEN failures + 1 ELSE failures
    /\ leaked' = IF Awaited(h) THEN leaked \cup {currentId[h]} ELSE leaked
    /\ phase' = [phase EXCEPT ![h] = "done"]
    /\ Reject(h)
    /\ UNCHANGED <<stopped, currentId, starts, kills, exiting, exited, latest, daemon, raced>>

\* A line of the console: the snapshot becomes the latest.
Snapshot(h) ==
    /\ ~exited /\ phase[h] = "live"
    /\ latest' = h
    /\ UNCHANGED <<exporter, callers, kills, status, daemon, history>>

IsolateExits(i) ==
    /\ exits < MaxExits
    /\ exits' = exits + 1
    /\ alive' = alive \ {i}
    /\ UNCHANGED <<exporter, callers, kills, latest, status, lastIsolate, history>>

\* onclose: the isolate is gone.
ConsoleClosed(h) ==
    /\ ~exited /\ phase[h] = "live"
    /\ currentId[h] \notin alive
    /\ phase' = [phase EXCEPT ![h] = "waiting"]
    /\ status' = "isolate-gone"
    /\ UNCHANGED <<stopped, currentId, starts, callers, kills, latest, daemon, history>>

\* Fault: a stopped exporter respawns.
RespawnRegardless(h) ==
    /\ ~exited /\ phase[h] = "waiting"
    /\ phase' = [phase EXCEPT ![h] = "spawning"]
    /\ status' = "spawning"
    /\ UNCHANGED <<stopped, currentId, starts, callers, kills, latest, daemon, history>>
\* The respawn timer.
Respawn(h) ==
    /\ ~exited /\ phase[h] = "waiting"
    /\ phase' = [phase EXCEPT ![h] = IF stopped[h] THEN "done" ELSE "spawning"]
    /\ status' = IF stopped[h] THEN status ELSE "spawning"
    /\ UNCHANGED <<stopped, currentId, starts, callers, kills, latest, daemon, history>>

\* Fault: the console is closed, and the isolate left running.
StopWithoutKill(h, caller) ==
    /\ stopped' = [stopped EXCEPT ![h] = TRUE]
    /\ phase' = [phase EXCEPT ![h] = IF @ = "live" THEN "done" ELSE @]
    /\ kills' = [kills EXCEPT ![caller] = None]
\* stop(), up to its await: the console is closed and the last isolate is to be killed.
\* A spawn that is in flight takes no notice.
Stop(h, caller) ==
    /\ stopped' = [stopped EXCEPT ![h] = TRUE]
    /\ phase' = [phase EXCEPT ![h] = IF @ = "live" THEN "done" ELSE @]
    /\ kills' = [kills EXCEPT ![caller] = currentId[h]]

Killed(caller) ==
    \/ /\ alive' = alive \ {kills[caller]}
       /\ UNCHANGED <<failures, leaked>>
    \/ /\ failures < MaxFailures
       /\ failures' = failures + 1
       /\ leaked' = leaked \cup {kills[caller]}
       /\ UNCHANGED alive

-----------------------------------------------------------------------------
(* restartProbe().                                                           *)

Overlaps == (IF mainWaits # None THEN {"first start"} ELSE {})
            \cup (IF handle # None /\ InFlight(handle) THEN {"respawn"} ELSE {})
            \cup (IF exiting THEN {"shutdown"} ELSE {})

\* Anything else is answered 409.
MayRestart == ~exited /\ starts < MaxStarts /\ restart = "idle"

\* POST /api/iface or /api/bodies, with a probe to stop first.
RestartRequested ==
    /\ MayRestart /\ handle # None
    /\ restart' = "stopping"
    /\ Stop(handle, "restart")
    /\ status' = "spawning"
    /\ raced' = raced \cup Overlaps
    /\ UNCHANGED <<currentId, starts, handle, mainWaits, hooked, restartWaits, exiting, exited,
                   latest, daemon, failures, leaked>>

\* Fault: what was captured under the previous settings is kept.
StartAfterStopKeepingLatest ==
    /\ restart' = "starting"
    /\ restartWaits' = starts + 1
    /\ latest' = latest
    /\ StartExporter(starts + 1)
\* The old probe is stopped: forget what it sent, start the next.
StartAfterStop ==
    /\ restart' = "starting"
    /\ restartWaits' = starts + 1
    /\ latest' = None
    /\ StartExporter(starts + 1)

\* The same, when there is no probe to stop.
RestartWithoutProbe ==
    /\ MayRestart /\ handle = None
    /\ StartAfterStop
    /\ raced' = raced \cup Overlaps
    /\ UNCHANGED <<stopped, currentId, handle, mainWaits, hooked, kills, exiting, exited,
                   daemon, failures, leaked>>

\* `yeet kill' returned, whatever it did.
RestartStopped ==
    /\ ~exited /\ restart = "stopping"
    /\ starts < MaxStarts
    /\ Killed("restart")
    /\ kills' = [kills EXCEPT !["restart"] = None]
    /\ StartAfterStop
    /\ UNCHANGED <<stopped, currentId, handle, mainWaits, hooked, exiting, exited,
                   lastIsolate, exits, raced>>

-----------------------------------------------------------------------------
(* shutdown(), on SIGTERM or SIGINT.                                         *)

ShutdownRequested ==
    /\ hooked /\ ~exiting
    /\ exiting' = TRUE
    /\ Stop(handle, "shutdown")
    /\ raced' = raced \cup (Overlaps \ {"shutdown"})
                      \cup (IF restart # "idle" THEN {"shutdown"} ELSE {})
    /\ UNCHANGED <<currentId, starts, handle, mainWaits, hooked, restart, restartWaits, exited,
                   latest, status, daemon, failures, leaked>>

ShutdownCompletes ==
    /\ exiting /\ ~exited
    /\ Killed("shutdown")
    /\ kills' = [kills EXCEPT !["shutdown"] = None]
    /\ exited' = TRUE
    /\ UNCHANGED <<exporter, handle, mainWaits, hooked, restart, restartWaits, exiting, latest,
                   status, lastIsolate, exits, raced>>

\* A step that answers something awaited.
Progress(h) ==
    \/ Spawned(h) \/ SpawnFails(h)
    \/ Connected(h) \/ ConnectFails(h)
    \/ ConsoleClosed(h) \/ Respawn(h)

Next ==
    \/ \E h \in Handles : Progress(h)
    \/ \E h \in Handles : Snapshot(h)
    \/ \E i \in alive : IsolateExits(i)
    \/ RestartRequested
    \/ RestartWithoutProbe
    \/ RestartStopped
    \/ ShutdownRequested
    \/ ShutdownCompletes

\* A child process ends, a connection is made or given up, a timer fires and an event
\* is delivered; people and isolates do as they please.
Fairness ==
    /\ \A h \in Handles : WF_vars(Progress(h))
    /\ WF_vars(RestartStopped)
    /\ WF_vars(ShutdownCompletes)

Spec == Init /\ [][Next]_vars /\ Fairness

-----------------------------------------------------------------------------

Isolates == Nat \ {None}

TypeOK ==
    /\ phase \in [Handles -> {"unused", "spawning", "connecting", "live", "waiting", "done"}]
    /\ stopped \in [Handles -> BOOLEAN]
    /\ currentId \in [Handles -> Isolates \cup {None}]
    /\ {handle, restartWaits, latest} \subseteq Handles \cup {None}
    /\ mainWaits \in {None, 1}
    /\ restart \in {"idle", "stopping", "starting"}
    /\ restart = "starting" <=> restartWaits # None
    /\ kills \in [{"restart", "shutdown"} -> Isolates \cup {None}]
    /\ alive \subseteq Isolates
    /\ raced \subseteq {"first start", "respawn", "shutdown"}

Feeding == {h \in Handles : phase[h] = "live"}

\* The server is fed by one probe, its current one, unless a request overlapped a spawn
\* that nothing protects from it.  (Two would count every exchange twice and give two
\* exchanges the same id.)
OneFeed == raced = {} => \A h \in Feeding : h = handle /\ ~stopped[h]

\* A probe that is being replaced is not heard again: the latest snapshot was captured
\* by the probe that was started last, whenever there is one.
NothingStale == raced = {} /\ latest # None => latest = starts

\* No isolate is left running by anything but a failure of the daemon: each one that
\* runs is the last one of the handle in use or awaited, or is being killed.
NoneLingers ==
    raced = {} => \A i \in alive \ leaked :
        \/ \E h \in Handles : currentId[h] = i /\ ~stopped[h] /\ (h = handle \/ Awaited(h))
        \/ \E c \in {"restart", "shutdown"} : kills[c] = i

\* A restart ends, in success or in failure, so that another one may be asked for.
RestartEnds == restart # "idle" ~> restart = "idle" \/ exited

\* An isolate that exited is replaced, or its respawn failed and the status says so.
ExitIsAnswered ==
    \A h \in Handles : phase[h] = "waiting" ~>
        phase[h] = "live" \/ stopped[h] \/ status = "error" \/ exited

\* What portal.js says: if the isolate dies, the console socket closes and we respawn.
Respawns == \A h \in Handles :
    phase[h] = "waiting" ~> phase[h] = "live" \/ stopped[h] \/ exited
=============================================================================
