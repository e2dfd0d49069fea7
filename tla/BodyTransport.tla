--------------------------- MODULE BodyTransport ----------------------------
(***************************************************************************)
(* How a captured body reaches a reader: the exporter (agent/src/export.js)  *)
(* prints the lines of the bodies it ships ahead of the snapshot whose rows   *)
(* refer to them; the console lane carries the lines to server/portal.js, and *)
(* may drop one; the server folds them into the store and keeps the rows;     *)
(* and a row is opened by looking its id up.  The probe numbers exchanges     *)
(* from 1 in each run, so a run that ends matters: restartProbe() forgets     *)
(* what the ids of the old run named, a respawn by portal.js does not.        *)
(***************************************************************************)
EXTENDS BodyStore, SequencesExt

CONSTANTS
    Exchanges,   (* what the exporter may hold of an exchange: its request and its  *)
                 (* response, each [pieces, clen, more] or Nothing, and whether the *)
                 (* tick's budget left it out (nopv)                                *)
    PerTick,     (* bound: exchanges drained in one tick                            *)
    MaxRun,      (* bound: runs of the probe                                        *)
    MaxLost      (* bound: lines lost                                               *)

Captured == [pieces : {n \in Nat : 0..(n - 1) \subseteq Offsets}, clen : Lengths \cup {Nothing},
             more : BOOLEAN]
ASSUME BodyTransportAssumption ==
    /\ Exchanges \subseteq [req : Captured \cup {Nothing}, res : Captured \cup {Nothing},
                           nopv : BOOLEAN]
    /\ Nothing \notin Captured
    /\ \A i \in Ids : i \in Nat \ {0} /\ 1..i \subseteq Ids
    /\ MaxRun \in Nat \ {0} /\ 1..MaxRun \subseteq Runs
    /\ PerTick \in Nat

VARIABLES
    run,        (* the current run of the probe                                 *)
    lastId,     (* idCounter: exchanges numbered in this run                    *)
    lane,       (* the lines printed and not received yet                       *)
    rows,       (* recentRows: the rows received and kept                       *)
    respawned,  (* history: a run began without the store being reset           *)
    lost,       (* history: the directions of this run of which a line was lost *)
    losses,     (* history: lines lost                                          *)
    gone,       (* history: the ids of this run that were evicted               *)
    arrived     (* history: the body lines of this run that were received       *)

probe == <<run, lastId>>
history == <<respawned, lost, losses, gone, arrived>>
vars == <<storeVars, probe, lane, rows, history>>

-----------------------------------------------------------------------------
(* The exporter's lines.                                                     *)

\* messageLines(): a head, then the pieces in order.
Lines(id, k, m) ==
    IF m = Nothing THEN <<>>
    ELSE <<[t |-> "head", id |-> id, k |-> k, run |-> run, clen |-> m.clen, more |-> m.more]>>
         \o [j \in 1..m.pieces |-> [t |-> "body", id |-> id, k |-> k, run |-> run,
                                    off |-> j - 1]]
\* bodyLines(): an exchange is shipped whole, or not at all and marked.
ExchangeLines(row) ==
    IF row.nopv THEN <<>>
    ELSE Lines(row.id, "req", row.req) \o Lines(row.id, "res", row.res)
\* Fault: the snapshot goes out ahead of the bodies its rows refer to.
SnapshotFirst(list) ==
    <<[t |-> "snapshot", rows |-> {list[j] : j \in 1..Len(list)}]>>
    \o FlattenSeq([j \in 1..Len(list) |-> ExchangeLines(list[j])])
\* tickOutput(): the bodies, then the snapshot that refers to them.
TickOutput(list) ==
    FlattenSeq([j \in 1..Len(list) |-> ExchangeLines(list[j])])
    \o <<[t |-> "snapshot", rows |-> {list[j] : j \in 1..Len(list)}]>>

Init ==
    /\ StoreInit
    /\ run = 1 /\ lastId = 0
    /\ lane = <<>> /\ rows = {}
    /\ respawned = FALSE /\ lost = {} /\ losses = 0 /\ gone = {} /\ arrived = {}

-----------------------------------------------------------------------------

Rows(list) == [j \in 1..Len(list) |->
    [run |-> run, id |-> lastId + j, nopv |-> list[j].nopv,
     req |-> list[j].req, res |-> list[j].res]]

\* emit(): the exchanges completed since the last tick, in the order of their ids.  The
\* lane is a queue and nobody reads the store to print, so a tick may as well wait for
\* the lines of the one before.
Emit(list) ==
    /\ lane = <<>>
    /\ lastId + Len(list) \in Ids
    /\ lastId' = lastId + Len(list)
    /\ lane' = TickOutput(Rows(list))
    /\ UNCHANGED <<storeVars, run, rows, history>>

\* onPart
ReceivePart ==
    /\ lane # <<>> /\ lane[1].t # "snapshot"
    /\ Part(lane[1])
    /\ lane' = Tail(lane)
    /\ arrived' = IF lane[1].t = "body" THEN arrived \cup {lane[1]} ELSE arrived
    /\ gone' = gone \cup {i \in Ids : i \in {lane[1].id} \cup {j \in Ids : store[j] # Nothing}
                                      /\ store'[i] = Nothing}
    /\ UNCHANGED <<probe, rows, respawned, lost, losses>>

\* onSnapshot
ReceiveSnapshot ==
    /\ lane # <<>> /\ lane[1].t = "snapshot"
    /\ rows' = rows \cup lane[1].rows
    /\ lane' = Tail(lane)
    /\ UNCHANGED <<storeVars, probe, history>>

\* A line the lane drops (over its ceiling) or portal.js cannot parse.
LoseLine ==
    /\ lane # <<>>
    /\ losses < MaxLost
    /\ losses' = losses + 1
    /\ lane' = Tail(lane)
    /\ lost' = IF lane[1].t = "snapshot" THEN lost ELSE lost \cup {<<lane[1].id, lane[1].k>>}
    /\ UNCHANGED <<storeVars, probe, rows, respawned, gone, arrived>>

NewRun ==
    /\ run < MaxRun
    /\ run' = run + 1
    /\ lastId' = 0
    /\ lane' = <<>>
    /\ lost' = {} /\ gone' = {} /\ arrived' = {}
    /\ UNCHANGED losses

\* The isolate died; portal.js starts another one and tells nobody but the status line.
Respawn ==
    /\ NewRun
    /\ respawned' = TRUE
    /\ UNCHANGED <<storeVars, rows>>

\* Fault: the rows outlive the bodies their ids named.
RestartKeepingRows ==
    /\ NewRun
    /\ ResetStore
    /\ rows' = rows
    /\ respawned' = FALSE
\* restartProbe(): from handle.stop() to startProbe(), nothing is received.
Restart ==
    /\ NewRun
    /\ ResetStore
    /\ rows' = {}
    /\ respawned' = FALSE

Next ==
    \/ \E n \in 1..PerTick : \E list \in [1..n -> Exchanges] : Emit(list)
    \/ ReceivePart
    \/ ReceiveSnapshot
    \/ LoseLine
    \/ Respawn
    \/ Restart

Spec == Init /\ [][Next]_vars

-----------------------------------------------------------------------------

Row == [run : Runs, id : Ids, nopv : BOOLEAN,
        req : {x.req : x \in Exchanges}, res : {x.res : x \in Exchanges}]
SnapshotLines == [t : {"snapshot"}, rows : SUBSET Row]

TypeOK ==
    /\ StoreTypeOK
    /\ bytes \in Nat /\ dropped \in Nat
    /\ run \in Runs /\ lastId \in Ids \cup {0}
    /\ lane \in Seq(HeadLines \cup BodyLines \cup SnapshotLines)
    /\ rows \subseteq Row

\* A row is never un-openable for want of time: by when a row is here, so is all of the
\* body it refers to, unless the budget left it out, a line of it was lost or it was
\* evicted since.
RowOpens ==
    \A r \in rows, k \in Directions :
        (/\ r.run = run /\ ~respawned
         /\ ~r.nopv /\ r[k] # Nothing
         /\ <<r.id, k>> \notin lost /\ r.id \notin gone)
            => /\ Held(r.id, k)
               /\ Len(store[r.id].msgs[k].d) = r[k].pieces
               /\ ~store[r.id].msgs[k].gap

\* Nothing that came is left out in silence: each piece received for a message that is
\* held is in it, or the message says that a part of it is missing.
NothingLeftOut ==
    ~respawned =>
        \A line \in arrived : Held(line.id, line.k) =>
            LET m == store[line.id].msgs[line.k] IN m.gap \/ line.off < Len(m.d)

\* What bodies.js says a reset on any restart is for: opening a row serves that row's
\* exchange, never another run's exchange of the same number.
OwnBody ==
    \A r \in rows, k \in Directions : Held(r.id, k) =>
        LET m == store[r.id].msgs[k]
        IN m.run = r.run /\ \A j \in 1..Len(m.d) : m.d[j].run = r.run

\* That is so as long as the probe is only restarted by restartProbe().
OwnBodySinceReset == ~respawned => OwnBody
=============================================================================
