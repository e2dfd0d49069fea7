------------------------------ MODULE RowStream -----------------------------
(***************************************************************************)
(* The live stream of requests, from the probe to the reader of a page.       *)
(*                                                                           *)
(* The exporter (agent/src/export.js) drains the completed exchanges once a   *)
(* tick, ships the bodies that the tick's budget allows, and then a snapshot  *)
(* with as many rows as the frame has room for.  The server (index.js) keeps  *)
(* the bodies and the latest snapshot and passes each snapshot on to the      *)
(* pages that are connected; a page that connects is primed with the latest.  *)
(* The page (public/app.js) was served with a snapshot in it; it accumulates  *)
(* the rows, shows those of one route, holds them back while somebody reads,  *)
(* and fetches the body of a row that is opened, once.                        *)
(*                                                                           *)
(* One page, and one route that all exchanges belong to.  A row costs one of  *)
(* the frame's room.  A body is told by the run of the probe it comes from.   *)
(***************************************************************************)
EXTENDS Integers, SequencesExt, FiniteSets, Functions

CONSTANTS
    Exchanges,     (* [failed, cost]: code >= 400, and what its body lines cost    *)
                   (* of the budget, 0 if nothing of it was captured               *)
    MaxRun,        (* bound: runs of the probe                                     *)
    MaxEvents,     (* bound: runs of the probe and exchanges of all of them        *)
    MaxConnects,   (* bound: connections the page makes                            *)
    MaxWire,       (* bound: snapshots on their way to the page                    *)
    MaxFetches,    (* bound: fetches under way at once                             *)
    RecentCap,     (* RECENT_CAP                                                   *)
    DrainMax,      (* drainRecent's max                                            *)
    PartBudget,    (* PART_BUDGET                                                  *)
    Rooms,         (* the rows that may fit beside the endpoint table              *)
    MaxHeld,       (* bodies the store holds                                       *)
    RecentMax,     (* RECENT_MAX                                                   *)
    StreamRows,    (* REQ_STREAM_ROWS                                              *)
    HeldMax,       (* HELD_MAX                                                     *)
    CacheMax,      (* BODY_CACHE_MAX                                               *)
    Nothing        (* null                                                         *)

\* Rows as the exporter ships them and as the page logs them, snapshots, bodies, and what
\* the viewer shows.
Rows == [run : 1..MaxRun, id : 1..MaxEvents, failed : BOOLEAN, cost : Nat, nopv : BOOLEAN]
Frames == [t : {"snapshot"}, rows : Seq(Rows), recentDropped : Nat, run : 1..MaxRun, upto : Nat]
PageRows == [seq : Nat, run : 1..MaxRun, id : 1..MaxEvents, captured : BOOLEAN]
Bodies == (1..MaxRun) \cup {Nothing}
Views == [seq : Nat, run : 1..MaxRun, body : Bodies]

ASSUME RowStreamAssumption ==
    /\ Exchanges \subseteq [failed : BOOLEAN, cost : Nat]
    /\ Rooms \subseteq Nat
    /\ MaxRun \in Nat \ {0}
    /\ {MaxEvents, MaxConnects, MaxWire, MaxFetches, PartBudget} \subseteq Nat
    /\ {RecentCap, DrainMax, MaxHeld, RecentMax, StreamRows, HeldMax, CacheMax} \subseteq Nat \ {0}
    /\ DrainMax <= RecentMax
    /\ Nothing \notin Nat \cup Frames \cup Views
    /\ Nothing \notin Seq(Frames)

VARIABLES
    run,           (* the current run of the probe                                 *)
    lastId,        (* idCounter                                                    *)
    before,        (* bound: exchanges of the earlier runs                         *)
    waiting,       (* recentEvents: completed exchanges, not drained yet           *)
    lane,          (* what the exporter printed and the server has not received    *)
    latest,        (* the latest snapshot                                          *)
    store,         (* the bodies held, oldest first                                *)
    wire,          (* the snapshots under way to the page, or Nothing: the page is *)
                   (* not among the sseClients                                     *)
    connects,      (* history: connections so far                                  *)
    pageRun,       (* history: the run in which the page was served, or Nothing    *)
    recent,        (* the page's log of rows, each with its __seq                  *)
    seqCounter,
    droppedRows,
    shown,         (* the __seq of the rows on screen, from the top                *)
    streamHeld,    (* the __seq of the rows held back, oldest first                *)
    streamHeldLost,
    lastSeq,       (* streamState.lastSeq                                          *)
    openSeq,       (* the row whose viewer is open                                 *)
    atTop,         (* stream.scrollTop <= 3                                        *)
    bodyCache,     (* what was fetched, oldest first                               *)
    fetching,      (* the fetches under way, and what the server answered          *)
    viewed,        (* what the open viewer shows                                   *)
    respawned,     (* history: a run began without the store being reset           *)
    cut,           (* history: ids of this run that drainRecent or the cap dropped *)
    base,          (* history: what had been drained when the page's log begins    *)
    followed,      (* history: the page has missed nothing since it was served     *)
    heldFrom,      (* history: lastSeq when the first held row came                *)
    overtaken      (* history: rows were shown ahead of rows that were held back   *)

probe   == <<run, lastId, before, waiting>>
server  == <<latest, store>>
rowLog  == <<recent, seqCounter, droppedRows>>
stream  == <<shown, streamHeld, streamHeldLost, lastSeq, atTop>>
viewer  == <<openSeq, bodyCache, fetching, viewed>>
history == <<connects, pageRun, respawned, cut, base, followed>>
order   == <<heldFrom, overtaken>>
vars == <<probe, lane, server, wire, rowLog, stream, viewer, history, order>>

LastN(s, n) == IF Len(s) <= n THEN s ELSE SubSeq(s, Len(s) - n + 1, Len(s))
FirstN(s, n) == IF Len(s) <= n THEN s ELSE SubSeq(s, 1, n)
\* What is at the positions J of s, in its order.
At(s, J) ==
    LET f[n \in 0..Len(s)] == IF n = 0 THEN <<>>
                              ELSE IF n \in J THEN Append(f[n - 1], s[n]) ELSE f[n - 1]
    IN f[Len(s)]

Init ==
    /\ run = 1 /\ lastId = 0 /\ before = 0 /\ waiting = <<>>
    /\ lane = <<>>
    /\ latest = Nothing /\ store = <<>>
    /\ wire = Nothing
    /\ recent = <<>> /\ seqCounter = 0 /\ droppedRows = 0
    /\ shown = <<>> /\ streamHeld = <<>> /\ streamHeldLost = 0 /\ lastSeq = 0 /\ atTop = TRUE
    /\ openSeq = Nothing /\ bodyCache = <<>> /\ fetching = {} /\ viewed = Nothing
    /\ connects = 0 /\ pageRun = Nothing /\ respawned = FALSE /\ cut = {} /\ base = 0
    /\ followed = FALSE /\ heldFrom = 0 /\ overtaken = FALSE

-----------------------------------------------------------------------------
(* The exporter.                                                             *)

\* onResponse: the pair is the newest; past the cap the oldest is forgotten.
Complete(x) ==
    /\ run + before + lastId < MaxEvents
    /\ lastId' = lastId + 1
    /\ LET all == Append(waiting, [id |-> lastId', failed |-> x.failed, cost |-> x.cost])
       IN /\ waiting' = LastN(all, RecentCap)
          /\ cut' = IF Len(all) > RecentCap THEN cut \cup {all[1].id} ELSE cut
    /\ UNCHANGED <<run, before, lane, server, wire, rowLog, stream, viewer, connects, pageRun,
                   respawned, base, followed, order>>

\* claim(): from the newest on, what is wanted and fits in what is left of the budget.
ClaimOne(list, wanted, got, j) ==
    IF j \in wanted \ got.send /\ list[j].cost > 0 /\ got.spent + list[j].cost <= PartBudget
    THEN [send |-> got.send \cup {j}, spent |-> got.spent + list[j].cost]
    ELSE got
Claim(list, wanted, got) ==
    LET f[n \in 0..Len(list)] == IF n = 0 THEN got
                                 ELSE ClaimOne(list, wanted, f[n - 1], Len(list) - n + 1)
    IN f[Len(list)]
None == [send |-> {}, spent |-> 0]
FailedIn(list) == {j \in 1..Len(list) : list[j].failed}
\* Fault: the newest come first, failed or not.
ClaimedNewest(list) == Claim(list, 1..Len(list), None).send
\* bodyLines(): failed exchanges claim the budget first, then all of them.
Claimed(list) == Claim(list, 1..Len(list), Claim(list, FailedIn(list), None)).send

\* A row of the snapshot: nopv says that its body was left out.
RowsOf(list) ==
    LET sent == Claimed(list)
    IN [j \in 1..Len(list) |-> [run |-> run, id |-> list[j].id, failed |-> list[j].failed,
                                cost |-> list[j].cost,
                                nopv |-> list[j].cost > 0 /\ j \notin sent]]
\* shapeRecent(): the newest rows, and how many did not fit.
Frame(rows, room, upto) ==
    [t |-> "snapshot", rows |-> LastN(rows, room),
     recentDropped |-> Len(rows) - Len(LastN(rows, room)), run |-> run, upto |-> upto]
Shipped(rows) ==
    LET sent == At(rows, {j \in 1..Len(rows) : rows[j].cost > 0 /\ ~rows[j].nopv})
    IN IF sent = <<>> THEN <<>> ELSE <<[t |-> "parts", rows |-> sent]>>
\* Fault: the snapshot goes out ahead of the bodies that its rows refer to.
SnapshotFirst(rows, room, upto) == <<Frame(rows, room, upto)>> \o Shipped(rows)
\* tickOutput(): the bodies, then the snapshot whose rows refer to them.
TickOutput(rows, room, upto) == Shipped(rows) \o <<Frame(rows, room, upto)>>

\* emit(), drainRecent(): what has settled is taken, the oldest of it in vain if it is too
\* much.  (A pair that has not settled yet completes later here.  `run' and `upto' stand
\* for the snapshot's ts.)
Tick(room) ==
    /\ lane = <<>>
    /\ lane' = TickOutput(RowsOf(LastN(waiting, DrainMax)), room, lastId)
    /\ cut' = cut \cup {waiting[j].id : j \in 1..(Len(waiting) - DrainMax)}
    /\ waiting' = <<>>
    /\ UNCHANGED <<run, lastId, before, server, wire, rowLog, stream, viewer, connects, pageRun,
                   respawned, base, followed, order>>

-----------------------------------------------------------------------------
(* The server.                                                               *)

\* bodies.part(), for the lines of one body: a new one is the youngest, one of an id
\* that is held takes its place.
Put(st, b) ==
    IF \E j \in 1..Len(st) : st[j].id = b.id
    THEN [j \in 1..Len(st) |-> IF st[j].id = b.id THEN b ELSE st[j]]
    ELSE LastN(Append(st, b), MaxHeld)
Stored(rows) ==
    LET f[n \in 0..Len(rows)] ==
            IF n = 0 THEN store ELSE Put(f[n - 1], [id |-> rows[n].id, run |-> rows[n].run])
    IN f[Len(rows)]

ReceiveParts ==
    /\ lane # <<>> /\ lane[1].t = "parts"
    /\ store' = Stored(lane[1].rows)
    /\ lane' = Tail(lane)
    /\ UNCHANGED <<probe, latest, wire, rowLog, stream, viewer, history, order>>

\* broadcast()
Broadcast ==
    /\ lane # <<>> /\ lane[1].t = "snapshot"
    /\ wire # Nothing => Len(wire) < MaxWire
    /\ latest' = lane[1]
    /\ wire' = IF wire = Nothing THEN Nothing ELSE Append(wire, lane[1])
    /\ followed' = (followed /\ wire # Nothing)
    /\ lane' = Tail(lane)
    /\ UNCHANGED <<probe, store, rowLog, stream, viewer, connects, pageRun, respawned, cut, base,
                   order>>

Begun ==
    /\ run < MaxRun
    /\ run' = run + 1
    /\ lastId' = 0
    /\ before' = before + lastId
    /\ waiting' = <<>>
    /\ cut' = {}
    /\ followed' = FALSE
\* Fault: what the last isolate printed is still taken in.
BegunInherited == Begun /\ lane' = lane
\* The next isolate of the probe: nothing of the last one is listened to.
NewRun == Begun /\ lane' = <<>>

\* The isolate died and portal.js starts another.
Respawn ==
    /\ NewRun
    /\ respawned' = TRUE
    /\ UNCHANGED <<server, wire, rowLog, stream, viewer, connects, pageRun, base, order>>

\* restartProbe(), asked for by this page or by anybody else.
Restart ==
    /\ NewRun
    /\ latest' = Nothing
    /\ store' = <<>>
    /\ respawned' = FALSE
    /\ UNCHANGED <<wire, rowLog, stream, viewer, connects, pageRun, base, order>>

-----------------------------------------------------------------------------
(* The page: its log of rows.                                                *)

Numbered(rows, from) ==
    [j \in 1..Len(rows) |-> [seq |-> from + j, run |-> rows[j].run, id |-> rows[j].id,
                             captured |-> rows[j].cost > 0]]
\* ingestRecent()
Ingested(kept, rows) == LastN(kept \o Numbered(rows, seqCounter), RecentMax)
Seqs(rows) == [j \in 1..Len(rows) |-> rows[j].seq]

\* serveIndex() with the latest snapshot in the page, which renders the route of its URL.  A
\* page that is served without one reloads (startApp()).
OpenPage ==
    /\ pageRun = Nothing
    /\ latest # Nothing
    /\ pageRun' = run
    /\ recent' = Ingested(<<>>, latest.rows)
    /\ seqCounter' = Len(latest.rows)
    /\ base' = latest.upto - Len(latest.rows) - latest.recentDropped
    /\ followed' = (latest.run = run)
    /\ shown' = FirstN(Reverse(Seqs(recent')), StreamRows)
    /\ lastSeq' = seqCounter'
    /\ UNCHANGED <<probe, lane, server, wire, droppedRows, streamHeld, streamHeldLost, atTop,
                   viewer, connects, respawned, cut, order>>

\* handleEvents(): the new client is primed with the latest snapshot.
Connect ==
    /\ pageRun # Nothing /\ wire = Nothing
    /\ connects < MaxConnects
    /\ connects' = connects + 1
    /\ wire' = IF latest = Nothing THEN <<>> ELSE <<latest>>
    /\ UNCHANGED <<probe, lane, server, rowLog, stream, viewer, pageRun, respawned, cut, base,
                   followed, order>>

\* The connection is gone, with what was on it; the EventSource will connect again.
Disconnect ==
    /\ wire # Nothing
    /\ wire' = Nothing
    /\ followed' = FALSE
    /\ UNCHANGED <<probe, lane, server, rowLog, stream, viewer, connects, pageRun, respawned, cut,
                   base, order>>

\* postIface(), postBodies(): the rows of the old setting are dropped at once; whether
\* and when the probe restarts is up to the server.
ForgetRows ==
    /\ pageRun # Nothing /\ recent # <<>>
    /\ recent' = <<>>
    /\ followed' = FALSE
    /\ UNCHANGED <<probe, lane, server, wire, seqCounter, droppedRows, stream, viewer, connects,
                   pageRun, respawned, cut, base, order>>

-----------------------------------------------------------------------------
(* The page: the stream of the route.                                        *)

Paused == openSeq # Nothing \/ ~atTop

\* prependRows(): the rows go on top as one block, in the order they came, and what is
\* too much goes at the bottom.
Prepended(rows) == FirstN(rows \o shown, StreamRows)

\* Fault: what does not fit behind the banner goes unsaid.
HoldSilently(rows) ==
    /\ streamHeld' = LastN(streamHeld \o rows, HeldMax)
    /\ UNCHANGED streamHeldLost
Hold(rows) ==
    LET all == streamHeld \o rows
    IN /\ streamHeld' = LastN(all, HeldMax)
       /\ streamHeldLost' = streamHeldLost + (Len(all) - Len(LastN(all, HeldMax)))

\* refreshDetail(), after the log and the counter were brought up to date.
Refresh ==
    LET fresh == Seqs(At(recent', {j \in 1..Len(recent') : recent'[j].seq > lastSeq}))
    IN IF fresh = <<>> THEN UNCHANGED <<stream, order>>
       ELSE /\ lastSeq' = seqCounter'
            /\ UNCHANGED atTop
            /\ IF Paused
               THEN /\ Hold(fresh)
                    /\ heldFrom' = IF streamHeld = <<>> THEN lastSeq ELSE heldFrom
                    /\ UNCHANGED <<shown, overtaken>>
               ELSE /\ shown' = Prepended(fresh)
                    /\ overtaken' = (overtaken \/ streamHeld # <<>>)
                    /\ UNCHANGED <<streamHeld, streamHeldLost, heldFrom>>

\* Fault: a snapshot without rows is not looked at.
CountedWithRows(snap) == IF snap.rows = <<>> THEN 0 ELSE snap.recentDropped
Counted(snap) == snap.recentDropped

\* applySnapshot()
Apply ==
    /\ wire # Nothing /\ wire # <<>>
    /\ LET snap == Head(wire)
       IN /\ recent' = Ingested(recent, snap.rows)
          /\ seqCounter' = seqCounter + Len(snap.rows)
          /\ droppedRows' = droppedRows + Counted(snap)
    /\ Refresh
    /\ wire' = Tail(wire)
    /\ UNCHANGED <<probe, lane, server, viewer, history>>

\* renderDetail(), when a route is selected (again).
Select ==
    /\ pageRun # Nothing
    /\ openSeq' = Nothing /\ viewed' = Nothing
    /\ shown' = FirstN(Reverse(Seqs(recent)), StreamRows)
    /\ streamHeld' = <<>> /\ streamHeldLost' = 0
    /\ lastSeq' = seqCounter
    /\ atTop' = TRUE
    /\ heldFrom' = 0 /\ overtaken' = FALSE
    /\ UNCHANGED <<probe, lane, server, wire, rowLog, bodyCache, fetching, history>>

\* resumeStream(): what is open is closed, and what was held back goes on top.
Resumed ==
    /\ openSeq' = Nothing /\ viewed' = Nothing
    /\ shown' = Prepended(streamHeld)
    /\ streamHeld' = <<>> /\ streamHeldLost' = 0
    /\ heldFrom' = 0 /\ overtaken' = FALSE
    /\ atTop' = TRUE
    /\ UNCHANGED lastSeq

\* The banner was clicked, or a scroll event found the stream at the top.
Resume ==
    /\ streamHeld # <<>>
    /\ Resumed
    /\ UNCHANGED <<probe, lane, server, wire, rowLog, bodyCache, fetching, history>>

ScrollAway ==
    /\ atTop /\ Len(shown) > 1
    /\ atTop' = FALSE
    /\ UNCHANGED <<probe, lane, server, wire, rowLog, shown, streamHeld, streamHeldLost, lastSeq,
                   viewer, history, order>>
\* The scroll event comes later (Resume), at the browser's next rendering.
ScrollBack ==
    /\ ~atTop
    /\ atTop' = TRUE
    /\ UNCHANGED <<probe, lane, server, wire, rowLog, shown, streamHeld, streamHeldLost, lastSeq,
                   viewer, history, order>>

-----------------------------------------------------------------------------
(* The page: reading a row.                                                  *)

Cached(id) == \E j \in 1..Len(bodyCache) : bodyCache[j].id = id
CachedBody(id) == bodyCache[CHOOSE j \in 1..Len(bodyCache) : bodyCache[j].id = id].body
\* Fault: the cache is never trimmed.
CacheAll(id, body) ==
    IF Cached(id)
    THEN [j \in 1..Len(bodyCache) |-> IF bodyCache[j].id = id THEN [id |-> id, body |-> body]
                                      ELSE bodyCache[j]]
    ELSE Append(bodyCache, [id |-> id, body |-> body])
CacheWith(id, body) ==
    IF Cached(id)
    THEN [j \in 1..Len(bodyCache) |-> IF bodyCache[j].id = id THEN [id |-> id, body |-> body]
                                      ELSE bodyCache[j]]
    ELSE LastN(Append(bodyCache, [id |-> id, body |-> body]), CacheMax)

Showing(row, body) == [seq |-> row.seq, run |-> row.run, body |-> body]

\* toggleViewer() on the open row: it closes, and the tail is picked up at the top.
CloseRow ==
    /\ openSeq # Nothing
    /\ IF atTop /\ streamHeld # <<>> THEN Resumed
       ELSE /\ openSeq' = Nothing /\ viewed' = Nothing
            /\ UNCHANGED <<stream, order>>
    /\ UNCHANGED <<probe, lane, server, wire, rowLog, bodyCache, fetching, history>>

\* toggleViewer() on another row whose event is no longer in the log: what was open is
\* closed, and nothing else happens.
ClickForgotten(s) ==
    /\ s # openSeq
    /\ \A j \in 1..Len(recent) : recent[j].seq # s
    /\ openSeq' = Nothing /\ viewed' = Nothing
    /\ UNCHANGED <<probe, lane, server, wire, rowLog, stream, bodyCache, fetching, history, order>>

\* toggleViewer() on another row, and renderViewer() up to what it waits for.
OpenRow(s) ==
    /\ s # openSeq
    /\ \E j \in 1..Len(recent) :
         LET row == recent[j]
         IN /\ row.seq = s
            /\ openSeq' = s
            /\ IF ~row.captured
               THEN viewed' = Nothing /\ UNCHANGED fetching
               ELSE IF Cached(row.id)
               THEN viewed' = Showing(row, CachedBody(row.id)) /\ UNCHANGED fetching
               ELSE /\ Cardinality(fetching) < MaxFetches
                    /\ viewed' = Nothing
                    /\ fetching' = fetching \cup {[row |-> row, answered |-> FALSE,
                                                   body |-> Nothing]}
    /\ UNCHANGED <<probe, lane, server, wire, rowLog, stream, bodyCache, history, order>>

\* handleGetBody()
AnswerFetch(f) ==
    /\ ~f.answered
    /\ LET held == {j \in 1..Len(store) : store[j].id = f.row.id}
       IN fetching' = (fetching \ {f}) \cup
              {[row |-> f.row, answered |-> TRUE,
                body |-> IF held = {} THEN Nothing ELSE store[CHOOSE j \in held : TRUE].run]}
    /\ UNCHANGED <<probe, lane, server, wire, rowLog, stream, openSeq, bodyCache, viewed, history,
                   order>>

\* The rest of fetchBody() and of renderViewer(): the answer is kept, a miss too, and is
\* shown if its row is still the open one.
TakeAnswer(f) ==
    /\ f.answered
    /\ fetching' = fetching \ {f}
    /\ bodyCache' = CacheWith(f.row.id, f.body)
    /\ viewed' = IF openSeq = f.row.seq THEN Showing(f.row, f.body) ELSE viewed
    /\ UNCHANGED <<probe, lane, server, wire, rowLog, stream, openSeq, history, order>>

\* fetchBody() throws: nothing is kept, and the viewer says so.
FailFetch(f) ==
    /\ fetching' = fetching \ {f}
    /\ UNCHANGED <<probe, lane, server, wire, rowLog, stream, openSeq, bodyCache, viewed, history,
                   order>>

Next ==
    \/ \E x \in Exchanges : Complete(x)
    \/ \E room \in Rooms : Tick(room)
    \/ ReceiveParts
    \/ Broadcast
    \/ Respawn
    \/ Restart
    \/ OpenPage
    \/ Connect
    \/ Disconnect
    \/ ForgetRows
    \/ Apply
    \/ Select
    \/ Resume
    \/ ScrollAway
    \/ ScrollBack
    \/ CloseRow
    \/ \E j \in 1..Len(shown) : ClickForgotten(shown[j])
    \/ \E j \in 1..Len(shown) : OpenRow(shown[j])
    \/ \E f \in fetching : AnswerFetch(f)
    \/ \E f \in fetching : TakeAnswer(f)
    \/ \E f \in fetching : FailFetch(f)

Spec == Init /\ [][Next]_vars

-----------------------------------------------------------------------------
(* Properties.                                                               *)

\* Types, and the bounds of what the store and the page keep.
TypeOK ==
    /\ latest \in Frames \cup {Nothing}
    /\ wire # Nothing => wire \in Seq(Frames)
    /\ store \in Seq([id : 1..MaxEvents, run : 1..MaxRun]) /\ Len(store) <= MaxHeld
    /\ recent \in Seq(PageRows) /\ Len(recent) <= RecentMax
    /\ bodyCache \in Seq([id : 1..MaxEvents, body : Bodies]) /\ Len(bodyCache) <= CacheMax
    /\ Len(shown) <= StreamRows /\ Len(streamHeld) <= HeldMax
    /\ viewed # Nothing => openSeq = viewed.seq

\* The budget goes where it matters, in every tick: a body is left out only if those ahead
\* of it, the failed ones first and then the newest, leave no room for it (so a tick that
\* ships no body had none that fits); and the bodies of a tick stay within the budget.
BudgetByPriority ==
    [][(lane = <<>> /\ lane' # <<>>) =>
        LET parts == IF Len(lane') = 2 THEN ToSet(lane'[1].rows) ELSE {}
            rows == ToSet(lane'[Len(lane')].rows)
            Cost(S) == SumFunctionOnSet([r \in S |-> r.cost], S)
            Ahead(r) == {p \in parts : \/ p.failed /\ ~r.failed
                                       \/ p.failed = r.failed /\ p.id > r.id}
        IN /\ Cost(parts) <= PartBudget
           /\ \A r \in rows : r.nopv => Cost(Ahead(r)) + r.cost > PartBudget]_vars

\* What the heading of the rows says is true of a page that has missed nothing: each
\* exchange that was drained since its log begins is in the log or is counted among those
\* that did not fit the stream, but for the ones that recentEvents and drainRecent()
\* forgot, which nothing counts.
TailExplained ==
    (followed /\ wire = <<>> /\ lane = <<>> /\ Len(recent) < RecentMax) =>
        Cardinality({r.id : r \in ToSet(recent)}) + droppedRows
            + Cardinality({i \in cut : i > base})
        = lastId - Len(waiting) - base

\* A miss may be kept for good: an id that the server did not know when its row was opened
\* never gets a body afterwards (while the probe and the page are of one run).
MissIsForGood ==
    (~respawned /\ pageRun = run) =>
        \A c \in ToSet(bodyCache) : c.body = Nothing => \A b \in ToSet(store) : b.id # c.id

\* The reader sees the body of the row that is open or none, never the one that another
\* run of the probe gave the same id.
OwnBodyInView ==
    (~respawned /\ pageRun = run /\ viewed # Nothing) => viewed.body \in {Nothing, viewed.run}

\* While somebody reads, the row that is open stays where it is, and the banner accounts
\* for each row that came: what is held back is the end of the log, and what is missing
\* between it and the rows on screen is what streamHeldLost says.
HeldIsAccounted ==
    /\ openSeq # Nothing => openSeq \in ToSet(shown)
    /\ streamHeld = <<>> => streamHeldLost = 0
    /\ (streamHeld # <<>> /\ ~overtaken) =>
         /\ \A j \in 1..Len(streamHeld) : streamHeld[j] = lastSeq - Len(streamHeld) + j
         /\ heldFrom + streamHeldLost + Len(streamHeld) = lastSeq
=============================================================================
