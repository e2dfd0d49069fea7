# A verification project for httpwatch

httpwatch watches plain HTTP on a Linux host: a BPF program captures messages, a
script in a yeet isolate pairs and stitches them, an exporter prints them once a second,
and a Node server keeps the bodies, serves a page and sends Slack alerts. The TLA+
modules here follow that code. TLC checks them on small instances; the theorems are
proved with TLAPS for every value of the constants. `PROJECT.json` says which lines of
`src/` each definition models.

Run, in this directory, `tlc -workers 2 -config X.cfg M` for a row of the table below and
`tlapm M.tla` for the modules named under Proofs.

## Inventory

| part | state | operations | what is hard | what makes it correct |
|---|---|---|---|---|
| kernel capture, `agent/src/bpf/httptop.bpf.c` | `body_win` (per flow: next byte wanted, budget left), ring buffer, byte budget | `handle()` on each segment, once per interface and direction | double sightings, reordering, retransmission; the ring, the budget and the record ceiling run out in the middle of a segment | what is shipped can be stitched without a hole; a cut is flagged |
| ingest, `agent/src/probes/httptop.js` | `seen`, `pending`, `recentEvents`, `bodyFill` | `onEvent()`, `drainRecent()`, `sampleRates()` | records lost, answers never seen, timers that forget or seal too early | each response once, with its own request; whole or marked as cut |
| exporter, `agent/src/export.js` | caps; everything else passes through | `emit()` each second | a line over 256 KB is dropped without a word; a budget of bodies per tick | bodies precede the snapshot that names them; what is left out is said |
| portal, `server/portal.js` | `stopped`, `currentWs`, `currentId` per `startExporter()` | `spawnOnce()`, `onclose`, `stop()` | an isolate dies at any point; a stop during a spawn | one feed; nothing lingers; an exit is answered |
| server, `server/index.js` | `latest`, `status`, `recentRows`, `handle`, `restarting`, SSE clients | `broadcast()`, `restartProbe()`, `main()`, `shutdown()`, routes | restarts, starts and shutdown overlap at their awaits | a restart ends; nothing stale is served |
| body store, `server/bodies.js` | `store`, `bytes`, `dropped` | `part()`, `evict()`, `reset()`, `get()` | lost lines, eviction during assembly, ids that restart | no hole in a body; the bill and the bounds hold; a row opens its own body |
| alert rules, `server/alerts.js` | `rules`, `prevStatus`, `seeded`, two files, children | `add/update/remove`, `evaluate`, `fire`, `reset`, `load` | quiet periods over crashes, edits, probe restarts; deliveries that close late | each match counted once; the throttle survives everything; rules are distinct |
| login gate, `server/auth.js` | `loggedIn`, `identity`, login child | `refresh()`, `startLogin()` | overlapping refreshes, a late URL | no name on a closed dashboard; the poll goes on, at the right pace; one login at a time |
| delivery script, `server/slack-alert.yeet.js` | attempt number | a ladder of simpler and simpler attempts | failures that are ambiguous | at most one message; an outcome is printed |
| page, `server/public/app.js` | `recent`, `droppedRows`, `streamHeld`, `openSeq`, `bodyCache`, filters | `applySnapshot()`, `refreshDetail()`, `resumeStream()`, `toggleViewer()`, `fetchBody()` | priming, reconnection, restart of the probe, rows that come while somebody reads | every row is told, counted or held; the open row stays; a body of its own run |
| `decode.js`, `markdown.js`, terminal UI, `probe.js`, build files | none to speak of | pure functions, rendering, start-up | | |

Records go from the BPF program through a ring buffer to the ingest (`Capture`). The
exporter drains the settled pairs once a second into lines on a console lane, a queue
that may lose a line, and `portal.js` hands each line to the body store or to
`broadcast()` (`BodyTransport`), which feeds the rules (`Alerts`). `ProbeLifecycle` is
about who starts and stops the isolate that all of this comes from. `RowStream` follows the
rows of the snapshots from the exporter over the server to the reader of a page, who opens
one and fetches its body.

## Modules

**`Alerts`** models `alerts.js` whole, but for what is listed as left out. One action per
entry point: `AddRule`, `UpdateRule`, `RemoveRule`, `TakeBaseline` and `Evaluate` (the two
outcomes of `evaluate()`, with `fire()` up to its spawn), `SpawnFailed` and
`DeliveryClosed` (a child's `error` and `close`), `Reset`, `Restart` (`load()` and
`loadState()`). `Crash`, `CrashInEdit`, `CrashInEvaluate` and `CrashInDelivery` are the
process dying between two events or inside one: a file is written by truncating and
writing, so the file may be old, torn or new, and inside `fire()` the order "state saved,
then alert sent" decides what a restart knows. `Response` and `Respawn` are the probe's
counters. `rules[i].ver` stands for the identity of the rule object, which `update()`
replaces while a delivery may hold the old one. `owed`, `told`, `sent` and `respawned` are
history variables: what really happened, to compare the rules' books with.

**`Throttle`** is what the rules promise about time, with no rules, snapshots, files or
processes: for each thing that is watched, a quiet period that must begin for an alert to
leave and cannot begin again while it lasts. `Alerts` implements it: `Throttling` is its
instance with `QuietSince` for the quiet period (what the rule knows while the server is up,
and while it is down what the two files would tell the next one) and `sent` for the last
alert. Of a subject that nobody watches any more, or whose files are torn, the throttle lets
go (`LetGo`). `IsThrottle` is `Throttling!Spec`.

**`BodyStore`** models `bodies.js`: `Part` is `part()` with its trailing `evict()`
(`Settle`), `ResetStore` is `reset()`. A piece of a body is a position and the run that it
comes from; every piece and every head has size one, so an offset counts pieces. Alone,
its `StoreNext` takes any lines in any order.

**`BodyTransport`** extends it with the exporter's tick (`Emit`, `TickOutput`), the lane
(`LoseLine`), `onPart` and `onSnapshot` (`ReceivePart`, `ReceiveSnapshot`), the automatic
`Respawn` and `restartProbe()` (`Restart`). Nothing is received between the stop of a probe
and the start of the next, so `Restart` is one step. Which exchanges the budget leaves out
is a choice (`nopv`).

**`ProbeLifecycle`** models `portal.js` with its callers. Each call of `startExporter()` is
a handle with a phase; the steps are its awaits: `Spawned`, `SpawnFails`, `Connected`,
`ConnectFails`, `ConsoleClosed`, `Respawn` (the timer). `restartProbe()` is
`RestartRequested`, `RestartStopped` and the resolution of the handle it awaits (`Resolve`,
`Reject`), `main()` the first handle, and `shutdown()` `ShutdownRequested` and
`ShutdownCompletes`. `raced` records the overlaps that nothing in the code keeps apart (a
restart during `main()`'s first start, a stop while a respawn is in flight, a shutdown
during a restart or the reverse). The first three invariants are about the runs without
them: with them the code makes no promise, and two probes can run at once. `leaked` are the
isolates that a failure lost: a first connection that never came about, a kill that failed.

**`Capture`** models one connection from the wire to the stream: `Sight` and `SightRequest`
are `handle()`, `Consume` is `onEvent()`, `Drain` is `drainRecent()` with `seal()`, `Lapse`
what `sampleRates()` forgets. The bytes of the responses are positions; a segment is an
interval of them; a record is what `emit_chunk()` ships. Any segment of the response being
given may be sighted any number of times in any order: loopback's double sightings,
retransmission and reordering are all of that form. What `contentLength()` reads of a head depends
on how much of it was stitched: `says` gives it for each prefix, since the code parses a cut
head like a whole one. `cuts` and `slips` record why a capture
ended, or why a pair cannot be right, when no state of the program says so. `Stitched` is about
the first pair of a response: once the timers have forgotten a response, a second sighting of
it may pair again with a request left over, and miss bytes taken before that.

**`Login`** models `auth.js`. A `refresh()` is a slot with the steps of its awaits: a child
looks at the host (`Looks`), its answer is read (`Answered`, `Named`), and the poll is armed
again (`Rearmed`). `startLogin()` is `Call`, its child's events `UrlScanned`, `NoChild` and
`LoginClosed`, its timer `UrlTimeout`. `crossed` records that refreshes overlapped.

**`RowStream`** composes the four parts that a row passes. The exporter: `Complete` is the end
of `onResponse()` with `RECENT_CAP`, and `Tick` is `emit()`: `drainRecent()` (`DrainMax`), the
claims of `bodyLines()` against the budget (`Claimed`), the rows that fit (`Frame`, which is
`shapeRecent()`), the bodies ahead of the snapshot (`TickOutput`). The server:
`ReceiveParts`, `Broadcast`, `Connect` (`handleEvents()` with its priming), `Disconnect`,
`OpenPage` (`serveIndex()` and the page's first rendering; a page that is served no snapshot
reloads, `app.js:1741`), `AnswerFetch`
(`handleGetBody()`), `Restart`, `Respawn`. The page: `Apply` is `applySnapshot()` with
`ingestRecent()` and the trailing `refreshDetail()`; `Select`, `Resume`, `OpenRow`,
`CloseRow`, `ClickForgotten` and `ForgetRows` are what the reader does; `TakeAnswer` and
`FailFetch` are the rest of `fetchBody()`, after its await. A row on screen or held back is
its `__seq`; a body is the run of the probe that it comes from. `cut`, `base`, `followed`,
`heldFrom` and `overtaken` are history: what was forgotten before the page could know, where
its log begins, whether it has missed anything, and whether rows were shown ahead of older ones.

Definitions marked `Fault:` are plausible bugs of the definition that follows them. They
are used by no specification; each property of a passing run is violated when one of them
takes the place of its neighbour (`mutants` in `PROJECT.json`).

## Runs

| run | instance | checks |
|---|---|---|
| `AlertsCounting` | 2 endpoints, 2 codes, a rule on one endpoint and a catchall, 3 responses, 1 restart or crash | `EveryMatchCounted`: what a rule should account for is told, held or still to come. `TalliesAgree`: the total, by endpoint and by code. `NeverInvented`: a respawn loses matches and invents none |
| `AlertsThrottle` | 1 endpoint, time to 2, 2 responses, edits that keep and change what is watched, 1 crash, an alert sent while another is out | `CooldownHolds`: no alert within the quiet period of the one before, through crashes in the middle of a write. `IsThrottle`: `Alerts` implements `Throttle`. `TimingIsSaved`, `OneRulePerIdentity` |
| `BodyTransport` | 3 exchanges a run, 2 runs, 2 a tick, 1 line lost, a store of 2 exchanges and 4 units | `Contiguous`, `NothingLeftOut`, `RowOpens`, `OwnBodySinceReset`; the store's bookkeeping: `OrderIsStore`, `BytesAddUp`, `Bounded` |
| `Lifecycle` | 3 starts, 2 exits, 1 failure | `OneFeed`, `NothingStale`, `NoneLingers`; `RestartEnds` and `ExitIsAnswered` under fairness |
| `Login` | 2 refreshes at a time, 2 calls, 2 login children, 1 login or logout from elsewhere, 1 failure | `OneLogin`, `NameIsGated`, `PollsUntilStopped`, `CadenceFollows`; `Noticed` and `CallsAreAnswered` under fairness |
| `Capture` | 3 responses (one whose length loses a digit if its head is cut, one without a length that its budget cuts, one with `Content-Length: 0` in a head too long to keep), 6 sightings, a ring of 3, 1 lapse | `Stitched`, `WholeOrMarked`, `PairedOnce`, `AllTakenOrMarked` |
| `RowStream` | 4 exchanges and runs of the probe in all, 2 runs, exchanges that failed and cost 2 or that did not and cost 1, a budget of 2, 2 rows a drain, 3 waiting, room in a frame for none or 2, a store of 2, 1 connection, 1 frame on the wire, 1 fetch at a time, 5 rows in the log, 2 on screen, 1 held, 1 body cached | `BudgetByPriority` (an action property: of every tick, with bodies or without), `TailExplained`, `MissIsForGood`, `OwnBodyInView`, `HeldIsAccounted` |

The bounds are the smallest at which the cases meet. Two rules are needed for an edit to
collide with another rule; three responses for one to be told, one held and one unseen; time
2 with quiet periods of 1 and 2 for an edit to lengthen a period that runs. A store of two
exchanges evicts by number and, with a whole body and a request of four units, by size while
a body is being assembled. Three starts are `main()`'s and two restarts, the second of which
can be asked for in any state that the first one leaves; the exits and the failure can fall
on any step. Six sightings of three responses let a two-segment response be sighted twice
beside its request, or two exchanges be sighted with one repeat, and a ring of three is
smaller than one segment with its request. In `RowStream` there are up to three exchanges in
a run, and the caps are below that, so that each drops something: a drain of two, a
budget for one failed or two others, a screen of two rows, one row held, one body cached.
`RECENT_CAP` (three) is never passed: it would drop the oldest, as the drain does. A
second run of the probe uses the ids of the first one again; the log of five rows holds the
boot rows, the priming that repeats them and one more. Two refreshes at a time are the least
that overlap, and two calls either join or follow each other. The
action coverage of the passing runs has been looked at: between them, every action and every
disjunct of each next-state relation fires (the deliveries of `Alerts` only in
`AlertsThrottle`, where the host may be logged in).

Deadlock is not checked: every module has a bound at which the environment stops, and the
server itself may exit.

### What the code does otherwise than it says

Five runs each check one sentence of the repository and find it violated.

* `AlertsOutcome`: the delivery script says that its outcome is recorded on the rule. After
  an edit, it is recorded on the rule object that the edit replaced.
* `BodyRespawn`: `bodies.js` says that a reset is mandatory on any restart of the probe. The
  automatic respawn makes none, so a kept row opens the new run's exchange of its id.
* `LifecycleRespawn`: `portal.js` says that when an isolate dies it is respawned. A respawn
  that fails is not tried again, even with every step of the daemon fair.
* `CaptureQuiet`: the BPF program says that running out of budget is always flagged and that
  only a full ring is not. A continuation refused by the budget, a segment over the record
  ceiling and a budget spent exactly at a segment's end leave no mark either; with a
  Content-Length `seal()` finds out (`WholeOrMarked` holds), without one nobody does.
* `CaptureStitch`: the BPF program says that a retransmission is dropped rather than
  mis-stitched. When a second sighting of a first segment ends elsewhere than the first one
  (`SentInTwoWays`), the window is armed for a place the stitched bytes have not reached, or
  have passed. In `Capture`, where all sightings agree on the segments, `Stitched` holds.

These were met while reading and have no run of their own:

* The comments of `httptop.js:100-101` say that `contentLength()` gives null for a head that was not
  captured whole. It parses whatever there is of the head. Cut after `Content-Length: 0`, a
  response leaves with `clen` 0 and without `more` though its head is not all there; cut within
  the digits, the number is too small, and marks the response only because a cut head
  comes with no body. A head cut before its length leaves unmarked, unless a record was
  flagged. `WholeOrMarked` speaks of the body, of which it says that it is whole or marked; the
  instance reaches the first two cases.
* The length that the head line of a body announces is stored (`bodies.js:75`) and compared by
  nobody: a body whose last line was lost on the lane is served as it is, shorter.
* `prependRows()` inserts a batch that is oldest first as one block, so within a batch the
  oldest row is on top, and a batch longer than the 150 rows of the screen (500 may have been
  held back) loses its newest rows at the bottom; the heading and `app.js:1577` say newest
  first. `Prepended` does what the code does.
* After a click on a row whose event the log has forgotten (`app.js:1074`) nothing is open,
  so the stream follows again while `streamHeld` is not empty: newer rows are shown first, and
  the held ones come on top of them later (`overtaken`). The same happens between the moment the
  reader is back at the top and the `scroll` event.
* The priming of `handleEvents()` repeats rows that the page already has, and adds
  `recentDropped` of a frame again when a page reconnects; frames that pass while a page is not
  connected are missed without a word. `TailExplained` is about pages that missed nothing, and
  counts ids, not rows.
* What `drainRecent()` and `RECENT_CAP` drop is not in `recentDropped` (`cut`).
* The browser's cache of bodies survives a restart of the probe, with bodies and misses of ids
  that mean other exchanges now; `OwnBodyInView` and `MissIsForGood` hold within one run and
  exclude the rest; no text of the repository promises otherwise.
* A login URL that comes after the timeout reaches no caller until the child ends: they join a
  promise that has resolved to the error (`auth.js:104`).
* `stop()` during a respawn that is in flight leaves the new isolate running (`portal.js:175`;
  `raced` in `ProbeLifecycle`).
* `export.js:157` says that a body goes as text only when it is ASCII; `isTextish()` looks at
  512 of its characters and allows one in twenty of them not to be.

## Fairness

Only `ProbeLifecycle` and `Login` state fairness, and only for what the runtime does of
itself. In `ProbeLifecycle`, a
child process (`yeet run`, `yeet kill`) ends, connecting gives up after 60 tries of 250 ms,
a socket's close is delivered, a timer fires (`WF` on `Progress(h)`, `RestartStopped`,
`ShutdownCompletes`). A `yeet` that hangs for ever is outside the assumption: nothing in the
code times it out. In `Login`, `yeet whoami` ends, the poll's timer and the URL's timeout fire
and a child's `close` is delivered; `yeet login` waits for a person, and neither it nor its
URL need ever come. Restarts, shutdowns, isolates that exit and snapshots have none. The
other modules have safety properties only: what the timers of the probe and the people of
the alerts do eventually is promised nowhere.

## Proofs

Every safety property that a passing run checks is a theorem here, and so are two refinements
and `IsSpaced`, a property of the abstract throttle.

`AlertsProofs` proves, for any endpoints, codes, inputs and bounds that satisfy
`AlertsAssumption` (the sentinels are outside the sets they are sentinels of, endpoints are
finitely many, codes are HTTP codes, ids are naturals, the least quiet period is positive):

* `TypesAreKept`, the types of the rules, the files and the history, and `TypesOfAll`, of
  the whole state;
* `RulesAreDistinct`, `Spec => []OneRulePerIdentity`;
* `TimingIsOnDisk`, `Spec => []TimingIsSaved`;
* `Throttled`, `Spec => CooldownHolds`, the action property;
* `CountedOnce`, `Spec => []EveryMatchCounted`; `ThreeNumbersAgree`, `Spec => []TalliesAgree`;
  `NothingInvented`, `Spec => NeverInvented`;
* `ImplementsThrottle`, `Spec => IsThrottle`.

None of the first three is inductive alone. That an alert respects the quiet period needs that the
rule knows when the previous alert left; after a restart the rule knows what the state file
knew; and the state file is keyed by what a rule watches, so it speaks for a rule only if no
two rules of the rules file watch the same thing. `IInv` is the conjunction: types,
`NextIdIsFree` (an add cannot overwrite), `OneRulePerIdentity` for the rules and for the
file, `TimingIsSaved`, `FileIsCurrent` (the rules file is what the rules are),
`SentIsOnFile` and `SentIsHonoured` (the last alert is no later than the timing on file, and
on the rule). The proof has a lemma for each kind of step: the ones that leave rules and
files alone, the edits, `Evaluate`, the deliveries, the ways of dying, the reload. `Throttled`
also needs `SentIsPast`: alerts have not left in the future.

The counting has an invariant of its own, `Books`: each rule's account balances (`Balanced`:
what it told, holds and will be shown is what it owes, and no more than that when the probe
restarted without notice); what a rule holds adds up by endpoint and by code (`Agree`);
and the counters of the probe only grow between two snapshots, unless it restarted
(`Counter`). A snapshot moves matches from the unseen to the held and the told, so that the step
of `Evaluate` needs that a difference summed by endpoint and by code is one sum
(`SumByRowOrColumn`), and that nothing is negative. That is why `Endpoints` is assumed finite.

`ImplementsThrottle` follows from the same `IInv` and `SentIsPast`. What makes the mapping work is that rules are distinct, so that the quiet period
of a subject is that of the one rule that watches it (`KnownSinceOfRule`), and that the timing is
on file, so that going down and coming up leave it as it was. There is a lemma for each kind of
step (edits, `Evaluate`, deliveries, the ways of dying, the reload) that says that it is a
`Change` of the throttle; `ChangeOfEach` reduces each of them to one subject that an alert may
still be about, for which nothing happens or a quiet period begins. `ThrottleProofs` proves of
the abstract module that it is worth implementing: `IsSpaced`, two alerts about one thing are at
least the shortest quiet period apart. Its invariant, `LeftInQuiet`, says that no alert left after
the last quiet period of its subject began.

`FiniteSums` is a small theory of sums over finite sets for the modules whose books are totals.
The community modules define a sum by recursion over subsets, and the library's induction
theorems take an operator that the provers cannot instantiate; `SubsetInduction` states
induction over a set of subsets instead, and follows from the well-foundedness of strict inclusion.
From it: a recursion over subsets defines what it says, then the sum of a union, of a changed
function, of a smaller one, and of a table by rows or by columns.

`BodyTransportProofs` begins with the store by itself, of which it proves four theorems for any
lines in any order, any ids, lengths and bounds. `BodiesAreContiguous`, `StoreSpec => []Contiguous`: a body that is held has each of its
pieces at its place. It is inductive with the types of the store; the content of the proof is
that eviction and the two kinds of line each leave every other message alone.
`QueueIsStore`, `StoreSpec => []OrderIsStore`: the queue that eviction works from is what is
held, once each. Its lemmas say what appending an id and `Settle` (the queue keeps a suffix, and the
store what is in it) do to such a queue. `BillIsRight`, `StoreSpec => []BytesAddUp`, and
`StoreIsBounded`, `StoreSpec => []Bounded`: what an entry is charged is what it holds, the bill is
the sum of the charges (`ChargedFor`), and eviction stops only within both limits or at
nothing. The sum is over the ids held, so each evicted entry leaves the bill by its own charge.

Of the way there it proves, for any exchanges, ticks, losses and restarts:

* `ImplementsStore`, `Spec => StoreSpec`: whatever is printed, lost and received, the store sees
  lines that `BodyStore` allows, so that the four theorems above are about this store too;
* `TransportTypes`, `Spec => []TypeOK`;
* `NothingIsLeftOut`, `Spec => []NothingLeftOut`; `RowsOpen`, `Spec => []RowOpens`;
  `RowsOpenTheirOwn`, `Spec => []OwnBodySinceReset`.

It assumes of the constants (`BodyTransportAssumption`) that exchange ids are numbered from 1,
and runs too. What a tick prints is a flattened sequence of blocks of lines, one block for each
row: `FlattenInduction` goes over its prefixes, and `Printed` says of the result that it is
ordered, that each line is of a row of this tick and that all lines of a row are there. On the
other side `PartRenews` says what a line received does: it renews one direction of one
exchange, and the others are as they were or evicted. Between the two stands `TransportInv`:
the lines on the lane are an ordered rest of a tick (`LaneInv`); what the store and
the lane have of the current run's ids is the current run's (`OwnInv`), unless the probe
was respawned without a reset; rows arrive after their lines (`ArrivedInv`); and for each row
that can still open, what is held and what is on the lane fill its body (`OpensInv`, with
`Filling`), unless a line of it was lost or it was evicted. The last is why `NothingLeftOut`
holds: it is the state of `Filling` in which nothing is on the lane any more.

`CaptureProofs` proves for any responses, segments, sightings, rings, budgets and caps:

* `TypeCorrect`, `Spec => []TypeOK`;
* `OneResponseOnePair`, `Spec => []PairedOnce`;
* `NoHoleNoRepeat`, `KnownLengthTells` and `SightedIsTaken`:
  `SegmentsAgree => (Spec => []P)` for `Stitched`, `WholeOrMarked` and `AllTakenOrMarked`.

Of what a head says it assumes (`CaptureAssumption`) that a whole one announces no less than
the body that follows, which responses to HEAD and with status 304 do too, and that a prefix
is read as zero only if it says zero, so no number begins with a zero. `LengthRead` draws the conclusion from it: a pair that has as much body as was read, from a
whole head or a cut one, has all of it.

`SegmentsAgree` says that segments which differ do not overlap: however often they are sighted,
they cut the stream in one way, as a segment seen on two interfaces does. Without it `Stitched` is false: `CaptureStitch` is
the counterexample. It is an assumption of the three theorems and not of the module, so that
each shows that it needs it. The argument goes by what is in order: responses follow each
other on the wire, in the ring, in `seen` and in `pending` (`Order`), so a request waits
for at most one response and a response finds its own (`PairingInv`, while nothing slipped);
the pair that the next bytes go to is of the response being given or an older one that is
about to leave (`SlotInv`); the kernel's window is at the last byte shipped or has been spent
or lost for good (`CleanOrStale`). With agreed segments, everything the kernel can ship of a
response is one of the pieces of a fixed `Plan`, and the budget left is a function of the
place (`PlanInv`). The ring then holds, after what the pair has taken, the plan's next pieces
without a gap (`Covered`, `Ahead`, `Chained`), or the pair is behind and takes nothing more
(`Stitching`). So a pair's bytes only rise and the part that leaves is whole from the start
(`PairInv`); and for the response being given in order, what was sighted is taken, is in the
ring or has a mark on its way (`AskedInv`).

`LoginProofs` proves `OneLoginAtATime`, `NamesAreGated`, `PollEndsWithStop`, `PaceIsLoginState`
and `TypesKept`, for any number of refreshes, calls and logins. Their conjunction with the types is
inductive but for the pace of the poll, which is decided at the end of a refresh from what
it began with: `Paced` says, while refreshes do not cross, what the timer is between them and
during one that a login started.

`ProbeLifecycleProofs` proves `FedByOne`, `LatestIsFresh`, `NoIsolateLingers` and `TypesKept`,
for any number of starts, exits and failures. The three invariants are about `raced = {}`,
and so is the heart of theirs, `Calm`: of all handles that are not stopped, one is heard or
awaited, the last one (`OneHeard`); `main()`, a restart and a shutdown keep out of each
other's way (`Apart`); `latest` is of the last start (`Fresh`); and each isolate alive is
somebody's, being killed or leaked (`Accounted`). `IdsKnown` and
`WaitsKnown` say, races or not, which ids and handles have been given out and when a kill
can be under way.

`RowStreamProofs` proves, for any exchanges, costs, budgets, rooms and bounds:

* `RowStreamTypes`, `Spec => []TypeOK`; `HeldAccounted`, `Spec => []HeldIsAccounted`;
* `OwnBody`, `Spec => []OwnBodyInView`; `MissesStay`, `Spec => []MissIsForGood`;
* `TailIsExplained`, `Spec => []TailExplained`;
* `BudgetIsByPriority`, `Spec => BudgetByPriority`, the action property.

It assumes (`RowStreamAssumption`) that the caps are positive, that a drain fits the page's log
(600 rows in 5000), and that `Nothing` is nothing else. Its invariants build on each other:

* `Types` has a part for each place that a row can be in. It says more than types where the rest
  leans on it: ids settle without a gap (`Settled`), a snapshot's rows are the last of the ids that
  it accounts for (`FrameOK`), bodies on the lane are of the snapshot behind them (`LaneInv`), the
  log is numbered to `seqCounter` without a gap (`LogInv`). `StreamInv` holds the two sums of
  `HeldIsAccounted`: they are inductive once the stream has been told of all of the log
  (`lastSeq = seqCounter`).
* `OwnInv` is about a page of the current run, whose store was reset when that run began. All that
  it has and all that is on its way is of this run, and its rows are of ids up to `Bound`: all that
  settled, short of the ids whose bodies are still on the lane. A miss, answered or cached, is of
  an id up to there that is not held, and bodies only come for ids above: that is why a miss
  stays one, and why the order of `TickOutput` matters.
* `ChainInv`: what lies between two snapshots was forgotten by the probe (`Gap`), and nothing that a
  snapshot accounts for was (`Clear`). `FollowInv` says that there is an `x` up to which a page that
  missed nothing has taken all in: the snapshots under way lead on from there (`Chain`), and up to
  `x` each id is in the log, counted or forgotten (`Tally`). When nothing is under way `x` is all
  that settled, and the tally is `TailExplained`. The counts are of disjoint sets of ids, so
  that a step has to say which ids move from one to the other.
* The budget needs `Types` alone, and that only a tick fills an empty lane. `Claim` is a loop; over its rounds, what is spent is
  the sum of what is claimed (`FiniteSums`), and who was refused would not have fitted beside what
  had been claimed by then. The second pass, over all, only adds to what the first claimed
  for the failed, so that `Ahead` of a refused body is exactly what stood in its way.

Loops are recursive functions over the positions of a list here (`At`, `Claim`, `Stored`), as
the prover has no use of a RECURSIVE operator.

Each invariant was checked with TLC before it was proved.

Only model-checked: every liveness property (out of the prover's reach, with ENABLED):
`RestartEnds`, `ExitIsAnswered`, `Noticed`, `CallsAreAnswered`. What the five runs
refute is, of course, not proved; of the sentence that `CaptureStitch` refutes,
`NoHoleNoRepeat` proves what is left under `SegmentsAgree`.

## Not modelled

* `Alerts`: `includeBody` and the references to bodies; the text of the notification; write
  errors other than a torn file (they are reported and the rules live on); hand-edited files,
  in which two rules may watch the same thing. `CooldownHolds` is about
  what leaves the server: how often the delivery script tries is not in it. A torn state file forgets the
  throttle, as the code accepts. The bounds of a quiet period (300 s if none is given, a day at
  most, `alerts.js:329-331`) are data; `MinCooldown` is the least.
* `RowStream`, the reader's side: which rows `prependRows()` drops on resuming is reported above and
  not checked; `HeldIsAccounted` is about what the heading counts.
* `BodyTransport`: the length that a head line announces; how the budget chooses, the encodings, trimming a frame. `Emit` waits for
  the lane to be empty; it is a queue, and printing reads nothing that receiving writes.
* `ProbeLifecycle`: the server's own crash (its isolate stays with the daemon, as
  `portal.js` says) and a signal before the handlers are installed. A console that closes
  means that its isolate is gone.
* `Capture`: one connection and one flow key, so no collisions and no neighbours in the LRU map
  beyond `WindowEvicted`; request bodies, the mirror image of response bodies; pipelining and
  interim (1xx) responses; segments of fewer than the 16 bytes `handle()` asks for; the caps of
  600 and `RECENT_CAP` pairs; `Lapse` forgets everything of an age at once. `Sight` is one step:
  `handle()` on two CPUs at once, whose lookup and update of `body_win` are not atomic
  together, is not modelled, nor is the late retransmission of an earlier response's segment.
* `Login`: the parsing of what `yeet` prints; the host's account changing between two polls
  without a logout in between is not noticed by the code, and no property says that it is.
* `RowStream`: one page and one route, so no filters, no second route to select and no change
  of the watched interface in a snapshot; a row costs one of a frame's room; the body of an
  exchange is one line and none is lost (that is `BodyTransport`'s matter); `SETTLE_MS` (a pair
  that has not settled is one that completes later); the rows that the server keeps for its
  markdown views, the status frames and the login check of each route. `EventSource` may be
  slow: what is sent waits in `wire`, and the server drops nothing of it but on disconnection.
* `export.js`: the two encodings and the bytes of a line. That a line fits the lane rests on
  `bodyCost()`, an arithmetic over characters.
* `slack-alert.yeet.js`: a ladder of attempts, straight down, in a process of its own that
  keeps nothing; its outcome is an input of `Alerts`. Rendering, `decode.js`, `markdown.js`, the terminal UI, `probe.js` and the build
  files have no state worth checking.

## Order of the work

The modules were written in this order, the core first: `Alerts` and its proofs, `BodyStore`,
`BodyTransport`, `ProbeLifecycle`, `Capture`, the proof of `BodyStore`, `Login`, `Throttle` with
the refinement and its proofs, `RowStream`, the proofs of the login gate, of the lifecycle
and of the store's queue, then `FiniteSums` and with it the store's bill, `Capture`, the counting
of `Alerts`, `BodyTransport` and `RowStream`. What would come next: an abstract
store (a bounded map from ids to contiguous prefixes), and several connections in `Capture`.
