------------------------------- MODULE Alerts -------------------------------
(***************************************************************************)
(* The alert rules of server/alerts.js: a rule watches one endpoint, or    *)
(* every endpoint, for a class of status codes.  Each snapshot is diffed   *)
(* against the previous one; a rule with new matches fires unless it is in *)
(* its quiet period, and a one-shot child process delivers the alert.      *)
(* The rules and their timing live in two files, so that a restart of the  *)
(* server is no way around the throttle.                                   *)
(*                                                                         *)
(* Time is a clock that the handlers read.  A handler runs to completion   *)
(* (one JavaScript turn), but the process may be killed between any two of *)
(* the file writes it makes, or in the middle of one (a torn file, which   *)
(* does not parse and so loads as an empty one).                           *)
(***************************************************************************)
EXTENDS Integers, FiniteSets, Functions

CONSTANTS
    Endpoints,     (* endpoint keys, `METHOD host path'                        *)
    AnyEndpoint,   (* the key "*" of a catchall rule                           *)
    Codes,         (* the status codes that responses carry                    *)
    Inputs,        (* what add() and update() are given, before validate()     *)
    Reachable,     (* what isLoggedIn() and slackConnected() may answer        *)
    MinCooldown,   (* MIN_COOLDOWN_SEC                                         *)
    Ids,           (* rule ids: 1..n, a bound on nextId                        *)
    MaxRules,      (* MAX_RULES                                                *)
    MaxVersion,    (* bound: edits of one rule in one run of the server        *)
    MaxTime,       (* bound on the clock                                       *)
    MaxResponses,  (* bound on the responses the probe sees                    *)
    MaxRestarts,   (* bound on server crashes and on probe restarts            *)
    MaxDeliveries, (* bound: an alert is sent while fewer than these are out   *)
    NoRule,        (* an id without a rule                                     *)
    NoTiming       (* an identity the state file says nothing of               *)

Never == -1        (* lastFiredAt = null *)

Whens == {"5xx", "4xx", "error", "code"}
Errors == {"none", "failed", "unknown", "skipped"}
Configs == [key : Endpoints \cup {AnyEndpoint}, when : Whens, code : Int,
            channel : STRING, cooldown : Int]

ASSUME AlertsAssumption ==
    /\ IsFiniteSet(Endpoints) /\ AnyEndpoint \notin Endpoints
    /\ Codes \subseteq 100..599
    /\ Inputs \subseteq Configs
    /\ Reachable \subseteq BOOLEAN
    /\ MinCooldown \in Nat \ {0}
    /\ Ids \subseteq Nat
    /\ NoRule \notin [config : Configs, ver : Nat, lastFiredAt : Int,
                      firedCount : Nat, lastError : Errors]
    /\ NoRule \notin Configs
    /\ NoTiming \notin [lastFiredAt : Int, firedCount : Nat, lastError : Errors]

VARIABLES
    now,         (* Date.now(), in seconds                                     *)
    up,          (* the server process is running                              *)
    tally,       (* endpoint -> code -> responses: the probe's own counters    *)
    prevStatus,  (* the tally of the previous snapshot                         *)
    seeded,      (* has a baseline snapshot been taken?                        *)
    rules,       (* id -> rule: its configuration, its timing and the version  *)
                 (* of the object that holds them (update() makes a new one)   *)
    nextId,
    quiet,       (* id -> what the rule has matched since it last fired        *)
    deliveries,  (* the alert children that have not closed yet                *)
    file,        (* alerts.json: id -> config                                  *)
    stateFile,   (* alerts.state.json: identity -> timing                      *)
    sent,        (* history: identity -> when its last alert left              *)
    owed,        (* history: id -> responses the rule should account for       *)
    told,        (* history: id -> matches named in the rule's alerts          *)
    respawned,   (* history: the probe restarted unannounced since `prevStatus' *)
    served,      (* history: responses so far                                  *)
    restarts     (* history: crashes and probe restarts so far                 *)

baseline == <<tally, prevStatus, seeded>>
disk     == <<file, stateFile>>
bounds   == <<served, restarts>>
counting == <<quiet, owed, told, respawned>>
vars == <<now, up, baseline, rules, nextId, deliveries, disk, sent, counting, bounds>>

-----------------------------------------------------------------------------
(* Rules.                                                                    *)

\* The codes a rule watches (CONDITIONS).
Watched(c) == {code \in Codes : CASE c.when = "5xx"   -> code \in 500..599
                                  [] c.when = "4xx"   -> code \in 400..499
                                  [] c.when = "error" -> code >= 400
                                  [] c.when = "code"  -> code = c.code}
Scope(c) == IF c.key = AnyEndpoint THEN Endpoints ELSE {c.key}
Identity(c) == <<c.key, c.when, c.code>>

\* validate(): a condition on a code needs a code a response can have; the code of
\* any other condition is dropped (0), and the quiet period is raised to the minimum.
Valid(in) == in.when = "code" => in.code \in 100..599
Normal(in) == [key |-> in.key, when |-> in.when,
               code |-> IF in.when = "code" THEN in.code ELSE 0,
               channel |-> in.channel,
               cooldown |-> IF in.cooldown < MinCooldown THEN MinCooldown ELSE in.cooldown]
Accepted == {Normal(in) : in \in {x \in Inputs : Valid(x)}}
Identities == {Identity(c) : c \in Accepted}

Fresh(c, ver) == [config |-> c, ver |-> ver, lastFiredAt |-> Never,
                  firedCount |-> 0, lastError |-> "none"]
NoMatches == [matched |-> 0, pending |-> [e \in Endpoints |-> 0],
              codes |-> [c \in Codes |-> 0]]

Live == {i \in Ids : rules[i] # NoRule}
LiveIn(rs) == {i \in Ids : rs[i] # NoRule}
\* Fault: two rules are the same only if everything about them is.
TakenIfIdentical(c, i) == \E j \in Live \ {i} : rules[j].config = c
\* Another rule than `i' already watches this (the loops in add() and update()).
Taken(c, i) == \E j \in Live \ {i} : Identity(rules[j].config) = Identity(c)

-----------------------------------------------------------------------------
(* The two files.                                                            *)

ConfigsOf(rs) == [i \in Ids |-> IF rs[i] = NoRule THEN NoRule ELSE rs[i].config]

TimingOf(r) == [lastFiredAt |-> r.lastFiredAt, firedCount |-> r.firedCount,
                lastError |-> r.lastError]
\* saveState(): an entry for each rule that has fired, under what the rule is.
SavedState(rs) ==
    [k \in Identities |->
        LET holders == {i \in LiveIn(rs) :
                            /\ Identity(rs[i].config) = k
                            /\ rs[i].lastFiredAt # Never \/ rs[i].lastError # "none"}
        IN IF holders = {} THEN NoTiming
           ELSE TimingOf(rs[CHOOSE i \in holders : \A j \in holders : j <= i])]

TornFile  == [i \in Ids |-> NoRule]
TornState == [k \in Identities |-> NoTiming]

\* Fault: a rule whose last alert was not delivered comes back as if it had not fired.
LoadedIfDelivered == [i \in Ids |->
    IF file[i] = NoRule THEN NoRule
    ELSE LET st == stateFile[Identity(file[i])]
         IN IF st = NoTiming \/ st.lastError # "none" THEN Fresh(file[i], 0)
            ELSE [Fresh(file[i], 0) EXCEPT !.lastFiredAt = st.lastFiredAt,
                                           !.firedCount = st.firedCount]]
\* load() and loadState(): rules come back with the timing of their identity.
Loaded == [i \in Ids |->
    IF file[i] = NoRule THEN NoRule
    ELSE LET st == stateFile[Identity(file[i])]
         IN IF st = NoTiming THEN Fresh(file[i], 0)
            ELSE [Fresh(file[i], 0) EXCEPT !.lastFiredAt = st.lastFiredAt,
                                           !.firedCount = st.firedCount,
                                           !.lastError = st.lastError]]

-----------------------------------------------------------------------------
(* Matching a snapshot against the previous one.                             *)

\* A code whose count went down says the probe's counters restarted; a code the
\* snapshot does not list (count 0) is not looked at.
Restarted(c, e) == \E code \in Watched(c) : /\ tally[e][code] > 0
                                            /\ tally[e][code] < prevStatus[e][code]
\* Fault: a count that went down is a difference like any other.
DeltaAnySign(c, e) == [code \in Codes |->
    IF code \in Watched(c) THEN tally[e][code] - prevStatus[e][code] ELSE 0]
\* Fault: the size of the change is taken for the number of new responses.
DeltaUnsigned(c, e) == [code \in Codes |->
    IF code \notin Watched(c) THEN 0
    ELSE IF tally[e][code] > prevStatus[e][code]
         THEN tally[e][code] - prevStatus[e][code]
         ELSE prevStatus[e][code] - tally[e][code]]
\* matchDeltas(): the new responses of one endpoint that a rule watches, by code.
Delta(c, e) == [code \in Codes |->
    IF /\ code \in Watched(c)
       /\ ~Restarted(c, e)
       /\ tally[e][code] > prevStatus[e][code]
    THEN tally[e][code] - prevStatus[e][code]
    ELSE 0]

SumOver(S, f) == SumFunctionOnSet(f, S)
NewAt(c, e) == SumOver(Codes, Delta(c, e))
NewMatches(c) == SumOver(Scope(c), [e \in Endpoints |-> NewAt(c, e)])
NewOf(c, code) == SumOver(Scope(c), [e \in Endpoints |-> Delta(c, e)[code]])

\* Fault: the total is this snapshot's, without what the quiet period held.
AddedAfresh(i) ==
    LET c == rules[i].config
    IN [matched |-> NewMatches(c),
        pending |-> [e \in Endpoints |-> IF e \in Scope(c) THEN NewAt(c, e) ELSE 0],
        codes   |-> [code \in Codes |-> NewOf(c, code)]]
\* Fault: an endpoint's matches replace those it already had pending.
AddedOverwriting(i) ==
    LET c == rules[i].config
    IN [matched |-> quiet[i].matched + NewMatches(c),
        pending |-> [e \in Endpoints |-> IF e \in Scope(c) THEN NewAt(c, e)
                                                           ELSE quiet[i].pending[e]],
        codes   |-> [code \in Codes |-> quiet[i].codes[code] + NewOf(c, code)]]
\* What the rule has matched once this snapshot is added to its quiet period.
Added(i) ==
    LET c == rules[i].config
    IN [matched |-> quiet[i].matched + NewMatches(c),
        pending |-> [e \in Endpoints |-> quiet[i].pending[e] +
                                         (IF e \in Scope(c) THEN NewAt(c, e) ELSE 0)],
        codes   |-> [code \in Codes |-> quiet[i].codes[code] + NewOf(c, code)]]

Matching == {i \in Live : NewMatches(rules[i].config) > 0}
CooledDown(r) == r.lastFiredAt = Never \/ now - r.lastFiredAt >= r.config.cooldown

\* Responses a rule added now will be shown by the next snapshot.
UnseenAt(c, e) == SumOver(Watched(c), [code \in Codes |->
                      IF respawned THEN tally[e][code]
                      ELSE tally[e][code] - prevStatus[e][code]])
Unseen(c) == IF ~seeded THEN 0 ELSE SumOver(Scope(c), [e \in Endpoints |-> UnseenAt(c, e)])

Zero == [e \in Endpoints |-> [c \in Codes |-> 0]]

Init ==
    /\ now = 0
    /\ up = TRUE
    /\ tally = Zero
    /\ prevStatus = Zero
    /\ seeded = FALSE
    /\ rules = [i \in Ids |-> NoRule]
    /\ nextId = 1
    /\ quiet = [i \in Ids |-> NoMatches]
    /\ deliveries = {}
    /\ file = TornFile
    /\ stateFile = TornState
    /\ sent = [k \in Identities |-> Never]
    /\ owed = [i \in Ids |-> 0]
    /\ told = [i \in Ids |-> 0]
    /\ respawned = FALSE
    /\ served = 0
    /\ restarts = 0

-----------------------------------------------------------------------------
(* The world: the clock, the probe and the people it watches.                *)

Tick ==
    /\ now < MaxTime
    /\ now' = now + 1
    /\ UNCHANGED <<up, baseline, rules, nextId, deliveries, disk, sent, counting, bounds>>

Response(e, code) ==
    /\ up
    /\ served < MaxResponses
    /\ served' = served + 1
    /\ tally' = [tally EXCEPT ![e][code] = @ + 1]
    /\ owed' = [i \in Ids |->
                 IF /\ seeded /\ i \in Live
                    /\ e \in Scope(rules[i].config) /\ code \in Watched(rules[i].config)
                 THEN owed[i] + 1 ELSE owed[i]]
    /\ UNCHANGED <<now, up, prevStatus, seeded, rules, nextId, deliveries, disk, sent,
                   quiet, told, respawned, restarts>>

\* The console lane dropped and portal.js respawned the probe: its counters start
\* from zero and nobody tells the rules.
Respawn ==
    /\ up
    /\ restarts < MaxRestarts
    /\ restarts' = restarts + 1
    /\ tally' = Zero
    /\ respawned' = seeded
    /\ UNCHANGED <<now, up, prevStatus, seeded, rules, nextId, deliveries, disk, sent,
                   quiet, owed, told, served>>

\* restartProbe(): reset() forgets the baseline and the matches, never the timing.
Reset ==
    /\ up
    /\ restarts < MaxRestarts
    /\ restarts' = restarts + 1
    /\ tally' = Zero
    /\ prevStatus' = Zero
    /\ seeded' = FALSE
    /\ quiet' = [i \in Ids |-> NoMatches]
    /\ owed' = told
    /\ respawned' = FALSE
    /\ UNCHANGED <<now, up, rules, nextId, deliveries, disk, sent, told, served>>

-----------------------------------------------------------------------------
(* Editing rules.                                                            *)

Adding(c) == [rules EXCEPT ![nextId] = Fresh(c, 0)]
CanAdd(c) ==
    /\ up
    /\ Cardinality(Live) < MaxRules
    /\ nextId \in Ids
    /\ ~Taken(c, nextId)     \* else the rule that exists is returned

AddRule(c) ==
    /\ CanAdd(c)
    /\ rules' = Adding(c)
    /\ nextId' = nextId + 1
    /\ quiet' = [quiet EXCEPT ![nextId] = NoMatches]
    /\ owed' = [owed EXCEPT ![nextId] = Unseen(c)]
    /\ told' = [told EXCEPT ![nextId] = 0]
    /\ file' = ConfigsOf(rules')
    /\ UNCHANGED <<now, up, baseline, deliveries, stateFile, sent, respawned, bounds>>

SameThing(i, c) == Identity(rules[i].config) = Identity(c)
\* A new object takes the rule's place; timing follows identity.
Updating(i, c) == [rules EXCEPT ![i] =
    IF SameThing(i, c) THEN [rules[i] EXCEPT !.config = c, !.ver = @ + 1]
                       ELSE Fresh(c, rules[i].ver + 1)]
CanUpdate(i, c) ==
    /\ up
    /\ rules[i] # NoRule
    /\ rules[i].ver < MaxVersion
    /\ ~Taken(c, i)

UpdateRule(i, c) ==
    /\ CanUpdate(i, c)
    /\ rules' = Updating(i, c)
    /\ IF SameThing(i, c)
       THEN UNCHANGED <<quiet, owed, told, sent>>
       ELSE /\ quiet' = [quiet EXCEPT ![i] = NoMatches]
            /\ owed' = [owed EXCEPT ![i] = Unseen(c)]
            /\ told' = [told EXCEPT ![i] = 0]
            /\ sent' = [sent EXCEPT ![Identity(rules[i].config)] = Never,
                                    ![Identity(c)] = Never]
    /\ file' = ConfigsOf(rules')
    /\ stateFile' = SavedState(rules')
    /\ UNCHANGED <<now, up, baseline, nextId, deliveries, respawned, bounds>>

Removing(i) == [rules EXCEPT ![i] = NoRule]

RemoveRule(i) ==
    /\ up
    /\ rules[i] # NoRule
    /\ rules' = Removing(i)
    /\ quiet' = [quiet EXCEPT ![i] = NoMatches]
    /\ owed' = [owed EXCEPT ![i] = 0]
    /\ told' = [told EXCEPT ![i] = 0]
    /\ sent' = [sent EXCEPT ![Identity(rules[i].config)] = Never]
    /\ file' = ConfigsOf(rules')
    /\ stateFile' = SavedState(rules')
    /\ UNCHANGED <<now, up, baseline, nextId, deliveries, respawned, bounds>>

-----------------------------------------------------------------------------
(* Snapshots.                                                                *)

\* A first snapshot is only a baseline, and so is every one while there is no rule.
TakeBaseline ==
    /\ up
    /\ ~seeded \/ Live = {}
    /\ prevStatus' = tally
    /\ seeded' = TRUE
    /\ respawned' = FALSE
    /\ UNCHANGED <<now, up, tally, rules, nextId, deliveries, disk, sent, quiet, owed, told,
                   bounds>>

\* fire(), up to the spawn: the quiet period starts, delivered or not.
Fired(r, deliverable) ==
    [r EXCEPT !.lastFiredAt = now, !.firedCount = @ + 1,
              !.lastError = IF deliverable THEN @ ELSE "skipped"]
AfterFiring(S, deliverable) ==
    [i \in Ids |-> IF i \in S THEN Fired(rules[i], deliverable) ELSE rules[i]]
SentTo(S) == [k \in Identities |->
    IF \E i \in S : Identity(rules[i].config) = k THEN now ELSE sent[k]]
Children(S) == {[rid |-> i, ver |-> rules[i].ver, at |-> now,
                 identity |-> Identity(rules[i].config)] : i \in S}

\* `deliverable': logged in, and Slack not known to be missing.
Evaluate(deliverable) ==
    /\ up /\ seeded /\ Live # {}
    /\ deliverable => Cardinality(deliveries) < MaxDeliveries
    /\ LET matching == Matching
           due == {i \in matching : CooledDown(rules[i])}
           quietNow == [i \in Ids |-> IF i \in matching THEN Added(i) ELSE quiet[i]]
           toldNow  == [i \in Ids |-> IF i \in due THEN told[i] + quietNow[i].matched
                                                    ELSE told[i]]
       IN /\ rules' = AfterFiring(due, deliverable)
          /\ deliveries' = deliveries \cup (IF deliverable THEN Children(due) ELSE {})
          /\ sent' = IF deliverable THEN SentTo(due) ELSE sent
          /\ stateFile' = IF due = {} THEN stateFile ELSE SavedState(rules')
          /\ quiet' = [i \in Ids |-> IF i \in due THEN NoMatches ELSE quietNow[i]]
          /\ told' = toldNow
          /\ owed' = IF respawned THEN [i \in Ids |-> toldNow[i] + quiet'[i].matched]
                     ELSE owed
    /\ prevStatus' = tally
    /\ respawned' = FALSE
    /\ UNCHANGED <<now, up, tally, seeded, nextId, file, bounds>>

-----------------------------------------------------------------------------
(* Delivery: the outcome is written to the rule object the alert came from,  *)
(* which need no longer be the rule's.                                       *)

Marked(d, outcome) ==
    IF rules[d.rid] # NoRule /\ rules[d.rid].ver = d.ver
    THEN [rules EXCEPT ![d.rid].lastError = outcome]
    ELSE rules

\* The child could not be started: `error', with `close' still to come.
SpawnFailed(d) ==
    /\ up
    /\ rules' = Marked(d, "failed")
    /\ stateFile' = SavedState(rules')
    /\ UNCHANGED <<now, up, baseline, nextId, deliveries, file, sent, counting, bounds>>

\* Fault: the outcome is kept in memory only.
DeliveryClosedUnsaved(d, outcome) ==
    /\ up
    /\ rules' = Marked(d, outcome)
    /\ deliveries' = deliveries \ {d}
    /\ UNCHANGED <<now, up, baseline, nextId, file, stateFile, sent, counting, bounds>>
\* `close': ALERT-ERR, ALERT-OK or neither was found in what the script printed.
DeliveryClosed(d, outcome) ==
    /\ up
    /\ rules' = Marked(d, outcome)
    /\ stateFile' = SavedState(rules')
    /\ deliveries' = deliveries \ {d}
    /\ UNCHANGED <<now, up, baseline, nextId, file, sent, counting, bounds>>

Outcomes == {"none", "failed", "unknown"}

-----------------------------------------------------------------------------
(* Crashes.  What was on its way to a file when the process died is chosen    *)
(* among: nothing of it, half of it (torn), all of it.                        *)

\* The process is gone.  The throttle of a rule that is no longer in the file, or
\* whose timing was torn, is forgotten; every other one must still be honoured.
CanCrash == up /\ restarts < MaxRestarts
GoDown(f, s, lastSent, torn) ==
    /\ CanCrash
    /\ restarts' = restarts + 1
    /\ up' = FALSE
    /\ file' = f
    /\ stateFile' = s
    /\ sent' = [k \in Identities |->
                  IF ~torn /\ \E i \in Ids : f[i] # NoRule /\ Identity(f[i]) = k
                  THEN lastSent[k] ELSE Never]
    /\ rules' = [i \in Ids |-> NoRule]
    /\ quiet' = [i \in Ids |-> NoMatches]
    /\ owed' = [i \in Ids |-> 0]
    /\ told' = [i \in Ids |-> 0]
    /\ deliveries' = {}
    /\ tally' = Zero
    /\ prevStatus' = Zero
    /\ seeded' = FALSE
    /\ respawned' = FALSE
    /\ UNCHANGED <<now, nextId, served>>

Crash == GoDown(file, stateFile, sent, FALSE)

\* add() writes the rules; update() and remove() then write the timing too.
CrashInRewrite(edited) ==
    \/ GoDown(TornFile, stateFile, sent, FALSE)
    \/ GoDown(ConfigsOf(edited), stateFile, sent, FALSE)
    \/ GoDown(ConfigsOf(edited), TornState, sent, TRUE)
CrashInEdit ==
    /\ CanCrash
    /\ \/ \E c \in Accepted : CanAdd(c) /\ GoDown(TornFile, stateFile, sent, FALSE)
       \/ \E i \in Live, c \in Accepted : CanUpdate(i, c) /\ CrashInRewrite(Updating(i, c))
       \/ \E i \in Live : CrashInRewrite(Removing(i))

\* Fault: the state is saved once the alert has left.
SavedAfter(due, k) == {i \in due : i < k}
\* The order within fire(): what has reached the state file, and which alerts have
\* left, when the process dies while rule k fires.
SavedWhen(due, k) == {i \in due : i <= k}
LeftWhen(due, k) == {{i \in due : i < k}, {i \in due : i <= k}}

CrashInEvaluate(deliverable) ==
    /\ CanCrash /\ seeded
    /\ LET due == {i \in Matching : CooledDown(rules[i])}
       IN \E k \in due :
         \/ GoDown(file, TornState, sent, TRUE)
         \/ \E left \in LeftWhen(due, k) :
              GoDown(file, SavedState(AfterFiring(SavedWhen(due, k), deliverable)),
                     IF deliverable THEN SentTo(left) ELSE sent, FALSE)

CrashInDelivery == deliveries # {} /\ GoDown(file, TornState, sent, TRUE)

Restart ==
    /\ ~up
    /\ up' = TRUE
    /\ rules' = Loaded
    /\ \E last \in LiveIn(Loaded) \cup {0} :
           /\ \A i \in LiveIn(Loaded) : i <= last
           /\ nextId' = last + 1
    /\ UNCHANGED <<now, baseline, deliveries, disk, sent, counting, bounds>>

Next ==
    \/ Tick
    \/ \E e \in Endpoints, code \in Codes : Response(e, code)
    \/ Respawn
    \/ Reset
    \/ \E c \in Accepted : AddRule(c)
    \/ \E i \in Ids, c \in Accepted : UpdateRule(i, c)
    \/ \E i \in Ids : RemoveRule(i)
    \/ TakeBaseline
    \/ \E deliverable \in Reachable : Evaluate(deliverable)
    \/ \E d \in deliveries : SpawnFailed(d)
    \/ \E d \in deliveries, outcome \in Outcomes : DeliveryClosed(d, outcome)
    \/ Crash
    \/ CrashInEdit
    \/ \E deliverable \in Reachable : CrashInEvaluate(deliverable)
    \/ CrashInDelivery
    \/ Restart

Spec == Init /\ [][Next]_vars

-----------------------------------------------------------------------------
(* Properties.                                                               *)

Timings == [lastFiredAt : Nat \cup {Never}, firedCount : Nat, lastError : Errors]
Rules == [config : Accepted, ver : Nat, lastFiredAt : Nat \cup {Never},
          firedCount : Nat, lastError : Errors]

\* What the rules, the files and the history are made of (the part of the state that
\* the throttle depends on).
TimingTypeOK ==
    /\ now \in Nat
    /\ up \in BOOLEAN
    /\ rules \in [Ids -> Rules \cup {NoRule}]
    /\ file \in [Ids -> Accepted \cup {NoRule}]
    /\ stateFile \in [Identities -> Timings \cup {NoTiming}]
    /\ sent \in [Identities -> Nat \cup {Never}]
    /\ deliveries \subseteq [rid : Ids, ver : Nat, at : Nat, identity : Identities]

\* Types of the whole state of alerts.js.
TypeOK ==
    /\ TimingTypeOK
    /\ seeded \in BOOLEAN
    /\ tally \in [Endpoints -> [Codes -> Nat]]
    /\ prevStatus \in [Endpoints -> [Codes -> Nat]]
    /\ quiet \in [Ids -> [matched : Nat, pending : [Endpoints -> Nat], codes : [Codes -> Nat]]]

\* No two rules watch the same thing, through any sequence of adds, edits, removals
\* and reloads: an endpoint that fails is one alert, and timing kept by identity in the
\* state file belongs to one rule.
OneRulePerIdentity ==
    \A i, j \in Live : Identity(rules[i].config) = Identity(rules[j].config) => i = j

\* The throttle: an alert leaves for a rule only if the previous one for what it watches
\* left at least the rule's quiet period ago, whatever crashed or was restarted, reset or
\* edited (without changing what the rule watches) in between.
CooldownHolds ==
    [][\A d \in deliveries' \ deliveries :
           \/ sent[d.identity] = Never
           \/ now - sent[d.identity] >= rules[d.rid].config.cooldown]_vars

\* What a restart would restore is what the rules know: the timing of every rule that
\* has fired is in the state file.
TimingIsSaved ==
    up => \A i \in Live : rules[i].lastFiredAt # Never =>
              stateFile[Identity(rules[i].config)] = TimingOf(rules[i])

\* Every response that a rule watches is counted exactly once: it was named in an
\* alert, is held for the next one, or will be in the next snapshot's difference.
EveryMatchCounted ==
    \A i \in Live : seeded /\ ~respawned =>
        owed[i] = told[i] + quiet[i].matched + Unseen(rules[i].config)

\* A probe that restarted without notice costs matches but never invents them: what a
\* rule has matched stays within the responses that really happened.
NeverInvented ==
    [][respawned /\ ~respawned' =>
           \A i \in Live : told'[i] + quiet'[i].matched <= owed[i]]_vars

\* The three numbers an alert quotes agree: the total, the sum over endpoints and the
\* sum over status codes.
TalliesAgree ==
    \A i \in Live : LET q == quiet[i] IN
        /\ q.matched = SumOver(Endpoints, q.pending)
        /\ q.matched = SumOver(Codes, q.codes)

\* What slack-alert.yeet.js promises of a delivery's outcome, that the server "records
\* the reason on the rule": a closing delivery leaves its outcome on the rule it was
\* for, if that rule still watches the same thing.
OutcomeOnRule ==
    [][\A d \in deliveries, o \in Outcomes :
           (/\ DeliveryClosed(d, o)
            /\ rules[d.rid] # NoRule
            /\ Identity(rules[d.rid].config) = d.identity)
               => rules'[d.rid].lastError = o]_vars

-----------------------------------------------------------------------------
(* The throttle that the rules and the two files implement together.         *)

\* When the quiet period of what is watched began, as a table of rules knows it, and as
\* a restart would find it in the two files.
KnownSince(rs, k) ==
    LET holders == {i \in LiveIn(rs) : Identity(rs[i].config) = k}
    IN IF holders = {} THEN Never ELSE rs[CHOOSE i \in holders : TRUE].lastFiredAt
SavedSince(f, s, k) ==
    IF (\E i \in Ids : f[i] # NoRule /\ Identity(f[i]) = k) /\ s[k] # NoTiming
    THEN s[k].lastFiredAt ELSE Never
QuietSince == [k \in Identities |->
    IF up THEN KnownSince(rules, k) ELSE SavedSince(file, stateFile, k)]

Throttling == INSTANCE Throttle
    WITH Subjects <- Identities, MinQuiet <- MinCooldown, quietSince <- QuietSince, left <- sent

\* The rules, their two files, their crashes and their restarts are a throttle: a quiet
\* period begins once per alert, on disk no later than the alert leaves, and survives
\* whatever does not tear a file or change what the rule watches.
IsThrottle == Throttling!Spec
=============================================================================
