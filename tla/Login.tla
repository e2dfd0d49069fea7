-------------------------------- MODULE Login --------------------------------
(***************************************************************************)
(* server/auth.js: the dashboard is open while the yeet daemon of the host is *)
(* logged in.  A poll asks `yeet whoami' whether it is; a visitor of a closed  *)
(* dashboard has `yeet login' started, and is sent to the URL it prints.       *)
(*                                                                         *)
(* A refresh() is a slot: it asks one child whether the host is logged in,     *)
(* then perhaps another one as whom, and what a child saw may be out of date   *)
(* when its answer is read.  Refreshes overlap: the poll's, and the one that   *)
(* a finished login starts.                                                   *)
(***************************************************************************)
EXTENDS Naturals

CONSTANTS
    Owners,        (* whom the host may be logged in as                          *)
    None,          (* null; also: the host is logged out                         *)
    MaxRefreshes,  (* bound: refreshes at a time                                 *)
    MaxCalls,      (* bound: calls of startLogin()                               *)
    MaxLogins,     (* bound: children of startLogin()                            *)
    MaxFlips,      (* bound: logins and logouts of the host from elsewhere       *)
    MaxFailures    (* bound: children that could not do their work               *)

\* A refresh() in flight: who started it, loggedIn when it began, how far it is, and what
\* its child saw.
InProgress == [by : {"poll", "login"}, was : BOOLEAN, saw : Owners \cup {None},
               step : {"asking", "asked", "naming", "named"}]

ASSUME LoginAssumption ==
    /\ Owners # {} /\ None \notin Owners
    /\ None \notin Nat \cup InProgress
    /\ MaxRefreshes \in Nat \ {0} /\ MaxCalls \in Nat /\ MaxLogins \in Nat
    /\ MaxFlips \in Nat /\ MaxFailures \in Nat

Slots == 1..MaxRefreshes
Calls == 1..MaxCalls
Logins == 1..MaxLogins
Already == 0       (* the answer to a call when the host is logged in *)

VARIABLES
    loggedIn, identity,
    loginProc,    (* the `yeet login' child, or None                             *)
    loginUrl,     (* the child whose URL is known, or None                       *)
    loginError,   (* "none", "no child" or "not completed"                       *)
    urlPromise,   (* the promise that callers join, by the child it is for       *)
    timer,        (* "off", "brisk" (REFRESH_MS) or "slow" (REFRESH_LOGGED_IN_MS) *)
    stopped,
    refreshes,    (* slot -> a refresh() in flight, or None                      *)
    child,        (* login -> "none", "running", "done" or "failed" (it ended and *)
                  (* `close' is to come), "closed"                               *)
    answer,       (* login -> its promise: "pending", "url", "error"             *)
    calls,        (* call -> the login it joined, Already, or None: not called yet *)
    host,         (* whom the host is logged in as                               *)
    crossed,      (* history: refreshes overlapped since the poll was last alone *)
    flips, failures

gate == <<loggedIn, identity>>
login == <<loginProc, loginUrl, loginError, urlPromise, child, answer, calls>>
vars == <<gate, login, timer, stopped, refreshes, host, crossed, flips, failures>>

InFlight == {s \in Slots : refreshes[s] # None}
Asking(by) == [by |-> by, was |-> loggedIn, step |-> "asking", saw |-> None]

\* refresh(), up to its first await.
Refresh(by) ==
    /\ InFlight # Slots
    /\ refreshes' = [refreshes EXCEPT ![CHOOSE s \in Slots \ InFlight : TRUE] = Asking(by)]
    /\ crossed' = (crossed \/ InFlight # {})

Init ==
    /\ loggedIn = FALSE /\ identity = None
    /\ loginProc = None /\ loginUrl = None /\ loginError = "none" /\ urlPromise = None
    /\ timer = "off" /\ stopped = FALSE
    /\ refreshes = [s \in Slots |-> IF s = 1 THEN Asking("poll") ELSE None]
    /\ child = [n \in Logins |-> "none"]
    /\ answer = [n \in Logins |-> "pending"]
    /\ calls = [c \in Calls |-> None]
    /\ host \in Owners \cup {None}
    /\ crossed = FALSE /\ flips = 0 /\ failures = 0

-----------------------------------------------------------------------------
(* The poll.                                                                 *)

\* A child of whoamiQuiet() or whoamiName() looks at the host, or fails.
Looks(s) ==
    /\ refreshes[s] # None /\ refreshes[s].step \in {"asking", "naming"}
    /\ \E saw \in {host, None} :
           /\ refreshes' = [refreshes EXCEPT ![s].saw = saw,
                                ![s].step = IF @ = "asking" THEN "asked" ELSE "named"]
           /\ failures' = IF saw = host THEN failures ELSE failures + 1
    /\ failures' <= MaxFailures
    /\ UNCHANGED <<gate, login, timer, stopped, host, crossed, flips>>

Cadence(in) == IF in THEN "slow" ELSE "brisk"
\* Fault: a stopped poll is armed again.
RearmedAnyway(r, in) == IF in # r.was \/ r.by = "poll" THEN Cadence(in) ELSE timer
\* Fault: only the poll arms the timer.
RearmedByPoll(r, in) == IF ~stopped /\ r.by = "poll" THEN Cadence(in) ELSE timer
\* Fault: only a change arms the timer.
RearmedOnFlip(r, in) == IF ~stopped /\ in # r.was THEN Cadence(in) ELSE timer
\* schedule(): after a refresh that saw a change, and after each one of the poll.
Rearmed(r, in) == IF ~stopped /\ (in # r.was \/ r.by = "poll") THEN Cadence(in) ELSE timer

Finish(s, in) ==
    /\ refreshes' = [refreshes EXCEPT ![s] = None]
    /\ timer' = Rearmed(refreshes[s], in)
    /\ crossed' = (crossed /\ (InFlight # {s} \/ refreshes[s].by # "poll"))

\* Whether the host is logged in: the flag is set at once, the name may have to be asked.
Answered(s) ==
    /\ refreshes[s] # None /\ refreshes[s].step = "asked"
    /\ loggedIn' = (refreshes[s].saw # None)
    /\ IF loggedIn' /\ identity = None
       THEN /\ refreshes' = [refreshes EXCEPT ![s].step = "naming", ![s].saw = None]
            /\ UNCHANGED <<identity, timer, crossed>>
       ELSE /\ identity' = IF loggedIn' THEN identity ELSE None
            /\ Finish(s, loggedIn')
    /\ UNCHANGED <<login, stopped, host, flips, failures>>

\* Fault: whether the host is still logged in is not looked at again.
NameRegardless(saw) == saw
\* A name that comes after the flag was cleared is dropped.
Name(saw) == IF loggedIn THEN saw ELSE None
Named(s) ==
    /\ refreshes[s] # None /\ refreshes[s].step = "named"
    /\ identity' = Name(refreshes[s].saw)
    /\ Finish(s, loggedIn)
    /\ UNCHANGED <<loggedIn, login, stopped, host, flips, failures>>

TimerFires ==
    /\ timer # "off"
    /\ timer' = "off"
    /\ Refresh("poll")
    /\ UNCHANGED <<gate, login, stopped, host, flips, failures>>

-----------------------------------------------------------------------------
(* startLogin().                                                             *)

\* The flow that is in flight is joined, and what its promise resolved to is the answer.
Call(c) ==
    /\ calls[c] = None /\ \A d \in Calls : d < c => calls[d] # None
    /\ IF loggedIn
       THEN /\ calls' = [calls EXCEPT ![c] = Already]
            /\ UNCHANGED <<loginProc, loginUrl, loginError, urlPromise, child, answer>>
       ELSE IF urlPromise # None
       THEN /\ calls' = [calls EXCEPT ![c] = urlPromise]
            /\ UNCHANGED <<loginProc, loginUrl, loginError, urlPromise, child, answer>>
       ELSE \E n \in Logins :
            /\ child[n] = "none" /\ \A m \in Logins : m < n => child[m] # "none"
            /\ calls' = [calls EXCEPT ![c] = n]
            /\ child' = [child EXCEPT ![n] = "running"]
            /\ loginProc' = n /\ urlPromise' = n
            /\ loginUrl' = None /\ loginError' = "none"
            /\ UNCHANGED answer
    /\ UNCHANGED <<gate, timer, stopped, refreshes, host, crossed, flips, failures>>

\* done(): the first one counts.
Settled(n, value) == [answer EXCEPT ![n] = IF @ = "pending" THEN value ELSE @]

UrlScanned(n) ==
    /\ child[n] = "running" /\ loginUrl # n
    /\ loginUrl' = n
    /\ answer' = Settled(n, "url")
    /\ UNCHANGED <<gate, loginProc, loginError, urlPromise, child, calls, timer, stopped,
                   refreshes, host, crossed, flips, failures>>

\* Fault: what timed out is given up, so that a fresh attempt may be made.
UrlTimeoutFreeing(n) ==
    /\ child[n] \notin {"none", "closed"} /\ answer[n] = "pending"
    /\ answer' = Settled(n, "error")
    /\ urlPromise' = None
    /\ UNCHANGED <<gate, loginProc, loginUrl, loginError, child, calls, timer, stopped,
                   refreshes, host, crossed, flips, failures>>
UrlTimeout(n) ==
    /\ child[n] \notin {"none", "closed"} /\ answer[n] = "pending"
    /\ answer' = Settled(n, "error")
    /\ UNCHANGED <<gate, loginProc, loginUrl, loginError, urlPromise, child, calls, timer,
                   stopped, refreshes, host, crossed, flips, failures>>

\* The child could not be started: `error'.
NoChild(n) ==
    /\ child[n] = "running" /\ loginUrl # n
    /\ failures < MaxFailures
    /\ failures' = failures + 1
    /\ child' = [child EXCEPT ![n] = "failed"]
    /\ loginError' = "no child"
    /\ answer' = Settled(n, "error")
    /\ UNCHANGED <<gate, loginProc, loginUrl, urlPromise, calls, timer, stopped, refreshes,
                   host, crossed, flips>>

\* The visitor completes the login, or does not.
LoginEnds(n) ==
    /\ child[n] = "running"
    /\ \/ child' = [child EXCEPT ![n] = "failed"] /\ UNCHANGED host
       \/ child' = [child EXCEPT ![n] = "done"] /\ host' \in Owners
    /\ UNCHANGED <<gate, loginProc, loginUrl, loginError, urlPromise, answer, calls, timer,
                   stopped, refreshes, crossed, flips, failures>>

\* Fault: callers that wait for a URL are forgotten.
UnsettledAtClose(n) == answer
SettledAtClose(n) == Settled(n, "error")
\* Fault: the page keeps the URL of a login that is over.
UrlKept == loginUrl
UrlForgotten == None
LoginClosed(n) ==
    /\ child[n] \in {"done", "failed"}
    /\ child' = [child EXCEPT ![n] = "closed"]
    /\ loginProc' = None /\ loginUrl' = UrlForgotten /\ urlPromise' = None
    /\ answer' = SettledAtClose(n)
    /\ IF child[n] = "done"
       THEN Refresh("login") /\ UNCHANGED loginError
       ELSE /\ loginError' = IF loggedIn THEN loginError ELSE "not completed"
            /\ UNCHANGED <<refreshes, crossed>>
    /\ UNCHANGED <<gate, calls, timer, stopped, host, flips, failures>>

-----------------------------------------------------------------------------

\* stop(): the child is sent a signal.
Stop ==
    /\ ~stopped
    /\ stopped' = TRUE
    /\ timer' = "off"
    /\ child' = [n \in Logins |->
                    IF n = loginProc /\ child[n] = "running" THEN "failed" ELSE child[n]]
    /\ UNCHANGED <<gate, loginProc, loginUrl, loginError, urlPromise, answer, calls, refreshes,
                   host, crossed, flips, failures>>

\* Somebody uses the command line.
HostFlips ==
    /\ flips < MaxFlips
    /\ flips' = flips + 1
    /\ host' \in (Owners \cup {None}) \ {host}
    /\ UNCHANGED <<gate, login, timer, stopped, refreshes, crossed, failures>>

Next ==
    \/ \E s \in Slots : Looks(s) \/ Answered(s) \/ Named(s)
    \/ TimerFires
    \/ \E c \in Calls : Call(c)
    \/ \E n \in Logins : UrlScanned(n) \/ UrlTimeout(n) \/ NoChild(n)
    \/ \E n \in Logins : LoginEnds(n) \/ LoginClosed(n)
    \/ Stop
    \/ HostFlips

\* `yeet whoami' ends, a timer fires, `close' is delivered; `yeet login' and people need not
\* ever come to an end.
Fairness ==
    /\ \A s \in Slots : WF_vars(Looks(s) \/ Answered(s) \/ Named(s))
    /\ WF_vars(TimerFires)
    /\ \A n \in Logins : WF_vars(UrlTimeout(n)) /\ WF_vars(LoginClosed(n))

Spec == Init /\ [][Next]_vars /\ Fairness

-----------------------------------------------------------------------------

TypeOK ==
    /\ loggedIn \in BOOLEAN /\ identity \in Owners \cup {None}
    /\ {loginProc, urlPromise} \subseteq Logins \cup {None}
    /\ loginUrl \in {loginProc, None}
    /\ loginError \in {"none", "no child", "not completed"}
    /\ timer \in {"off", "brisk", "slow"} /\ stopped \in BOOLEAN
    /\ refreshes \in [Slots -> InProgress \cup {None}]
    /\ child \in [Logins -> {"none", "running", "done", "failed", "closed"}]
    /\ answer \in [Logins -> {"pending", "url", "error"}]
    /\ calls \in [Calls -> Logins \cup {Already, None}]
    /\ host \in Owners \cup {None}

\* One login is in flight at a time, and it is the one that the server knows: a second
\* child's end would take the first one's URL from the page.
OneLogin == \A n \in Logins : child[n] \in {"running", "done", "failed"} =>
                loginProc = n /\ urlPromise = n

\* No name is shown of a host that is logged out, whichever of two overlapping refreshes
\* answers last.
NameIsGated == identity # None => loggedIn

\* The poll never dies before stop() and never survives it: a timer is armed or a refresh
\* that will arm it is in flight, and no timer is armed once stopped.
PollsUntilStopped ==
    IF stopped THEN timer = "off"
    ELSE timer # "off" \/ \E s \in InFlight : refreshes[s].by = "poll"

\* The cadence follows the login state: between refreshes, the poll is brisk if and only if
\* the dashboard is closed, unless refreshes overlapped since the poll was last alone.
CadenceFollows ==
    ~crossed /\ ~stopped /\ InFlight = {} => timer = Cadence(loggedIn)

\* A host that stays logged in opens the dashboard for good, and one that stays logged out
\* closes it, by the poll alone: whatever overlapped or failed before.
Noticed == /\ <>[](host # None) => <>[](loggedIn \/ stopped)
           /\ <>[](host = None) => <>[](~loggedIn \/ stopped)

\* Every caller of startLogin() gets an answer, though no URL is ever printed.
CallsAreAnswered == \A c \in Calls, n \in Logins :
                        calls[c] = n ~> answer[n] # "pending"
=============================================================================
