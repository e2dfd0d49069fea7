---------------------------- MODULE LoginProofs -----------------------------
(***************************************************************************)
(* What holds of the login gate for any hosts and bounds: its types, one     *)
(* login at a time, no name without a login, and a poll that neither dies     *)
(* nor survives, at the right pace.                                          *)
(***************************************************************************)
EXTENDS Login, TLAPS

-----------------------------------------------------------------------------
(* Types, of the gate and its poll, and of the login.                        *)

GateTypes ==
    /\ loggedIn \in BOOLEAN /\ identity \in Owners \cup {None}
    /\ timer \in {"off", "brisk", "slow"} /\ stopped \in BOOLEAN
    /\ refreshes \in [Slots -> InProgress \cup {None}]
    /\ host \in Owners \cup {None}
LoginTypes ==
    /\ loginProc \in Logins \cup {None} /\ urlPromise \in Logins \cup {None}
    /\ loginUrl \in {loginProc, None}
    /\ loginError \in {"none", "no child", "not completed"}
    /\ child \in [Logins -> {"none", "running", "done", "failed", "closed"}]
    /\ answer \in [Logins -> {"pending", "url", "error"}]
    /\ calls \in [Calls -> Logins \cup {Already, None}]

\* The two parts are the type invariant.
LEMMA Types == TypeOK <=> GateTypes /\ LoginTypes
BY DEF TypeOK, GateTypes, LoginTypes

-----------------------------------------------------------------------------
(* Slots.                                                                    *)

\* A refresh that starts takes a slot that was free and leaves the others alone.
LEMMA RefreshTakesSlot ==
    ASSUME refreshes \in [Slots -> InProgress \cup {None}], NEW by, Refresh(by)
    PROVE  \E s \in Slots \ InFlight : refreshes' = [refreshes EXCEPT ![s] = Asking(by)]
BY DEF Refresh, InFlight

LEMMA AskingType ==
    ASSUME loggedIn \in BOOLEAN, NEW by \in {"poll", "login"}
    PROVE  /\ Asking(by) \in InProgress /\ Asking(by) # None
           /\ Asking(by).by = by /\ Asking(by).was = loggedIn
BY LoginAssumption DEF Asking, InProgress

LEMMA RefreshType ==
    ASSUME GateTypes, NEW by \in {"poll", "login"}, Refresh(by)
    PROVE  /\ refreshes' \in [Slots -> InProgress \cup {None}]
           /\ \A s \in InFlight : refreshes'[s] = refreshes[s]
           /\ \E s \in Slots \ InFlight : /\ refreshes'[s] = Asking(by)
                                          /\ InFlight' = InFlight \cup {s}
<1>1. refreshes \in [Slots -> InProgress \cup {None}] /\ loggedIn \in BOOLEAN
  BY DEF GateTypes
<1>2. PICK s \in Slots \ InFlight : refreshes' = [refreshes EXCEPT ![s] = Asking(by)]
  BY <1>1, RefreshTakesSlot
<1>3. Asking(by) \in InProgress /\ Asking(by) # None
  BY <1>1, AskingType
<1> QED
  BY <1>1, <1>2, <1>3 DEF InFlight

-----------------------------------------------------------------------------
(* The inductive invariant.                                                  *)

\* While refreshes do not overlap: the timer is what the login state asks for, between
\* refreshes and, during one that a login started, as it was when it began.
Paced ==
    ~crossed /\ ~stopped =>
        /\ InFlight = {} => timer = Cadence(loggedIn)
        /\ \A s \in InFlight : InFlight = {s} /\
               (refreshes[s].by = "login" => timer = Cadence(refreshes[s].was))

IInv == GateTypes /\ LoginTypes /\ OneLogin /\ NameIsGated /\ PollsUntilStopped /\ Paced

LEMMA InitIInv == Init => IInv
<1> SUFFICES ASSUME Init PROVE IInv
  OBVIOUS
<1> USE DEF Init
<1>1. Asking("poll") \in InProgress /\ Asking("poll") # None /\ Asking("poll").by = "poll"
  BY AskingType
<1>2. 1 \in Slots /\ InFlight = {1} /\ refreshes[1] = Asking("poll")
  BY <1>1, LoginAssumption DEF Slots, InFlight
<1>3. GateTypes /\ LoginTypes
  BY <1>1, LoginAssumption DEF GateTypes, LoginTypes
<1>4. OneLogin /\ NameIsGated
  BY DEF OneLogin, NameIsGated
<1>5. PollsUntilStopped
  BY <1>1, <1>2 DEF PollsUntilStopped
<1>6. Paced
  BY <1>1, <1>2 DEF Paced
<1> QED
  BY <1>3, <1>4, <1>5, <1>6 DEF IInv

\* Steps that leave the gate and the poll alone.
LEMMA Elsewhere ==
    ASSUME IInv, UNCHANGED <<gate, timer, stopped, refreshes, crossed>>
    PROVE  NameIsGated' /\ PollsUntilStopped' /\ Paced'
BY DEF IInv, NameIsGated, PollsUntilStopped, Paced, gate, InFlight

\* Steps that leave the login alone.
LEMMA SameLogin ==
    ASSUME IInv, UNCHANGED login
    PROVE  OneLogin' /\ LoginTypes'
BY DEF IInv, OneLogin, LoginTypes, login

-----------------------------------------------------------------------------
(* Every step keeps the invariant: the gate and its poll.                    *)

LEMMA LooksKeepsIInv ==
    ASSUME IInv, NEW s \in Slots, Looks(s)
    PROVE  IInv'
<1> USE DEF Looks
<1>1. GateTypes /\ UNCHANGED <<gate, login, timer, stopped, host, crossed>>
  BY DEF IInv
<1>2. PICK saw \in {host, None} :
          refreshes' = [refreshes EXCEPT ![s].saw = saw,
                            ![s].step = IF @ = "asking" THEN "asked" ELSE "named"]
  OBVIOUS
<1>3. refreshes[s] \in InProgress /\ s \in InFlight /\ saw \in Owners \cup {None}
  BY <1>1 DEF GateTypes, InFlight
<1>4. /\ refreshes'[s] \in InProgress /\ refreshes'[s] # None
      /\ refreshes'[s].by = refreshes[s].by /\ refreshes'[s].was = refreshes[s].was
      /\ \A r \in Slots \ {s} : refreshes'[r] = refreshes[r]
      /\ refreshes' \in [Slots -> InProgress \cup {None}]
  BY <1>1, <1>2, <1>3, LoginAssumption DEF GateTypes, InProgress
<1>5. InFlight' = InFlight
  BY <1>3, <1>4 DEF InFlight
<1>6. GateTypes'
  BY <1>1, <1>4 DEF GateTypes, gate, login
<1>7. OneLogin' /\ LoginTypes' /\ NameIsGated'
  BY <1>1, SameLogin DEF IInv, NameIsGated, gate
<1>8. PollsUntilStopped'
  BY <1>1, <1>4, <1>5 DEF IInv, PollsUntilStopped, InFlight
<1>9. Paced'
  BY <1>1, <1>4, <1>5 DEF IInv, Paced, gate, InFlight
<1> QED
  BY <1>6, <1>7, <1>8, <1>9 DEF IInv

\* The end of a refresh that found the host to be logged in, or not.
LEMMA FinishKeepsPoll ==
    ASSUME IInv, NEW s \in InFlight, NEW in \in BOOLEAN, Finish(s, in),
           stopped' = stopped, loggedIn' = in
    PROVE  /\ refreshes' \in [Slots -> InProgress \cup {None}]
           /\ timer' \in {"off", "brisk", "slow"}
           /\ PollsUntilStopped' /\ Paced'
<1> USE DEF Finish
<1>1. GateTypes /\ s \in Slots /\ refreshes[s] \in InProgress
  BY DEF IInv, GateTypes, InFlight
<1>2. refreshes' \in [Slots -> InProgress \cup {None}]
  BY <1>1 DEF GateTypes
<1>3. /\ refreshes'[s] = None
      /\ \A r \in Slots \ {s} : refreshes'[r] = refreshes[r]
      /\ InFlight' = InFlight \ {s}
  BY <1>1 DEF GateTypes, InFlight
<1>4. timer' = Rearmed(refreshes[s], in) /\ Cadence(in) \in {"brisk", "slow"}
  BY DEF Cadence
<1>5. timer' \in {"off", "brisk", "slow"}
  BY <1>1, <1>4 DEF Rearmed, GateTypes
<1>6. refreshes[s].by \in {"poll", "login"}
  BY <1>1 DEF InProgress
<1>7. PollsUntilStopped'
  <2>1. CASE stopped
    BY <1>4, <2>1 DEF IInv, PollsUntilStopped, Rearmed
  <2>2. CASE ~stopped /\ (timer' # "off" \/ refreshes[s].by = "poll")
    BY <1>4, <2>2 DEF PollsUntilStopped, Rearmed
  <2>3. CASE ~stopped /\ timer' = "off" /\ refreshes[s].by # "poll"
    <3>1. timer = "off"
      BY <1>4, <2>3 DEF Rearmed
    <3>2. PICK r \in InFlight : refreshes[r].by = "poll"
      BY <2>3, <3>1 DEF IInv, PollsUntilStopped
    <3>3. r \in InFlight' /\ refreshes'[r].by = "poll"
      BY <1>3, <2>3, <3>2 DEF InFlight
    <3> QED BY <2>3, <3>3 DEF PollsUntilStopped
  <2> QED BY <2>1, <2>2, <2>3
<1>8. Paced'
  <2> SUFFICES ASSUME ~crossed', ~stopped
               PROVE  InFlight' = {} /\ timer' = Cadence(in)
    BY DEF Paced
  <2>1. CASE InFlight = {s} /\ refreshes[s].by = "poll"
    BY <1>3, <1>4, <2>1 DEF Rearmed
  <2>2. CASE ~crossed
    <3>1. InFlight = {s} /\ (refreshes[s].by = "login" => timer = Cadence(refreshes[s].was))
      BY <2>2 DEF IInv, Paced
    <3> QED BY <1>3, <1>4, <1>6, <3>1 DEF Rearmed
  <2> QED BY <2>1, <2>2
<1> QED
  BY <1>2, <1>5, <1>7, <1>8

LEMMA AnsweredKeepsIInv ==
    ASSUME IInv, NEW s \in Slots, Answered(s)
    PROVE  IInv'
<1> USE DEF Answered
<1>1. GateTypes /\ s \in InFlight /\ refreshes[s] \in InProgress /\ loggedIn' \in BOOLEAN
      /\ UNCHANGED <<login, stopped, host>>
  BY DEF IInv, GateTypes, InFlight
<1>2. OneLogin' /\ LoginTypes'
  BY <1>1, SameLogin
<1>3. CASE loggedIn' /\ identity = None
  <2>1. UNCHANGED <<identity, timer, crossed>>
        /\ refreshes' = [refreshes EXCEPT ![s].step = "naming", ![s].saw = None]
    BY <1>3
  <2>2. /\ refreshes'[s] \in InProgress /\ refreshes'[s] # None
        /\ refreshes'[s].by = refreshes[s].by /\ refreshes'[s].was = refreshes[s].was
        /\ \A r \in Slots \ {s} : refreshes'[r] = refreshes[r]
        /\ refreshes' \in [Slots -> InProgress \cup {None}]
    BY <1>1, <2>1, LoginAssumption DEF GateTypes, InProgress
  <2>3. InFlight' = InFlight
    BY <1>1, <2>2 DEF InFlight
  <2>4. GateTypes'
    BY <1>1, <2>1, <2>2 DEF GateTypes, login
  <2>5. NameIsGated'
    BY <1>3 DEF NameIsGated
  <2>6. PollsUntilStopped'
    BY <1>1, <2>1, <2>2, <2>3 DEF IInv, PollsUntilStopped, InFlight
  <2>7. Paced'
    BY <1>1, <2>1, <2>2, <2>3 DEF IInv, Paced, InFlight
  <2> QED BY <1>2, <2>4, <2>5, <2>6, <2>7 DEF IInv
<1>4. CASE ~(loggedIn' /\ identity = None)
  <2>1. identity' = (IF loggedIn' THEN identity ELSE None) /\ Finish(s, loggedIn')
    BY <1>4
  <2>2. /\ refreshes' \in [Slots -> InProgress \cup {None}]
        /\ timer' \in {"off", "brisk", "slow"}
        /\ PollsUntilStopped' /\ Paced'
    BY <1>1, <2>1, FinishKeepsPoll
  <2>3. GateTypes'
    BY <1>1, <2>1, <2>2 DEF GateTypes, login
  <2>4. NameIsGated'
    BY <2>1 DEF NameIsGated
  <2> QED BY <1>2, <2>2, <2>3, <2>4 DEF IInv
<1> QED
  BY <1>3, <1>4

LEMMA NamedKeepsIInv ==
    ASSUME IInv, NEW s \in Slots, Named(s)
    PROVE  IInv'
<1> USE DEF Named
<1>1. GateTypes /\ s \in InFlight /\ refreshes[s] \in InProgress /\ loggedIn' = loggedIn
      /\ loggedIn \in BOOLEAN /\ UNCHANGED <<login, stopped, host>>
      /\ identity' = Name(refreshes[s].saw) /\ Finish(s, loggedIn)
  BY DEF IInv, GateTypes, InFlight
<1>2. OneLogin' /\ LoginTypes'
  BY <1>1, SameLogin
<1>3. /\ refreshes' \in [Slots -> InProgress \cup {None}]
      /\ timer' \in {"off", "brisk", "slow"}
      /\ PollsUntilStopped' /\ Paced'
  BY <1>1, FinishKeepsPoll
<1>4. GateTypes' /\ NameIsGated'
  BY <1>1, <1>3 DEF GateTypes, login, InProgress, Name, NameIsGated
<1> QED
  BY <1>2, <1>3, <1>4 DEF IInv

LEMMA TimerFiresKeepsIInv ==
    ASSUME IInv, TimerFires
    PROVE  IInv'
<1> USE DEF TimerFires
<1>1. GateTypes /\ ~stopped /\ Refresh("poll") /\ UNCHANGED <<gate, login, stopped, host>>
      /\ timer' = "off"
  BY DEF IInv, PollsUntilStopped
<1>2. /\ refreshes' \in [Slots -> InProgress \cup {None}]
      /\ \A s \in InFlight : refreshes'[s] = refreshes[s]
  BY <1>1, RefreshType
<1>3. PICK s \in Slots \ InFlight : refreshes'[s] = Asking("poll") /\ InFlight' = InFlight \cup {s}
  BY <1>1, RefreshType
<1>4. Asking("poll").by = "poll"
  BY DEF Asking
<1>5. GateTypes' /\ LoginTypes' /\ OneLogin' /\ NameIsGated'
  BY <1>1, <1>2, SameLogin DEF IInv, GateTypes, NameIsGated, gate, login
<1>6. PollsUntilStopped'
  BY <1>1, <1>3, <1>4 DEF PollsUntilStopped, InFlight
<1>7. Paced'
  <2> SUFFICES ASSUME ~crossed'
               PROVE  InFlight' # {} /\ \A r \in InFlight' : InFlight' = {r} /\ refreshes'[r].by = "poll"
    BY DEF Paced
  <2>1. InFlight = {}
    BY <1>1 DEF Refresh
  <2> QED BY <1>3, <1>4, <2>1
<1> QED
  BY <1>5, <1>6, <1>7 DEF IInv

-----------------------------------------------------------------------------
(* Every step keeps the invariant: the login.                                *)

\* What a step of the login that starts no refresh leaves to show.
LEMMA LoginAlone ==
    ASSUME IInv, UNCHANGED <<gate, timer, stopped, refreshes, crossed>>,
           host' \in Owners \cup {None}, LoginTypes', OneLogin'
    PROVE  IInv'
BY Elsewhere DEF IInv, GateTypes, gate

\* A new child is only spawned when none is in flight.
LEMMA CallKeepsIInv ==
    ASSUME IInv, NEW c \in Calls, Call(c)
    PROVE  IInv'
<1> USE DEF Call
<1>1. LoginTypes /\ OneLogin /\ UNCHANGED <<gate, timer, stopped, refreshes, host, crossed>>
      /\ host' \in Owners \cup {None}
  BY DEF IInv, GateTypes
<1>2. CASE UNCHANGED <<loginProc, loginUrl, loginError, urlPromise, child, answer>>
  <2>1. calls' \in [Calls -> Logins \cup {Already, None}]
    BY <1>1, <1>2 DEF LoginTypes
  <2>2. LoginTypes' /\ OneLogin'
    BY <1>1, <1>2, <2>1 DEF LoginTypes, OneLogin
  <2> QED BY <1>1, <2>2, LoginAlone
<1>3. CASE ~UNCHANGED <<loginProc, loginUrl, loginError, urlPromise, child, answer>>
  <2>1. urlPromise = None
    BY <1>3
  <2>2. PICK n \in Logins : /\ calls' = [calls EXCEPT ![c] = n]
                            /\ child' = [child EXCEPT ![n] = "running"]
                            /\ loginProc' = n /\ urlPromise' = n
                            /\ loginUrl' = None /\ loginError' = "none"
                            /\ answer' = answer
    BY <1>3
  <2>3. \A m \in Logins : child[m] \notin {"running", "done", "failed"}
    BY <1>1, <2>1, LoginAssumption DEF OneLogin, Logins
  <2>4. LoginTypes'
    BY <1>1, <2>2 DEF LoginTypes
  <2>5. OneLogin'
    BY <1>1, <2>2, <2>3 DEF OneLogin, LoginTypes
  <2> QED BY <1>1, <2>4, <2>5, LoginAlone
<1> QED
  BY <1>2, <1>3

\* An answer that settles keeps its type.
LEMMA SettledType ==
    ASSUME LoginTypes, NEW n \in Logins, NEW v \in {"url", "error"}
    PROVE  Settled(n, v) \in [Logins -> {"pending", "url", "error"}]
BY DEF LoginTypes, Settled

LEMMA UrlScannedKeepsIInv ==
    ASSUME IInv, NEW n \in Logins, UrlScanned(n)
    PROVE  IInv'
<1> USE DEF UrlScanned
<1>1. LoginTypes /\ OneLogin /\ host \in Owners \cup {None} /\ loginProc = n
  BY DEF IInv, GateTypes, OneLogin
<1>2. LoginTypes'
  BY <1>1, SettledType DEF LoginTypes
<1>3. OneLogin'
  BY <1>1 DEF OneLogin
<1> QED
  BY <1>1, <1>2, <1>3, LoginAlone

LEMMA UrlTimeoutKeepsIInv ==
    ASSUME IInv, NEW n \in Logins, UrlTimeout(n)
    PROVE  IInv'
<1> USE DEF UrlTimeout
<1>1. LoginTypes /\ OneLogin /\ host \in Owners \cup {None}
  BY DEF IInv, GateTypes
<1>2. LoginTypes'
  BY <1>1, SettledType DEF LoginTypes
<1>3. OneLogin'
  BY <1>1 DEF OneLogin
<1> QED
  BY <1>1, <1>2, <1>3, LoginAlone

LEMMA NoChildKeepsIInv ==
    ASSUME IInv, NEW n \in Logins, NoChild(n)
    PROVE  IInv'
<1> USE DEF NoChild
<1>1. LoginTypes /\ OneLogin /\ host \in Owners \cup {None}
  BY DEF IInv, GateTypes
<1>2. LoginTypes'
  BY <1>1, SettledType DEF LoginTypes
<1>3. OneLogin'
  BY <1>1 DEF OneLogin, LoginTypes
<1> QED
  BY <1>1, <1>2, <1>3, LoginAlone

LEMMA LoginEndsKeepsIInv ==
    ASSUME IInv, NEW n \in Logins, LoginEnds(n)
    PROVE  IInv'
<1> USE DEF LoginEnds
<1>1. LoginTypes /\ OneLogin /\ host' \in Owners \cup {None}
  BY DEF IInv, GateTypes
<1>2. PICK end \in {"done", "failed"} : child' = [child EXCEPT ![n] = end]
  OBVIOUS
<1>3. LoginTypes'
  BY <1>1, <1>2 DEF LoginTypes
<1>4. OneLogin'
  BY <1>1, <1>2 DEF OneLogin, LoginTypes
<1> QED
  BY <1>1, <1>3, <1>4, LoginAlone

\* No other child is in flight, and a refresh that starts finds the timer as it is.
LEMMA LoginClosedKeepsIInv ==
    ASSUME IInv, NEW n \in Logins, LoginClosed(n)
    PROVE  IInv'
<1>1. /\ GateTypes /\ LoginTypes /\ OneLogin /\ host' \in Owners \cup {None}
      /\ UNCHANGED <<gate, calls, timer, stopped, host>>
      /\ loginError' \in {"none", "no child", "not completed"}
  BY DEF IInv, GateTypes, LoginTypes, LoginClosed
<1>2. \A m \in Logins : child[m] \in {"running", "done", "failed"} => m = n
  BY <1>1 DEF OneLogin, LoginClosed
<1>3. LoginTypes' /\ OneLogin'
  BY <1>1, <1>2, SettledType DEF LoginTypes, OneLogin, LoginClosed,
                                     SettledAtClose, UrlForgotten
<1>4. CASE child[n] # "done"
  BY <1>1, <1>3, <1>4, LoginAlone DEF LoginClosed
<1>5. CASE child[n] = "done"
  <2>1. Refresh("login")
    BY <1>5 DEF LoginClosed
  <2>2. /\ refreshes' \in [Slots -> InProgress \cup {None}]
        /\ \A s \in InFlight : refreshes'[s] = refreshes[s]
    BY <1>1, <2>1, RefreshType
  <2>3. PICK s \in Slots \ InFlight :
            refreshes'[s] = Asking("login") /\ InFlight' = InFlight \cup {s}
    BY <1>1, <2>1, RefreshType
  <2>4. Asking("login").was = loggedIn
    BY DEF Asking
  <2>5. GateTypes' /\ NameIsGated'
    BY <1>1, <2>2 DEF IInv, GateTypes, NameIsGated, gate
  <2>6. PollsUntilStopped'
    BY <1>1, <2>2, <2>3 DEF IInv, PollsUntilStopped, InFlight
  <2>7. Paced'
    <3> SUFFICES ASSUME ~crossed', ~stopped
                 PROVE  /\ InFlight' = {s}
                        /\ timer = Cadence(Asking("login").was)
      BY <1>1, <2>3 DEF Paced
    <3>1. ~crossed /\ InFlight = {}
      BY <2>1 DEF Refresh
    <3> QED BY <2>3, <2>4, <3>1 DEF IInv, Paced
  <2> QED BY <1>3, <2>5, <2>6, <2>7 DEF IInv
<1> QED
  BY <1>4, <1>5

LEMMA StopKeepsIInv == ASSUME IInv, Stop PROVE IInv'
<1> USE DEF Stop
<1>1. GateTypes /\ LoginTypes /\ OneLogin
  BY DEF IInv
<1>2. GateTypes' /\ LoginTypes'
  BY <1>1 DEF GateTypes, LoginTypes, gate
<1>3. OneLogin'
  BY <1>1 DEF OneLogin, LoginTypes
<1>4. NameIsGated' /\ PollsUntilStopped' /\ Paced'
  BY DEF IInv, NameIsGated, PollsUntilStopped, Paced, gate
<1> QED
  BY <1>2, <1>3, <1>4 DEF IInv

LEMMA HostFlipsKeepsIInv == ASSUME IInv, HostFlips PROVE IInv'
<1> USE DEF HostFlips
<1>1. LoginTypes' /\ OneLogin'
  BY SameLogin
<1> QED
  BY <1>1, LoginAlone

LEMMA StutterKeepsIInv == ASSUME IInv, UNCHANGED vars PROVE IInv'
<1>1. LoginTypes' /\ OneLogin' /\ host' \in Owners \cup {None}
  BY SameLogin DEF vars, IInv, GateTypes
<1> QED
  BY <1>1, LoginAlone DEF vars

LEMMA NextKeepsIInv == IInv /\ [Next]_vars => IInv'
<1> SUFFICES ASSUME IInv, [Next]_vars PROVE IInv'
  OBVIOUS
<1>1. ASSUME NEW s \in Slots, Looks(s) \/ Answered(s) \/ Named(s) PROVE IInv'
  BY <1>1, LooksKeepsIInv, AnsweredKeepsIInv, NamedKeepsIInv
<1>2. CASE TimerFires
  BY <1>2, TimerFiresKeepsIInv
<1>3. ASSUME NEW c \in Calls, Call(c) PROVE IInv'
  BY <1>3, CallKeepsIInv
<1>4. ASSUME NEW n \in Logins, UrlScanned(n) \/ UrlTimeout(n) \/ NoChild(n) PROVE IInv'
  BY <1>4, UrlScannedKeepsIInv, UrlTimeoutKeepsIInv, NoChildKeepsIInv
<1>5. ASSUME NEW n \in Logins, LoginEnds(n) \/ LoginClosed(n) PROVE IInv'
  BY <1>5, LoginEndsKeepsIInv, LoginClosedKeepsIInv
<1>6. CASE Stop
  BY <1>6, StopKeepsIInv
<1>7. CASE HostFlips
  BY <1>7, HostFlipsKeepsIInv
<1>8. CASE UNCHANGED vars
  BY <1>8, StutterKeepsIInv
<1> QED
  BY <1>1, <1>2, <1>3, <1>4, <1>5, <1>6, <1>7, <1>8 DEF Next

LEMMA Invariants == Spec => []IInv
<1> QED
  BY InitIInv, NextKeepsIInv, PTL DEF Spec

-----------------------------------------------------------------------------

\* The login gate's variables keep their types (createAuth()).
THEOREM TypesKept == Spec => []TypeOK
<1>1. IInv => TypeOK
  BY Types DEF IInv
<1> QED
  BY <1>1, Invariants, PTL

\* startLogin(): however many visitors ask, and whatever ended or timed out before, one
\* `yeet login' is in flight at a time, and it is the one the server knows.
THEOREM OneLoginAtATime == Spec => []OneLogin
<1>1. IInv => OneLogin
  BY DEF IInv
<1> QED
  BY <1>1, Invariants, PTL

\* refresh(): whichever of any number of overlapping refreshes answers last, no name is
\* shown of a host that is logged out.
THEOREM NamesAreGated == Spec => []NameIsGated
<1>1. IInv => NameIsGated
  BY DEF IInv
<1> QED
  BY <1>1, Invariants, PTL

\* tick() and schedule(): the poll neither dies before stop() nor survives it.
THEOREM PollEndsWithStop == Spec => []PollsUntilStopped
<1>1. IInv => PollsUntilStopped
  BY DEF IInv
<1> QED
  BY <1>1, Invariants, PTL

\* schedule(): the poll's pace is the one of the login state, as long as refreshes do not
\* overlap.
THEOREM PaceIsLoginState == Spec => []CadenceFollows
<1>1. IInv => CadenceFollows
  BY DEF IInv, Paced, CadenceFollows
<1> QED
  BY <1>1, Invariants, PTL
=============================================================================
