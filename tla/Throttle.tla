------------------------------ MODULE Throttle ------------------------------
(***************************************************************************)
(* What the throttle of the alerts promises to whoever receives them, with  *)
(* no rules, snapshots, files or processes: for each thing that is watched   *)
(* there is a quiet period, which has to start for an alert to leave and     *)
(* cannot start again while it lasts.  Alerts implements it, with its crashes *)
(* and restarts as steps in which nothing happens here.                       *)
(***************************************************************************)
EXTENDS Integers

CONSTANTS
    Subjects,     (* the things that are watched                               *)
    MinQuiet      (* the shortest quiet period                                 *)

VARIABLES
    now,          (* the clock                                                 *)
    quietSince,   (* when the quiet period of a subject began, or Never        *)
    left          (* when the last alert about it left, or Never: nothing is   *)
                  (* owed to an alert that the throttle has let go of          *)

vars == <<now, quietSince, left>>

Never == -1
Times == Nat \cup {Never}

Init ==
    /\ now = 0
    /\ quietSince = [s \in Subjects |-> Never]
    /\ left = [s \in Subjects |-> Never]

Tick ==
    /\ now' = now + 1
    /\ UNCHANGED <<quietSince, left>>

Over(s) == quietSince[s] = Never \/ now - quietSince[s] >= MinQuiet

Same(s) == quietSince'[s] = quietSince[s] /\ left'[s] = left[s]

\* A quiet period begins, with or without an alert that leaves: never an alert whose
\* quiet period does not begin.
Begins(s) ==
    /\ Over(s)
    /\ quietSince'[s] = now
    /\ left'[s] \in {left[s], now}

\* A subject is let go of: nobody watches it any more, or what was known of it is lost.
LetGo(s) == left'[s] = Never

\* Several subjects may change at once: a snapshot is evaluated for all of them.
Change ==
    /\ quietSince' \in [Subjects -> Times]
    /\ left' \in [Subjects -> Times]
    /\ \A s \in Subjects : Same(s) \/ Begins(s) \/ LetGo(s)
    /\ UNCHANGED now

Next == Tick \/ Change

Spec == Init /\ [][Next]_vars

\* What this is for: two alerts about one thing are at least the shortest quiet period
\* apart, for as long as the thing is watched.
Spaced ==
    [][\A s \in Subjects :
           (left[s] # Never /\ left'[s] # Never /\ left'[s] # left[s])
               => left'[s] - left[s] >= MinQuiet]_vars
=============================================================================
