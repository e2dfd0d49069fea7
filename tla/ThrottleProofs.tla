--------------------------- MODULE ThrottleProofs ---------------------------
(***************************************************************************)
(* What the abstract throttle promises follows from what it is.              *)
(***************************************************************************)
EXTENDS Throttle, TLAPS

\* An alert that has not been let go of left no later than the quiet period began.
LeftInQuiet ==
    /\ now \in Nat
    /\ quietSince \in [Subjects -> Times]
    /\ left \in [Subjects -> Times]
    /\ \A s \in Subjects :
           left[s] # Never => quietSince[s] # Never /\ left[s] <= quietSince[s]

LEMMA ChangeKeepsLeftInQuiet ==
    ASSUME MinQuiet \in Nat, LeftInQuiet, Change
    PROVE  LeftInQuiet'
<1> USE DEF LeftInQuiet, Change
<1>1. SUFFICES ASSUME NEW s \in Subjects, left'[s] # Never
               PROVE  quietSince'[s] # Never /\ left'[s] <= quietSince'[s]
  OBVIOUS
<1>2. CASE Same(s)
  BY <1>1, <1>2 DEF Same
<1>3. CASE Begins(s)
  <2>1. now \in Nat /\ quietSince'[s] = now /\ left'[s] \in {left[s], now}
    BY <1>3 DEF Begins
  <2>2. CASE left'[s] = now
    BY <2>1, <2>2 DEF Never
  <2>3. CASE left'[s] = left[s]
    BY <1>1, <1>3, <2>1, <2>3 DEF Begins, Over, Times, Never
  <2> QED BY <2>1, <2>2, <2>3
<1> QED
  BY <1>1, <1>2, <1>3 DEF LetGo

\* Two alerts about one thing are the shortest quiet period apart for as long as the
\* thing is watched: what fire() in alerts.js has the cooldown for.
THEOREM IsSpaced ==
    ASSUME MinQuiet \in Nat
    PROVE  Spec => Spaced
<1>1. Init => LeftInQuiet
  BY DEF Init, LeftInQuiet, Times
<1>2. LeftInQuiet /\ [Next]_vars => LeftInQuiet'
  <2>1. ASSUME LeftInQuiet, Tick
        PROVE  LeftInQuiet'
    BY <2>1 DEF LeftInQuiet, Tick
  <2>2. ASSUME LeftInQuiet, UNCHANGED vars
        PROVE  LeftInQuiet'
    BY <2>2 DEF LeftInQuiet, vars
  <2> QED BY <2>1, <2>2, ChangeKeepsLeftInQuiet DEF Next
<1>3. LeftInQuiet /\ [Next]_vars =>
          [\A s \in Subjects :
               (left[s] # Never /\ left'[s] # Never /\ left'[s] # left[s])
                   => left'[s] - left[s] >= MinQuiet]_vars
  <2> SUFFICES ASSUME LeftInQuiet, Next, NEW s \in Subjects,
                      left[s] # Never, left'[s] # Never, left'[s] # left[s]
               PROVE  left'[s] - left[s] >= MinQuiet
    BY DEF vars
  <2>1. Begins(s)
    BY DEF Next, Tick, Change, Same, LetGo
  <2> QED BY <2>1 DEF Begins, Over, LeftInQuiet, Times, Never
<1> QED
  BY <1>1, <1>2, <1>3, PTL DEF Spec, Spaced
=============================================================================
