---------------------------- MODULE AlertsProofs ----------------------------
(***************************************************************************)
(* What holds of Alerts for any endpoints, codes, inputs and bounds: types, *)
(* one rule per identity, timing on disk, and the throttle across crashes;   *)
(* that Alerts implements Throttle; and that each match is counted once.     *)
(***************************************************************************)
EXTENDS Alerts, FiniteSums

-----------------------------------------------------------------------------
(* The inductive invariant.                                                  *)

\* No two entries of a rules file are the same rule.
FileHasOneRulePerIdentity ==
    \A i, j \in Ids :
        (file[i] # NoRule /\ file[j] # NoRule /\ Identity(file[i]) = Identity(file[j]))
            => i = j

\* The rules file is what the rules are.
FileIsCurrent == up => file = ConfigsOf(rules)

\* An alert that counts against a throttle belongs to a rule, in the file ...
SentIsOnFile ==
    \A k \in Identities : sent[k] # Never =>
        \E i \in Ids : file[i] # NoRule /\ Identity(file[i]) = k

\* ... and that rule's timing, in memory or (while the server is down) on disk, is no
\* older than the alert.
SentIsHonoured ==
    IF up THEN \A i \in Live : sent[Identity(rules[i].config)] # Never =>
                   /\ rules[i].lastFiredAt # Never
                   /\ sent[Identity(rules[i].config)] <= rules[i].lastFiredAt
          ELSE \A i \in Ids : file[i] # NoRule /\ sent[Identity(file[i])] # Never =>
                   /\ stateFile[Identity(file[i])] # NoTiming
                   /\ stateFile[Identity(file[i])].lastFiredAt # Never
                   /\ sent[Identity(file[i])] <= stateFile[Identity(file[i])].lastFiredAt

\* The next id is no rule's.
NextIdIsFree == nextId \in Nat /\ \A i \in Live : i < nextId

IInv ==
    /\ TimingTypeOK
    /\ NextIdIsFree
    /\ OneRulePerIdentity
    /\ TimingIsSaved
    /\ FileHasOneRulePerIdentity
    /\ FileIsCurrent
    /\ SentIsOnFile
    /\ SentIsHonoured

-----------------------------------------------------------------------------
(* Configurations and rules.                                                 *)

LEMMA AcceptedType ==
    \A c \in Accepted : /\ c \in Configs
                        /\ c.cooldown \in Nat
                        /\ Identity(c) \in Identities
<1>1. SUFFICES ASSUME NEW in \in Inputs
               PROVE  Normal(in) \in Configs /\ Normal(in).cooldown \in Nat
  BY DEF Accepted, Identities
<1>2. in \in Configs
  BY AlertsAssumption
<1>3. \A n \in Int : (IF n < MinCooldown THEN MinCooldown ELSE n) \in Nat
  BY AlertsAssumption
<1> QED
  BY <1>2, <1>3 DEF Configs, Normal

LEMMA RuleIsNotNoRule == \A r \in Rules : r # NoRule
BY AcceptedType, AlertsAssumption DEF Rules, Never, Errors

LEMMA ConfigIsNotNoRule == \A c \in Accepted : c # NoRule
BY AcceptedType, AlertsAssumption

LEMMA TimingIsNotNoTiming == \A t \in Timings : t # NoTiming
BY AlertsAssumption DEF Timings, Never

LEMMA FreshType ==
    ASSUME NEW c \in Accepted, NEW v \in Nat
    PROVE  /\ Fresh(c, v) \in Rules
           /\ Fresh(c, v) # NoRule
           /\ Fresh(c, v).config = c
           /\ Fresh(c, v).lastFiredAt = Never
           /\ Fresh(c, v).lastError = "none"
BY RuleIsNotNoRule DEF Fresh, Rules, Never, Errors

\* A table of rules, and that no two of its rules are the same.
Table(rs) == rs \in [Ids -> Rules \cup {NoRule}]
Distinct(rs) == \A i, j \in LiveIn(rs) :
                    Identity(rs[i].config) = Identity(rs[j].config) => i = j

LEMMA ConfigsOfType ==
    ASSUME NEW rs, Table(rs)
    PROVE  /\ ConfigsOf(rs) \in [Ids -> Accepted \cup {NoRule}]
           /\ \A i \in Ids : ConfigsOf(rs)[i] # NoRule <=> i \in LiveIn(rs)
           /\ \A i \in LiveIn(rs) : ConfigsOf(rs)[i] = rs[i].config
BY ConfigIsNotNoRule, RuleIsNotNoRule DEF Table, ConfigsOf, LiveIn, Rules

\* saveState() writes, for each rule that has fired, that rule's own timing.
LEMMA SavedStateType ==
    ASSUME NEW rs, Table(rs), Distinct(rs)
    PROVE  SavedState(rs) \in [Identities -> Timings \cup {NoTiming}]
<1> DEFINE Holders(k) == {i \in LiveIn(rs) :
                            /\ Identity(rs[i].config) = k
                            /\ rs[i].lastFiredAt # Never \/ rs[i].lastError # "none"}
<1>1. SUFFICES ASSUME NEW k \in Identities, Holders(k) # {}
               PROVE  TimingOf(rs[CHOOSE i \in Holders(k) : \A j \in Holders(k) : j <= i])
                          \in Timings
  BY Zenon DEF SavedState
<1>2. PICK h \in Holders(k) : TRUE
  BY <1>1
<1>3. Holders(k) = {h}
  BY <1>2 DEF Distinct
<1>4. h \in Nat
  BY AlertsAssumption DEF LiveIn
<1>5. (CHOOSE i \in Holders(k) : \A j \in Holders(k) : j <= i) = h
  <2> HIDE DEF Holders
  <2> QED BY <1>2, <1>3, <1>4
<1>6. rs[h] \in Rules
  BY <1>2 DEF Table, LiveIn
<1> QED
  BY <1>5, <1>6 DEF TimingOf, Rules, Timings

LEMMA SavedStateEntry ==
    ASSUME NEW rs, Table(rs), Distinct(rs),
           NEW i \in LiveIn(rs), rs[i].lastFiredAt # Never
    PROVE  SavedState(rs)[Identity(rs[i].config)] = TimingOf(rs[i])
<1> DEFINE Holders(k) == {j \in LiveIn(rs) :
                            /\ Identity(rs[j].config) = k
                            /\ rs[j].lastFiredAt # Never \/ rs[j].lastError # "none"}
           k == Identity(rs[i].config)
<1>1. k \in Identities
  BY AcceptedType DEF Table, LiveIn, Rules
<1>2. Holders(k) = {i}
  BY DEF Distinct
<1>3. i \in Nat
  BY AlertsAssumption DEF LiveIn
<1>4. (CHOOSE j \in Holders(k) : \A l \in Holders(k) : l <= j) = i
  <2> HIDE DEF Holders, k
  <2> QED BY <1>2, <1>3
<1>5. SavedState(rs)[k] = IF Holders(k) = {} THEN NoTiming
          ELSE TimingOf(rs[CHOOSE j \in Holders(k) : \A l \in Holders(k) : l <= j])
  BY <1>1, Zenon DEF SavedState
<1> QED
  <2> HIDE DEF Holders, k
  <2>1. SavedState(rs)[k] = TimingOf(rs[i])
    BY <1>2, <1>4, <1>5
  <2> QED BY <2>1 DEF k

-----------------------------------------------------------------------------
(* Every step keeps the invariant.                                           *)

LEMMA InitIInv == Init => IInv
<1> SUFFICES ASSUME Init PROVE IInv
  OBVIOUS
<1> USE DEF Init
<1>1. TimingTypeOK
  BY DEF TimingTypeOK, TornFile, TornState, Never
<1>2. Live = {} /\ LiveIn(rules) = {} /\ \A i \in Ids : file[i] = NoRule
  BY DEF Live, LiveIn, TornFile
<1>3. FileIsCurrent
  BY DEF FileIsCurrent, ConfigsOf, TornFile
<1>4. \A k \in Identities : sent[k] = Never
  OBVIOUS
<1>5. SentIsOnFile
  BY <1>4 DEF SentIsOnFile
<1>6. SentIsHonoured
  BY <1>2 DEF SentIsHonoured
<1>7. OneRulePerIdentity /\ TimingIsSaved
  BY <1>2 DEF OneRulePerIdentity, TimingIsSaved
<1>8. FileHasOneRulePerIdentity /\ NextIdIsFree
  BY <1>2 DEF FileHasOneRulePerIdentity, NextIdIsFree
<1> QED
  BY <1>1, <1>3, <1>5, <1>6, <1>7, <1>8 DEF IInv

\* What a step of the running server has to show.
LEMMA Running ==
    ASSUME up', now' \in Nat, Table(rules'), Distinct(rules'),
           file' = ConfigsOf(rules'),
           stateFile' \in [Identities -> Timings \cup {NoTiming}],
           sent' \in [Identities -> Nat \cup {Never}],
           deliveries' \subseteq [rid : Ids, ver : Nat, at : Nat, identity : Identities],
           \A i \in LiveIn(rules') : rules'[i].lastFiredAt # Never =>
               stateFile'[Identity(rules'[i].config)] = TimingOf(rules'[i]),
           \A k \in Identities : sent'[k] # Never =>
               \E i \in LiveIn(rules') : Identity(rules'[i].config) = k,
           \A i \in LiveIn(rules') : sent'[Identity(rules'[i].config)] # Never =>
               /\ rules'[i].lastFiredAt # Never
               /\ sent'[Identity(rules'[i].config)] <= rules'[i].lastFiredAt,
           up' \in BOOLEAN, nextId' \in Nat, \A i \in LiveIn(rules') : i < nextId'
    PROVE  IInv'
<1>1. /\ file' \in [Ids -> Accepted \cup {NoRule}]
      /\ \A i \in Ids : file'[i] # NoRule <=> i \in LiveIn(rules')
      /\ \A i \in LiveIn(rules') : file'[i] = rules'[i].config
  BY ConfigsOfType
<1>2. TimingTypeOK'
  BY <1>1 DEF TimingTypeOK, Table
<1>3. OneRulePerIdentity' /\ TimingIsSaved'
  BY DEF OneRulePerIdentity, TimingIsSaved, Distinct, Live, LiveIn
<1>4. FileHasOneRulePerIdentity'
  <2> SUFFICES ASSUME NEW i \in LiveIn(rules'), NEW j \in LiveIn(rules'),
                      Identity(file'[i]) = Identity(file'[j])
               PROVE  i = j
    BY <1>1 DEF FileHasOneRulePerIdentity
  <2> QED BY <1>1 DEF Distinct
<1>5. SentIsOnFile'
  <2> SUFFICES ASSUME NEW k \in Identities, sent'[k] # Never
               PROVE  \E i \in Ids : file'[i] # NoRule /\ Identity(file'[i]) = k
    BY DEF SentIsOnFile
  <2>1. PICK i \in LiveIn(rules') : Identity(rules'[i].config) = k
    OBVIOUS
  <2> QED BY <1>1, <2>1 DEF LiveIn
<1>6. SentIsHonoured'
  BY DEF SentIsHonoured, Live, LiveIn
<1>7. NextIdIsFree'
  BY DEF NextIdIsFree, Live, LiveIn
<1> QED
  BY <1>2, <1>3, <1>4, <1>5, <1>6, <1>7 DEF IInv, FileIsCurrent

\* Steps that leave rules, files and alerts alone.
LEMMA Elsewhere ==
    IInv /\ now' \in Nat /\ UNCHANGED <<up, rules, nextId, deliveries, disk, sent>>
        => IInv'
BY DEF IInv, TimingTypeOK, NextIdIsFree, OneRulePerIdentity, TimingIsSaved, FileHasOneRulePerIdentity,
   FileIsCurrent, SentIsOnFile, SentIsHonoured, Live, disk

\* What the invariant says while the server runs, in the terms of the lemmas.
LEMMA RunningInv ==
    ASSUME IInv, up
    PROVE  /\ Table(rules) /\ Distinct(rules)
           /\ file = ConfigsOf(rules)
           /\ \A i \in LiveIn(rules) :
                 /\ rules[i] \in Rules
                 /\ Identity(rules[i].config) \in Identities
                 /\ rules[i].lastFiredAt # Never =>
                       stateFile[Identity(rules[i].config)] = TimingOf(rules[i])
                 /\ sent[Identity(rules[i].config)] # Never =>
                       /\ rules[i].lastFiredAt # Never
                       /\ sent[Identity(rules[i].config)] <= rules[i].lastFiredAt
           /\ \A k \in Identities : sent[k] # Never =>
                 \E i \in LiveIn(rules) : Identity(rules[i].config) = k
<1>1. Table(rules) /\ Distinct(rules) /\ file = ConfigsOf(rules)
  BY DEF IInv, TimingTypeOK, OneRulePerIdentity, FileIsCurrent, Table, Distinct, Live, LiveIn
<1>2. \A i \in LiveIn(rules) : rules[i] \in Rules /\ Identity(rules[i].config) \in Identities
  BY <1>1, AcceptedType DEF Table, LiveIn, Rules
<1>3. \A i \in LiveIn(rules) :
          /\ rules[i].lastFiredAt # Never =>
                stateFile[Identity(rules[i].config)] = TimingOf(rules[i])
          /\ sent[Identity(rules[i].config)] # Never =>
                /\ rules[i].lastFiredAt # Never
                /\ sent[Identity(rules[i].config)] <= rules[i].lastFiredAt
  BY DEF IInv, TimingIsSaved, SentIsHonoured, Live, LiveIn
<1>4. \A k \in Identities : sent[k] # Never =>
          \E i \in LiveIn(rules) : Identity(rules[i].config) = k
  BY <1>1, ConfigsOfType DEF IInv, SentIsOnFile
<1> QED BY <1>1, <1>2, <1>3, <1>4

LEMMA OtherStepsKeepIInv ==
    ASSUME IInv,
           \/ Tick
           \/ \E e \in Endpoints, code \in Codes : Response(e, code)
           \/ Respawn
           \/ Reset
           \/ TakeBaseline
    PROVE  IInv'
<1>1. now' \in Nat
  BY DEF IInv, TimingTypeOK, Tick, Response, Respawn, Reset, TakeBaseline
<1>2. UNCHANGED <<up, rules, nextId, deliveries, disk, sent>>
  BY DEF Tick, Response, Respawn, Reset, TakeBaseline
<1> QED
  BY <1>1, <1>2, Elsewhere

\* Editing rules.  Nothing was sent for what a new rule watches: no rule watched it.
LEMMA AddRuleKeepsIInv ==
    ASSUME IInv, NEW c \in Accepted, AddRule(c)
    PROVE  IInv'
<1> USE DEF AddRule, CanAdd
<1>1. up /\ up' = TRUE /\ UNCHANGED <<now, deliveries, stateFile, sent>>
  BY DEF IInv, TimingTypeOK
<1>2. Table(rules) /\ Distinct(rules)
  BY <1>1, RunningInv
<1>3. /\ Fresh(c, 0) \in Rules
      /\ Fresh(c, 0) # NoRule
      /\ Fresh(c, 0).config = c
      /\ Fresh(c, 0).lastFiredAt = Never
  BY FreshType
<1>4. nextId \in Ids /\ nextId \in Nat /\ nextId' = nextId + 1 /\ nextId \notin LiveIn(rules)
  BY DEF IInv, NextIdIsFree, Live, LiveIn
<1>5. \A i \in Ids : rules'[i] = IF i = nextId THEN Fresh(c, 0) ELSE rules[i]
  BY <1>2, <1>4 DEF Table, Adding
<1>6. Table(rules')
  BY <1>2, <1>3 DEF Table, Adding
<1>7. /\ LiveIn(rules') = LiveIn(rules) \cup {nextId}
      /\ rules'[nextId] = Fresh(c, 0)
      /\ \A i \in LiveIn(rules) : rules'[i] = rules[i]
  BY <1>3, <1>4, <1>5 DEF LiveIn
<1>8. \A i \in LiveIn(rules) : Identity(rules[i].config) # Identity(c)
  BY <1>4 DEF Taken, Live, LiveIn
<1>9. Distinct(rules')
  BY <1>2, <1>3, <1>7, <1>8 DEF Distinct
<1>10. sent[Identity(c)] = Never
  BY <1>1, <1>8, RunningInv, AcceptedType
<1>11. \A i \in LiveIn(rules') : rules'[i].lastFiredAt # Never =>
           stateFile'[Identity(rules'[i].config)] = TimingOf(rules'[i])
  BY <1>1, <1>3, <1>7, RunningInv
<1>12. \A k \in Identities : sent'[k] # Never =>
           \E i \in LiveIn(rules') : Identity(rules'[i].config) = k
  BY <1>1, <1>7, RunningInv
<1>13. \A i \in LiveIn(rules') : sent'[Identity(rules'[i].config)] # Never =>
           /\ rules'[i].lastFiredAt # Never
           /\ sent'[Identity(rules'[i].config)] <= rules'[i].lastFiredAt
  BY <1>1, <1>3, <1>7, <1>10, RunningInv
<1>14. \A i \in LiveIn(rules') : i < nextId'
  <2>1. \A i \in LiveIn(rules) : i < nextId /\ i \in Nat
    BY AlertsAssumption DEF IInv, NextIdIsFree, Live, LiveIn
  <2>2. \A i \in LiveIn(rules') : i \in LiveIn(rules) \/ i = nextId
    BY <1>7
  <2>3. nextId' = nextId + 1 /\ nextId \in Nat
    BY <1>4
  <2> QED BY <2>1, <2>2, <2>3
<1>15. TimingTypeOK
  BY DEF IInv
<1> QED
  BY <1>1, <1>4, <1>6, <1>9, <1>11, <1>12, <1>13, <1>14, <1>15, Running DEF TimingTypeOK

\* A step of the running server that saves the timing of the rules it leaves.
LEMMA RunningAndSaving ==
    ASSUME up', now' \in Nat, Table(rules'), Distinct(rules'),
           file' = ConfigsOf(rules'),
           stateFile' = SavedState(rules'),
           sent' \in [Identities -> Nat \cup {Never}],
           deliveries' \subseteq [rid : Ids, ver : Nat, at : Nat, identity : Identities],
           \A k \in Identities : sent'[k] # Never =>
               \E i \in LiveIn(rules') : Identity(rules'[i].config) = k,
           \A i \in LiveIn(rules') : sent'[Identity(rules'[i].config)] # Never =>
               /\ rules'[i].lastFiredAt # Never
               /\ sent'[Identity(rules'[i].config)] <= rules'[i].lastFiredAt,
           up' \in BOOLEAN, nextId' \in Nat, \A i \in LiveIn(rules') : i < nextId'
    PROVE  IInv'
<1>1. stateFile' \in [Identities -> Timings \cup {NoTiming}]
  BY SavedStateType
<1>2. \A i \in LiveIn(rules') : rules'[i].lastFiredAt # Never =>
          stateFile'[Identity(rules'[i].config)] = TimingOf(rules'[i])
  BY SavedStateEntry
<1> QED
  BY <1>1, <1>2, Running

LEMMA RemoveRuleKeepsIInv ==
    ASSUME IInv, NEW r \in Ids, RemoveRule(r)
    PROVE  IInv'
<1> USE DEF RemoveRule
<1>1. TimingTypeOK /\ NextIdIsFree
  BY DEF IInv
<1>2. up /\ up' = TRUE /\ UNCHANGED <<now, deliveries, nextId>> /\ nextId \in Nat
  BY <1>1 DEF TimingTypeOK, NextIdIsFree
<1>3. Table(rules) /\ Distinct(rules) /\ r \in LiveIn(rules)
  BY <1>2, RunningInv DEF LiveIn
<1>4. Table(rules')
  BY <1>3 DEF Table, Removing
<1>5. /\ LiveIn(rules') = LiveIn(rules) \ {r}
      /\ \A i \in LiveIn(rules') : rules'[i] = rules[i]
  BY <1>3 DEF Table, Removing, LiveIn
<1>6. Distinct(rules')
  BY <1>3, <1>5 DEF Distinct
<1>7. Identity(rules[r].config) \in Identities
  BY <1>2, <1>3, RunningInv
<1>8. \A k \in Identities : sent'[k] = IF k = Identity(rules[r].config) THEN Never ELSE sent[k]
  BY <1>1, <1>7 DEF TimingTypeOK
<1>9. sent' \in [Identities -> Nat \cup {Never}]
  BY <1>1 DEF TimingTypeOK
<1>10. \A k \in Identities : sent'[k] # Never =>
           \E i \in LiveIn(rules') : Identity(rules'[i].config) = k
  BY <1>2, <1>5, <1>8, RunningInv
<1>11. \A i \in LiveIn(rules') : sent'[Identity(rules'[i].config)] # Never =>
           /\ rules'[i].lastFiredAt # Never
           /\ sent'[Identity(rules'[i].config)] <= rules'[i].lastFiredAt
  BY <1>2, <1>5, <1>8, RunningInv
<1>12. \A i \in LiveIn(rules') : i < nextId'
  BY <1>1, <1>2, <1>5 DEF NextIdIsFree, Live, LiveIn
<1> QED
  BY <1>1, <1>2, <1>4, <1>6, <1>9, <1>10, <1>11, <1>12, RunningAndSaving DEF TimingTypeOK

\* An edited rule: its row of the table, and what stays the same of the others.
LEMMA UpdatingRule ==
    ASSUME IInv, up, NEW r \in LiveIn(rules), NEW c \in Accepted, ~Taken(c, r)
    PROVE  /\ Table(Updating(r, c)) /\ Distinct(Updating(r, c))
           /\ LiveIn(Updating(r, c)) = LiveIn(rules)
           /\ \A i \in LiveIn(rules) \ {r} : Updating(r, c)[i] = rules[i]
           /\ Updating(r, c)[r].config = c
           /\ Updating(r, c)[r].lastFiredAt =
                  IF SameThing(r, c) THEN rules[r].lastFiredAt ELSE Never
           /\ \A i \in LiveIn(rules) \ {r} : Identity(rules[i].config) # Identity(c)
<1> DEFINE new == IF SameThing(r, c) THEN [rules[r] EXCEPT !.config = c, !.ver = @ + 1]
                                     ELSE Fresh(c, rules[r].ver + 1)
<1>1. Table(rules) /\ Distinct(rules) /\ rules[r] \in Rules /\ r \in Ids
  BY RunningInv DEF LiveIn
<1>2. rules[r].ver + 1 \in Nat
  BY <1>1 DEF Rules
<1>4. new \in Rules /\ new # NoRule /\ new.config = c
      /\ new.lastFiredAt = IF SameThing(r, c) THEN rules[r].lastFiredAt ELSE Never
  <2>1. CASE SameThing(r, c)
    <3>1. new = [rules[r] EXCEPT !.config = c, !.ver = @ + 1]
      BY <2>1
    <3>2. new \in Rules /\ new.config = c /\ new.lastFiredAt = rules[r].lastFiredAt
      BY <1>1, <1>2, <3>1 DEF Rules
    <3> QED BY <2>1, <3>2, RuleIsNotNoRule
  <2>2. CASE ~SameThing(r, c)
    <3>1. new = Fresh(c, rules[r].ver + 1)
      BY <2>2
    <3> QED BY <1>2, <2>2, <3>1, FreshType
  <2> QED BY <2>1, <2>2
<1>5. Updating(r, c) = [rules EXCEPT ![r] = new]
  BY DEF Updating
<1> HIDE DEF new
<1>6. \A i \in Ids : Updating(r, c)[i] = IF i = r THEN new ELSE rules[i]
  BY <1>1, <1>5 DEF Table
<1>7. Table(Updating(r, c))
  BY <1>1, <1>4, <1>5 DEF Table
<1>8. LiveIn(Updating(r, c)) = LiveIn(rules)
  BY <1>4, <1>6 DEF LiveIn
<1>9. \A i \in LiveIn(rules) \ {r} : Updating(r, c)[i] = rules[i]
  BY <1>6 DEF LiveIn
<1>10. \A i \in LiveIn(rules) \ {r} : Identity(rules[i].config) # Identity(c)
  BY DEF Taken, Live, LiveIn
<1>11. Distinct(Updating(r, c))
  BY <1>1, <1>4, <1>6, <1>8, <1>9, <1>10 DEF Distinct
<1> QED
  BY <1>1, <1>4, <1>6, <1>7, <1>8, <1>9, <1>10, <1>11


LEMMA UpdateRuleKeepsIInv ==
    ASSUME IInv, NEW r \in Ids, NEW c \in Accepted, UpdateRule(r, c)
    PROVE  IInv'
<1> USE DEF UpdateRule, CanUpdate
<1> DEFINE was == Identity(rules[r].config)
<1>1. TimingTypeOK /\ NextIdIsFree
  BY DEF IInv
<1>2. up /\ up' = TRUE /\ UNCHANGED <<now, deliveries, nextId>> /\ nextId \in Nat
  BY <1>1 DEF TimingTypeOK, NextIdIsFree
<1>3. r \in LiveIn(rules) /\ rules' = Updating(r, c) /\ ~Taken(c, r)
  BY DEF LiveIn
<1>4. /\ Table(rules') /\ Distinct(rules')
      /\ LiveIn(rules') = LiveIn(rules)
      /\ \A i \in LiveIn(rules) \ {r} : rules'[i] = rules[i]
      /\ rules'[r].config = c
      /\ rules'[r].lastFiredAt = IF SameThing(r, c) THEN rules[r].lastFiredAt ELSE Never
      /\ \A i \in LiveIn(rules) \ {r} : Identity(rules[i].config) # Identity(c)
  BY <1>2, <1>3, UpdatingRule
<1>5. was \in Identities /\ Identity(c) \in Identities
  BY <1>2, <1>3, RunningInv, AcceptedType
<1>6. \A k \in Identities : sent'[k] = IF ~SameThing(r, c) /\ k \in {was, Identity(c)}
                                      THEN Never ELSE sent[k]
  BY <1>1, <1>5 DEF TimingTypeOK
<1>7. sent' \in [Identities -> Nat \cup {Never}]
  BY <1>1 DEF TimingTypeOK
<1>8. \A k \in Identities : sent'[k] # Never =>
          \E i \in LiveIn(rules') : Identity(rules'[i].config) = k
  <2> SUFFICES ASSUME NEW k \in Identities, sent'[k] # Never
               PROVE  \E i \in LiveIn(rules') : Identity(rules'[i].config) = k
    OBVIOUS
  <2>1. PICK i \in LiveIn(rules) : Identity(rules[i].config) = k
    BY <1>2, <1>6, RunningInv
  <2>2. i = r => SameThing(r, c)
    BY <1>6, <2>1
  <2> QED BY <1>3, <1>4, <2>1, <2>2 DEF SameThing
<1>9. ASSUME NEW i \in LiveIn(rules'), sent'[Identity(rules'[i].config)] # Never
      PROVE  /\ rules'[i].lastFiredAt # Never
             /\ sent'[Identity(rules'[i].config)] <= rules'[i].lastFiredAt
  <2>1. CASE i = r
    <3>1. SameThing(r, c) /\ sent'[Identity(c)] = sent[Identity(c)] /\ Identity(c) = was
      BY <1>4, <1>5, <1>6, <1>9, <2>1 DEF SameThing
    <3> QED BY <1>2, <1>3, <1>4, <1>9, <2>1, <3>1, RunningInv
  <2>2. CASE i # r
    <3>1. i \in LiveIn(rules) /\ rules'[i] = rules[i]
      BY <1>4, <2>2
    <3>2. Identity(rules[i].config) \in Identities
      BY <1>2, <3>1, RunningInv
    <3>3. sent'[Identity(rules[i].config)] = sent[Identity(rules[i].config)]
      BY <1>6, <1>9, <3>1, <3>2
    <3> QED BY <1>2, <1>9, <3>1, <3>3, RunningInv
  <2> QED BY <2>1, <2>2
<1>10. \A i \in LiveIn(rules') : i < nextId'
  BY <1>1, <1>2, <1>4 DEF NextIdIsFree, Live, LiveIn
<1>11. file' = ConfigsOf(rules') /\ stateFile' = SavedState(rules')
  OBVIOUS
<1> QED
  BY <1>1, <1>2, <1>4, <1>7, <1>8, <1>9, <1>10, <1>11, RunningAndSaving DEF TimingTypeOK

-----------------------------------------------------------------------------
(* Firing and delivery.                                                      *)

\* Nothing left in the future.
SentIsPast == \A k \in Identities : sent[k] <= now

\* Firing starts the quiet period of the rules in S and touches nothing else of the table.
LEMMA FiringRules ==
    ASSUME IInv, up, NEW S \in SUBSET LiveIn(rules), NEW deliverable \in BOOLEAN
    PROVE  LET rs == AfterFiring(S, deliverable)
           IN /\ Table(rs) /\ Distinct(rs)
              /\ LiveIn(rs) = LiveIn(rules)
              /\ ConfigsOf(rs) = ConfigsOf(rules)
              /\ \A i \in LiveIn(rules) :
                    /\ rs[i].config = rules[i].config
                    /\ rs[i].lastFiredAt = IF i \in S THEN now ELSE rules[i].lastFiredAt
<1> DEFINE rs == AfterFiring(S, deliverable)
<1>1. Table(rules) /\ Distinct(rules) /\ \A i \in LiveIn(rules) : rules[i] \in Rules
  BY RunningInv
<1>2. now \in Nat
  BY DEF IInv, TimingTypeOK
<1>3. \A i \in S : /\ Fired(rules[i], deliverable) \in Rules
                   /\ Fired(rules[i], deliverable).config = rules[i].config
                   /\ Fired(rules[i], deliverable).lastFiredAt = now
  <2> SUFFICES ASSUME NEW r \in Rules
               PROVE  /\ Fired(r, deliverable) \in Rules
                      /\ Fired(r, deliverable).config = r.config
                      /\ Fired(r, deliverable).lastFiredAt = now
    BY <1>1
  <2>1. (IF deliverable THEN r.lastError ELSE "skipped") \in Errors
    BY DEF Rules, Errors
  <2>2. r.firedCount + 1 \in Nat
    BY DEF Rules
  <2> DEFINE e == IF deliverable THEN r.lastError ELSE "skipped"
  <2>3. Fired(r, deliverable) =
            [r EXCEPT !.lastFiredAt = now, !.firedCount = r.firedCount + 1, !.lastError = e]
    BY DEF Fired
  <2> HIDE DEF e
  <2> QED BY <1>2, <2>1, <2>2, <2>3 DEF Rules, e
<1>4. \A i \in Ids : rs[i] = IF i \in S THEN Fired(rules[i], deliverable) ELSE rules[i]
  BY DEF AfterFiring
<1>5. Table(rs)
  BY <1>1, <1>3 DEF Table, AfterFiring
<1> HIDE DEF rs
<1>6. LiveIn(rs) = LiveIn(rules)
  BY <1>3, <1>4, RuleIsNotNoRule DEF LiveIn
<1>7. \A i \in LiveIn(rules) :
          /\ rs[i].config = rules[i].config
          /\ rs[i].lastFiredAt = IF i \in S THEN now ELSE rules[i].lastFiredAt
  BY <1>3, <1>4 DEF LiveIn
<1>8. Distinct(rs)
  BY <1>1, <1>6, <1>7 DEF Distinct
<1>9. ConfigsOf(rs) = ConfigsOf(rules)
  BY <1>6, <1>7 DEF ConfigsOf, LiveIn
<1> QED
  BY <1>5, <1>6, <1>7, <1>8, <1>9 DEF rs

LEMMA MarkingARule ==
    ASSUME IInv, up, NEW d \in deliveries, NEW outcome \in Errors
    PROVE  LET rs == Marked(d, outcome)
           IN /\ Table(rs) /\ Distinct(rs)
              /\ LiveIn(rs) = LiveIn(rules)
              /\ ConfigsOf(rs) = ConfigsOf(rules)
              /\ \A i \in LiveIn(rules) : /\ rs[i].config = rules[i].config
                                          /\ rs[i].lastFiredAt = rules[i].lastFiredAt
<1> DEFINE rs == Marked(d, outcome)
<1>1. Table(rules) /\ Distinct(rules) /\ \A i \in LiveIn(rules) : rules[i] \in Rules
  BY RunningInv
<1>2. CASE rules[d.rid] # NoRule /\ rules[d.rid].ver = d.ver
  <2>1. d.rid \in LiveIn(rules)
    BY <1>2 DEF IInv, TimingTypeOK, LiveIn
  <2>2. rs = [rules EXCEPT ![d.rid] = [rules[d.rid] EXCEPT !.lastError = outcome]]
    BY <1>2 DEF Marked
  <2> DEFINE new == [rules[d.rid] EXCEPT !.lastError = outcome]
  <2>3. new \in Rules /\ new.config = rules[d.rid].config
        /\ new.lastFiredAt = rules[d.rid].lastFiredAt
    BY <1>1, <2>1 DEF Rules
  <2> HIDE DEF new
  <2>4. \A i \in Ids : rs[i] = IF i = d.rid THEN new ELSE rules[i]
    BY <1>1, <2>2 DEF Table, new
  <2>5. Table(rs)
    BY <1>1, <2>2, <2>3 DEF Table, new
  <2> HIDE DEF rs
  <2>6. LiveIn(rs) = LiveIn(rules)
    BY <2>1, <2>3, <2>4, RuleIsNotNoRule DEF LiveIn
  <2>7. \A i \in LiveIn(rules) : /\ rs[i].config = rules[i].config
                                 /\ rs[i].lastFiredAt = rules[i].lastFiredAt
    BY <2>3, <2>4 DEF LiveIn
  <2>8. Distinct(rs)
    BY <1>1, <2>6, <2>7 DEF Distinct
  <2>9. ConfigsOf(rs) = ConfigsOf(rules)
    BY <2>6, <2>7 DEF ConfigsOf, LiveIn
  <2> QED BY <2>5, <2>6, <2>7, <2>8, <2>9 DEF rs
<1>3. CASE ~(rules[d.rid] # NoRule /\ rules[d.rid].ver = d.ver)
  BY <1>1, <1>3 DEF Marked
<1> QED BY <1>2, <1>3


\* What a step that only changes outcomes or starts quiet periods has to show.
LEMMA SameConfigs ==
    ASSUME IInv, up, up' = TRUE, now' = now, nextId' = nextId, file' = file,
           Table(rules'), Distinct(rules'), LiveIn(rules') = LiveIn(rules),
           ConfigsOf(rules') = ConfigsOf(rules),
           \A i \in LiveIn(rules) : rules'[i].config = rules[i].config,
           stateFile' = SavedState(rules'),
           deliveries' \subseteq [rid : Ids, ver : Nat, at : Nat, identity : Identities],
           sent' \in [Identities -> Nat \cup {Never}],
           \A k \in Identities : sent'[k] # Never =>
               \E i \in LiveIn(rules) : Identity(rules[i].config) = k,
           \A i \in LiveIn(rules) : sent'[Identity(rules[i].config)] # Never =>
               /\ rules'[i].lastFiredAt # Never
               /\ sent'[Identity(rules[i].config)] <= rules'[i].lastFiredAt
    PROVE  IInv'
<1>1. file' = ConfigsOf(rules')
  BY RunningInv
<1>2. now' \in Nat /\ nextId' \in Nat /\ \A i \in LiveIn(rules') : i < nextId'
  BY DEF IInv, TimingTypeOK, NextIdIsFree, Live, LiveIn
<1> QED
  BY <1>1, <1>2, RunningAndSaving

LEMMA DeliveryKeepsIInv ==
    ASSUME IInv, NEW d \in deliveries,
           SpawnFailed(d) \/ \E outcome \in Outcomes : DeliveryClosed(d, outcome)
    PROVE  IInv'
<1>1. TimingTypeOK /\ up /\ up' = TRUE /\ UNCHANGED <<now, nextId, file, sent>>
      /\ deliveries' \subseteq deliveries /\ stateFile' = SavedState(rules')
  BY DEF SpawnFailed, DeliveryClosed, IInv, TimingTypeOK
<1>2. PICK outcome \in Errors : rules' = Marked(d, outcome)
  BY DEF SpawnFailed, DeliveryClosed, Outcomes, Errors
<1>3. /\ Table(rules') /\ Distinct(rules')
      /\ LiveIn(rules') = LiveIn(rules)
      /\ ConfigsOf(rules') = ConfigsOf(rules)
      /\ \A i \in LiveIn(rules) : /\ rules'[i].config = rules[i].config
                                  /\ rules'[i].lastFiredAt = rules[i].lastFiredAt
  BY <1>1, <1>2, MarkingARule
<1>4. /\ deliveries' \subseteq [rid : Ids, ver : Nat, at : Nat, identity : Identities]
      /\ sent' \in [Identities -> Nat \cup {Never}]
  BY <1>1 DEF TimingTypeOK
<1>5. \A k \in Identities : sent'[k] # Never =>
          \E i \in LiveIn(rules) : Identity(rules[i].config) = k
  BY <1>1, RunningInv
<1>6. \A i \in LiveIn(rules) : sent'[Identity(rules[i].config)] # Never =>
          /\ rules'[i].lastFiredAt # Never
          /\ sent'[Identity(rules[i].config)] <= rules'[i].lastFiredAt
  BY <1>1, <1>3, RunningInv
<1> QED
  BY <1>1, <1>3, <1>4, <1>5, <1>6, SameConfigs

\* An alert that leaves, leaves at the start of its rule's quiet period.
LEMMA LeavingAlerts ==
    ASSUME IInv, SentIsPast, up, NEW S \in SUBSET LiveIn(rules)
    PROVE  /\ SentTo(S) \in [Identities -> Nat \cup {Never}]
           /\ \A k \in Identities : /\ SentTo(S)[k] <= now
                                    /\ SentTo(S)[k] # Never =>
                                          \E i \in LiveIn(rules) : Identity(rules[i].config) = k
           /\ \A i \in LiveIn(rules) \ S :
                  SentTo(S)[Identity(rules[i].config)] = sent[Identity(rules[i].config)]
<1>1. TimingTypeOK /\ Distinct(rules)
  BY RunningInv DEF IInv
<1>2. \A k \in Identities : SentTo(S)[k] =
          IF \E i \in S : Identity(rules[i].config) = k THEN now ELSE sent[k]
  BY DEF SentTo
<1>3. SentTo(S) \in [Identities -> Nat \cup {Never}]
  BY <1>1 DEF TimingTypeOK, SentTo
<1>4. \A k \in Identities :
          /\ SentTo(S)[k] <= now
          /\ SentTo(S)[k] # Never =>
                \E i \in LiveIn(rules) : Identity(rules[i].config) = k
  BY <1>1, <1>2, RunningInv DEF SentIsPast, TimingTypeOK
<1>5. \A i \in LiveIn(rules) \ S :
          SentTo(S)[Identity(rules[i].config)] = sent[Identity(rules[i].config)]
  BY <1>1, <1>2, RunningInv DEF Distinct
<1> QED
  BY <1>3, <1>4, <1>5

LEMMA EvaluateKeepsIInv ==
    ASSUME IInv, SentIsPast, NEW deliverable \in Reachable, Evaluate(deliverable)
    PROVE  IInv'
<1> DEFINE due == {i \in Matching : CooledDown(rules[i])}
<1>1. /\ up /\ up' = TRUE /\ UNCHANGED <<now, nextId, file>>
      /\ rules' = AfterFiring(due, deliverable)
      /\ deliveries' = deliveries \cup (IF deliverable THEN Children(due) ELSE {})
      /\ sent' = IF deliverable THEN SentTo(due) ELSE sent
      /\ stateFile' = IF due = {} THEN stateFile ELSE SavedState(rules')
  BY DEF Evaluate, IInv, TimingTypeOK
<1>2. TimingTypeOK /\ deliverable \in BOOLEAN
  BY AlertsAssumption DEF IInv
<1>3. due \in SUBSET LiveIn(rules)
  BY DEF Matching, Live, LiveIn
<1> HIDE DEF due
<1>4. /\ Table(rules') /\ Distinct(rules')
      /\ LiveIn(rules') = LiveIn(rules)
      /\ ConfigsOf(rules') = ConfigsOf(rules)
      /\ \A i \in LiveIn(rules) :
            /\ rules'[i].config = rules[i].config
            /\ rules'[i].lastFiredAt = IF i \in due THEN now ELSE rules[i].lastFiredAt
  BY <1>1, <1>2, <1>3, FiringRules
<1>5. CASE due = {}
  <2>1. rules' = rules
    BY <1>1, <1>5, RunningInv DEF AfterFiring, Table
  <2>2. sent' = sent
    BY <1>1, <1>2, <1>5 DEF SentTo, TimingTypeOK
  <2>3. deliveries' = deliveries
    BY <1>1, <1>5 DEF Children
  <2> QED
    BY <1>1, <1>2, <1>5, <2>1, <2>2, <2>3, Elsewhere DEF TimingTypeOK, disk
<1>6. CASE due # {}
  <2>1. now \in Nat /\ \A i \in LiveIn(rules) : rules[i].ver \in Nat
                                           /\ Identity(rules[i].config) \in Identities
    BY <1>1, <1>2, RunningInv DEF TimingTypeOK, Rules
  <2>2. Children(due) \subseteq [rid : Ids, ver : Nat, at : Nat, identity : Identities]
    BY <1>3, <2>1 DEF Children, LiveIn
  <2>3. deliveries' \subseteq [rid : Ids, ver : Nat, at : Nat, identity : Identities]
    BY <1>1, <1>2, <2>2 DEF TimingTypeOK
  <2>4. /\ sent' \in [Identities -> Nat \cup {Never}]
        /\ \A k \in Identities : /\ sent'[k] <= now
                                 /\ sent'[k] # Never =>
                                     \E i \in LiveIn(rules) : Identity(rules[i].config) = k
        /\ \A i \in LiveIn(rules) \ due :
              sent'[Identity(rules[i].config)] = sent[Identity(rules[i].config)]
    BY <1>1, <1>2, <1>3, LeavingAlerts, RunningInv DEF TimingTypeOK, SentIsPast
  <2>5. ASSUME NEW i \in LiveIn(rules), sent'[Identity(rules[i].config)] # Never
        PROVE  /\ rules'[i].lastFiredAt # Never
               /\ sent'[Identity(rules[i].config)] <= rules'[i].lastFiredAt
    <3>1. CASE i \in due
      BY <1>4, <2>1, <2>4, <3>1 DEF Never
    <3>2. CASE i \notin due
      BY <1>1, <1>4, <2>4, <2>5, <3>2, RunningInv
    <3> QED BY <3>1, <3>2
  <2> QED
    BY <1>1, <1>4, <1>6, <2>3, <2>4, <2>5, SameConfigs
<1> QED BY <1>5, <1>6


-----------------------------------------------------------------------------
(* Crashes and restarts.                                                     *)

\* What a crash has to show of the files it leaves behind.
LEMMA CrashKeepsIInv ==
    ASSUME IInv, NEW f, NEW s, NEW ls, NEW torn \in BOOLEAN, GoDown(f, s, ls, torn),
           f \in [Ids -> Accepted \cup {NoRule}],
           s \in [Identities -> Timings \cup {NoTiming}],
           ls \in [Identities -> Nat \cup {Never}],
           \A i, j \in Ids : (f[i] # NoRule /\ f[j] # NoRule /\ Identity(f[i]) = Identity(f[j]))
                                => i = j,
           ~torn => \A i \in Ids : (f[i] # NoRule /\ ls[Identity(f[i])] # Never) =>
                        /\ s[Identity(f[i])] # NoTiming
                        /\ s[Identity(f[i])].lastFiredAt # Never
                        /\ ls[Identity(f[i])] <= s[Identity(f[i])].lastFiredAt
    PROVE  IInv'
<1> USE DEF GoDown
<1>1. TimingTypeOK /\ nextId \in Nat
  BY DEF IInv, NextIdIsFree
<1>2. \A i \in Ids : f[i] # NoRule => Identity(f[i]) \in Identities
  BY AcceptedType
<1>3. \A k \in Identities :
          sent'[k] = IF ~torn /\ \E i \in Ids : f[i] # NoRule /\ Identity(f[i]) = k
                     THEN ls[k] ELSE Never
  OBVIOUS
<1>4. sent' \in [Identities -> Nat \cup {Never}]
  OBVIOUS
<1>5. Live' = {} /\ up' = FALSE /\ file' = f /\ stateFile' = s
  BY DEF Live
<1>6. TimingTypeOK'
  BY <1>1, <1>4 DEF TimingTypeOK
<1>7. NextIdIsFree' /\ OneRulePerIdentity' /\ TimingIsSaved'
  BY <1>1, <1>5 DEF NextIdIsFree, OneRulePerIdentity, TimingIsSaved
<1>8. FileHasOneRulePerIdentity' /\ FileIsCurrent'
  BY <1>5 DEF FileHasOneRulePerIdentity, FileIsCurrent
<1>9. SentIsOnFile'
  BY <1>3, <1>5 DEF SentIsOnFile
<1>10. SentIsHonoured'
  <2> SUFFICES ASSUME NEW i \in Ids, f[i] # NoRule, sent'[Identity(f[i])] # Never
               PROVE  /\ s[Identity(f[i])] # NoTiming
                      /\ s[Identity(f[i])].lastFiredAt # Never
                      /\ sent'[Identity(f[i])] <= s[Identity(f[i])].lastFiredAt
    BY <1>5 DEF SentIsHonoured
  <2>1. ~torn /\ sent'[Identity(f[i])] = ls[Identity(f[i])]
    BY <1>2, <1>3
  <2> QED BY <2>1
<1> QED
  BY <1>6, <1>7, <1>8, <1>9, <1>10 DEF IInv

LEMMA TornFiles ==
    /\ TornFile \in [Ids -> Accepted \cup {NoRule}]
    /\ \A i \in Ids : TornFile[i] = NoRule
    /\ TornState \in [Identities -> Timings \cup {NoTiming}]
BY DEF TornFile, TornState

\* A crash that leaves the rules file torn, the timing intact.
LEMMA CrashWithTornRules ==
    ASSUME IInv, GoDown(TornFile, stateFile, sent, FALSE)
    PROVE  IInv'
BY TornFiles, CrashKeepsIInv DEF IInv, TimingTypeOK

\* A crash that leaves the rules of some table in the file and the timing torn.
LEMMA CrashWithTornTiming ==
    ASSUME IInv, NEW rs, Table(rs), Distinct(rs), NEW ls \in [Identities -> Nat \cup {Never}],
           GoDown(ConfigsOf(rs), TornState, ls, TRUE)
    PROVE  IInv'
<1>1. /\ ConfigsOf(rs) \in [Ids -> Accepted \cup {NoRule}]
      /\ \A i \in Ids : ConfigsOf(rs)[i] # NoRule <=> i \in LiveIn(rs)
      /\ \A i \in LiveIn(rs) : ConfigsOf(rs)[i] = rs[i].config
  BY ConfigsOfType
<1>2. \A i, j \in Ids :
          (ConfigsOf(rs)[i] # NoRule /\ ConfigsOf(rs)[j] # NoRule
             /\ Identity(ConfigsOf(rs)[i]) = Identity(ConfigsOf(rs)[j])) => i = j
  <2> SUFFICES ASSUME NEW i \in LiveIn(rs), NEW j \in LiveIn(rs),
                      Identity(rs[i].config) = Identity(rs[j].config)
               PROVE  i = j
    BY <1>1
  <2> QED BY DEF Distinct
<1> QED
  BY <1>1, <1>2, TornFiles, CrashKeepsIInv

\* A crash that leaves the rules of some table in the file, and timing that honours what
\* was sent.
LEMMA CrashWithTiming ==
    ASSUME IInv, NEW rs, Table(rs), Distinct(rs), NEW ls \in [Identities -> Nat \cup {Never}],
           NEW s \in [Identities -> Timings \cup {NoTiming}],
           \A i \in LiveIn(rs) : ls[Identity(rs[i].config)] # Never =>
               /\ s[Identity(rs[i].config)] # NoTiming
               /\ s[Identity(rs[i].config)].lastFiredAt # Never
               /\ ls[Identity(rs[i].config)] <= s[Identity(rs[i].config)].lastFiredAt,
           GoDown(ConfigsOf(rs), s, ls, FALSE)
    PROVE  IInv'
<1>1. /\ ConfigsOf(rs) \in [Ids -> Accepted \cup {NoRule}]
      /\ \A i \in Ids : ConfigsOf(rs)[i] # NoRule <=> i \in LiveIn(rs)
      /\ \A i \in LiveIn(rs) : ConfigsOf(rs)[i] = rs[i].config
  BY ConfigsOfType
<1>2. \A i, j \in Ids :
          (ConfigsOf(rs)[i] # NoRule /\ ConfigsOf(rs)[j] # NoRule
             /\ Identity(ConfigsOf(rs)[i]) = Identity(ConfigsOf(rs)[j])) => i = j
  <2> SUFFICES ASSUME NEW i \in LiveIn(rs), NEW j \in LiveIn(rs),
                      Identity(rs[i].config) = Identity(rs[j].config)
               PROVE  i = j
    BY <1>1
  <2> QED BY DEF Distinct
<1>3. ASSUME NEW i \in Ids, ConfigsOf(rs)[i] # NoRule, ls[Identity(ConfigsOf(rs)[i])] # Never
      PROVE  /\ s[Identity(ConfigsOf(rs)[i])] # NoTiming
             /\ s[Identity(ConfigsOf(rs)[i])].lastFiredAt # Never
             /\ ls[Identity(ConfigsOf(rs)[i])] <= s[Identity(ConfigsOf(rs)[i])].lastFiredAt
  <2>1. i \in LiveIn(rs) /\ ConfigsOf(rs)[i] = rs[i].config
    BY <1>1, <1>3
  <2> QED BY <1>3, <2>1
<1> QED
  BY <1>1, <1>2, <1>3, CrashKeepsIInv

\* While the server runs, the state file already honours every alert that left.
LEMMA TimingOnDisk ==
    ASSUME IInv, up, NEW i \in LiveIn(rules), sent[Identity(rules[i].config)] # Never
    PROVE  /\ stateFile[Identity(rules[i].config)] # NoTiming
           /\ stateFile[Identity(rules[i].config)].lastFiredAt # Never
           /\ sent[Identity(rules[i].config)]
                  <= stateFile[Identity(rules[i].config)].lastFiredAt
<1>1. /\ stateFile[Identity(rules[i].config)] = TimingOf(rules[i])
      /\ rules[i] \in Rules
      /\ rules[i].lastFiredAt # Never
      /\ sent[Identity(rules[i].config)] <= rules[i].lastFiredAt
  BY RunningInv
<1>2. TimingOf(rules[i]) \in Timings /\ TimingOf(rules[i]).lastFiredAt = rules[i].lastFiredAt
  BY <1>1 DEF TimingOf, Rules, Timings
<1> QED BY <1>1, <1>2, TimingIsNotNoTiming

LEMMA CrashesKeepIInv ==
    ASSUME IInv, Crash \/ CrashInDelivery
    PROVE  IInv'
<1>1. up /\ TimingTypeOK /\ file = ConfigsOf(rules) /\ Table(rules) /\ Distinct(rules)
  BY RunningInv DEF Crash, CrashInDelivery, GoDown, CanCrash, IInv
<1>2. CASE Crash
  BY <1>1, <1>2, TimingOnDisk, CrashWithTiming DEF Crash, TimingTypeOK
<1>3. CASE CrashInDelivery
  BY <1>1, <1>3, CrashWithTornTiming DEF CrashInDelivery, TimingTypeOK
<1> QED BY <1>2, <1>3

LEMMA CrashInEditKeepsIInv ==
    ASSUME IInv, CrashInEdit
    PROVE  IInv'
<1>1. up /\ TimingTypeOK /\ Table(rules) /\ Distinct(rules)
  BY RunningInv DEF CrashInEdit, CanCrash, IInv
<1>2. ASSUME NEW rs, Table(rs), Distinct(rs), CrashInRewrite(rs),
             \A i \in LiveIn(rs) : sent[Identity(rs[i].config)] # Never =>
                 i \in LiveIn(rules) /\ Identity(rules[i].config) = Identity(rs[i].config)
      PROVE  IInv'
  <2>1. CASE GoDown(TornFile, stateFile, sent, FALSE)
    BY <2>1, CrashWithTornRules
  <2>2. CASE GoDown(ConfigsOf(rs), stateFile, sent, FALSE)
    <3>1. \A i \in LiveIn(rs) : sent[Identity(rs[i].config)] # Never =>
              /\ stateFile[Identity(rs[i].config)] # NoTiming
              /\ stateFile[Identity(rs[i].config)].lastFiredAt # Never
              /\ sent[Identity(rs[i].config)]
                     <= stateFile[Identity(rs[i].config)].lastFiredAt
      BY <1>1, <1>2, TimingOnDisk
    <3> QED BY <1>1, <1>2, <2>2, <3>1, CrashWithTiming DEF TimingTypeOK
  <2>3. CASE GoDown(ConfigsOf(rs), TornState, sent, TRUE)
    BY <1>1, <1>2, <2>3, CrashWithTornTiming DEF TimingTypeOK
  <2> QED BY <1>2, <2>1, <2>2, <2>3 DEF CrashInRewrite
<1>3. CASE \E c \in Accepted : CanAdd(c) /\ GoDown(TornFile, stateFile, sent, FALSE)
  BY <1>3, CrashWithTornRules
<1>4. ASSUME NEW r \in Live, NEW c \in Accepted, CanUpdate(r, c), CrashInRewrite(Updating(r, c))
      PROVE  IInv'
  <2> DEFINE rs == Updating(r, c)
  <2>1. r \in LiveIn(rules) /\ ~Taken(c, r)
    BY <1>4 DEF CanUpdate, Live, LiveIn
  <2>2. /\ Table(rs) /\ Distinct(rs)
        /\ LiveIn(rs) = LiveIn(rules)
        /\ \A i \in LiveIn(rules) \ {r} : rs[i] = rules[i]
        /\ rs[r].config = c
        /\ \A i \in LiveIn(rules) \ {r} : Identity(rules[i].config) # Identity(c)
    BY <1>1, <2>1, UpdatingRule
  <2> HIDE DEF rs
  <2>3. ASSUME NEW i \in LiveIn(rs), sent[Identity(rs[i].config)] # Never
        PROVE  Identity(rules[i].config) = Identity(rs[i].config)
    <3>1. CASE i # r
      BY <2>2, <3>1
    <3>2. CASE i = r
      <4>1. PICK j \in LiveIn(rules) : Identity(rules[j].config) = Identity(c)
        BY <1>1, <2>2, <2>3, <3>2, RunningInv, AcceptedType
      <4> QED BY <2>2, <3>2, <4>1
    <3> QED BY <3>1, <3>2
  <2> QED BY <1>2, <1>4, <2>2, <2>3 DEF rs
<1>5. ASSUME NEW r \in Live, CrashInRewrite(Removing(r))
      PROVE  IInv'
  <2> DEFINE rs == Removing(r)
  <2>1. /\ Table(rs)
        /\ LiveIn(rs) = LiveIn(rules) \ {r}
        /\ \A i \in LiveIn(rs) : rs[i] = rules[i]
    BY <1>1 DEF Table, Removing, Live, LiveIn
  <2> HIDE DEF rs
  <2>2. Distinct(rs)
    BY <1>1, <2>1 DEF Distinct
  <2> QED BY <1>2, <1>5, <2>1, <2>2 DEF rs
<1> QED
  BY <1>3, <1>4, <1>5 DEF CrashInEdit

LEMMA CrashInEvaluateKeepsIInv ==
    ASSUME IInv, SentIsPast, NEW deliverable \in Reachable, CrashInEvaluate(deliverable)
    PROVE  IInv'
<1> DEFINE due == {i \in Matching : CooledDown(rules[i])}
<1>1. /\ up /\ TimingTypeOK /\ file = ConfigsOf(rules) /\ Table(rules) /\ Distinct(rules)
      /\ deliverable \in BOOLEAN
  BY RunningInv, AlertsAssumption DEF CrashInEvaluate, CanCrash, IInv
<1>2. due \in SUBSET LiveIn(rules)
  BY DEF Matching, Live, LiveIn
<1>3. CASE GoDown(file, TornState, sent, TRUE)
  BY <1>1, <1>3, CrashWithTornTiming DEF TimingTypeOK
<1>4. ASSUME NEW k \in due, NEW left \in LeftWhen(due, k),
             GoDown(file, SavedState(AfterFiring(SavedWhen(due, k), deliverable)),
                    IF deliverable THEN SentTo(left) ELSE sent, FALSE)
      PROVE  IInv'
  <2> DEFINE S == SavedWhen(due, k)
             rs == AfterFiring(S, deliverable)
             ls == IF deliverable THEN SentTo(left) ELSE sent
  <2>1. S \in SUBSET LiveIn(rules) /\ left \in SUBSET LiveIn(rules) /\ left \subseteq S
    <3> HIDE DEF due
    <3>1. k \in Nat /\ due \subseteq Nat
      BY <1>2, AlertsAssumption DEF LiveIn
    <3>2. left = {i \in due : i < k} \/ left = {i \in due : i <= k}
      BY DEF LeftWhen
    <3>3. \A i \in due : i < k => i <= k
      BY <3>1
    <3>4. left \subseteq due /\ S = {i \in due : i <= k}
      BY <3>2 DEF SavedWhen
    <3>5. left \subseteq S
      BY <3>2, <3>3, <3>4
    <3> QED BY <1>2, <3>4, <3>5
  <2> HIDE DEF S, due
  <2>2. /\ Table(rs) /\ Distinct(rs)
        /\ LiveIn(rs) = LiveIn(rules)
        /\ ConfigsOf(rs) = ConfigsOf(rules)
        /\ \A i \in LiveIn(rules) :
              /\ rs[i].config = rules[i].config
              /\ rs[i].lastFiredAt = IF i \in S THEN now ELSE rules[i].lastFiredAt
    BY <1>1, <2>1, FiringRules
  <2>3. SavedState(rs) \in [Identities -> Timings \cup {NoTiming}]
    BY <2>2, SavedStateType
  <2>4. /\ ls \in [Identities -> Nat \cup {Never}]
        /\ \A i \in LiveIn(rules) : /\ ls[Identity(rules[i].config)] <= now
                                   /\ Identity(rules[i].config) \in Identities
        /\ \A i \in LiveIn(rules) \ S :
              ls[Identity(rules[i].config)] = sent[Identity(rules[i].config)]
    BY <1>1, <2>1, LeavingAlerts, RunningInv DEF TimingTypeOK, SentIsPast
  <2> HIDE DEF rs, ls
  <2>5. ASSUME NEW i \in LiveIn(rs), ls[Identity(rs[i].config)] # Never
        PROVE  /\ SavedState(rs)[Identity(rs[i].config)] # NoTiming
               /\ SavedState(rs)[Identity(rs[i].config)].lastFiredAt # Never
               /\ ls[Identity(rs[i].config)]
                      <= SavedState(rs)[Identity(rs[i].config)].lastFiredAt
    <3>1. now \in Nat /\ rs[i] \in Rules /\ i \in LiveIn(rules)
      BY <1>1, <2>2 DEF TimingTypeOK, Table, LiveIn
    <3>2. rs[i].lastFiredAt # Never /\ ls[Identity(rs[i].config)] <= rs[i].lastFiredAt
      <4>1. CASE i \in S
        BY <2>2, <2>4, <3>1, <4>1 DEF Never
      <4>2. CASE i \notin S
        BY <1>1, <2>2, <2>4, <2>5, <3>1, <4>2, RunningInv
      <4> QED BY <4>1, <4>2
    <3>3. SavedState(rs)[Identity(rs[i].config)] = TimingOf(rs[i])
      BY <2>2, <3>2, SavedStateEntry
    <3>4. TimingOf(rs[i]) \in Timings /\ TimingOf(rs[i]).lastFiredAt = rs[i].lastFiredAt
      BY <3>1 DEF TimingOf, Rules, Timings
    <3> QED BY <3>2, <3>3, <3>4, TimingIsNotNoTiming
  <2>6. GoDown(ConfigsOf(rs), SavedState(rs), ls, FALSE)
    BY <1>1, <1>4, <2>2 DEF rs, ls, S
  <2> QED BY <2>2, <2>3, <2>4, <2>5, <2>6, CrashWithTiming
<1> QED
  BY <1>3, <1>4 DEF CrashInEvaluate

LEMMA RestartKeepsIInv ==
    ASSUME IInv, Restart
    PROVE  IInv'
<1> USE DEF Restart
<1>1. TimingTypeOK /\ ~up /\ up' = TRUE /\ UNCHANGED <<now, deliveries, sent, file, stateFile>>
  BY DEF IInv, disk
<1>2. ASSUME NEW i \in Ids, file[i] # NoRule
      PROVE  LET st == stateFile[Identity(file[i])]
             IN /\ Loaded[i] \in Rules
                /\ Loaded[i].config = file[i]
                /\ st = NoTiming => Loaded[i].lastFiredAt = Never
                /\ st # NoTiming => TimingOf(Loaded[i]) = st
                                    /\ Loaded[i].lastFiredAt = st.lastFiredAt
  <2> DEFINE st == stateFile[Identity(file[i])]
  <2>1. file[i] \in Accepted /\ st \in Timings \cup {NoTiming}
    BY <1>1, <1>2, AcceptedType DEF TimingTypeOK
  <2>2. CASE st = NoTiming
    <3>1. Loaded[i] = Fresh(file[i], 0)
      BY <1>2, <2>2 DEF Loaded
    <3> QED BY <2>1, <2>2, <3>1, FreshType
  <2>3. CASE st # NoTiming
    <3>1. Loaded[i] = [Fresh(file[i], 0) EXCEPT !.lastFiredAt = st.lastFiredAt,
                                                !.firedCount = st.firedCount,
                                                !.lastError = st.lastError]
      BY <1>2, <2>3 DEF Loaded
    <3>2. st \in Timings
      BY <2>1, <2>3
    <3> HIDE DEF st
    <3> DEFINE fresh == Fresh(file[i], 0)
    <3>a. fresh \in Rules /\ fresh.config = file[i]
      BY <2>1, FreshType
    <3>b. st.lastFiredAt \in Nat \cup {Never} /\ st.firedCount \in Nat /\ st.lastError \in Errors
          /\ st = [lastFiredAt |-> st.lastFiredAt, firedCount |-> st.firedCount,
                   lastError |-> st.lastError]
      BY <3>2 DEF Timings
    <3> HIDE DEF fresh
    <3>3. Loaded[i] \in Rules /\ Loaded[i].config = file[i]
      BY <3>a, <3>b, <3>1 DEF Rules, fresh
    <3>4. TimingOf(Loaded[i]) = st /\ Loaded[i].lastFiredAt = st.lastFiredAt
      BY <3>a, <3>b, <3>1 DEF Rules, TimingOf, fresh
    <3> QED BY <2>3, <3>3, <3>4 DEF st
  <2> QED BY <2>2, <2>3
<1>3. \A i \in Ids : file[i] = NoRule => Loaded[i] = NoRule
  BY DEF Loaded
<1>4. \A i \in Ids : i \in LiveIn(Loaded) <=> file[i] # NoRule
  BY <1>2, <1>3, RuleIsNotNoRule DEF LiveIn
<1>5. Table(Loaded)
  <2>1. Loaded = [i \in Ids |-> Loaded[i]]
    BY DEF Loaded
  <2> QED BY <1>2, <1>3, <2>1 DEF Table
<1>6. rules' = Loaded
  OBVIOUS
<1> HIDE DEF Restart
<1>7. \A i \in LiveIn(Loaded) : i \in Ids /\ file[i] # NoRule
  BY <1>4 DEF LiveIn
<1>8. Distinct(Loaded)
  BY <1>2, <1>7 DEF Distinct, IInv, FileHasOneRulePerIdentity
<1>9. file' = ConfigsOf(rules')
  <2>1. ConfigsOf(Loaded) = [i \in Ids |-> file[i]]
    BY <1>2, <1>3, <1>4, <1>5, RuleIsNotNoRule DEF ConfigsOf, LiveIn
  <2> QED BY <1>1, <1>6, <2>1 DEF TimingTypeOK
<1>10. \A i \in LiveIn(Loaded) : Loaded[i].lastFiredAt # Never =>
           stateFile[Identity(Loaded[i].config)] = TimingOf(Loaded[i])
  BY <1>2, <1>7
<1>11. \A k \in Identities : sent[k] # Never =>
           \E i \in LiveIn(Loaded) : Identity(Loaded[i].config) = k
  BY <1>2, <1>4 DEF IInv, SentIsOnFile
<1>12. \A i \in LiveIn(Loaded) : sent[Identity(Loaded[i].config)] # Never =>
           /\ Loaded[i].lastFiredAt # Never
           /\ sent[Identity(Loaded[i].config)] <= Loaded[i].lastFiredAt
  BY <1>1, <1>2, <1>7 DEF IInv, SentIsHonoured
<1>13. nextId' \in Nat /\ \A i \in LiveIn(Loaded) : i < nextId'
  <2>1. LiveIn(Loaded) \subseteq Nat
    BY AlertsAssumption DEF LiveIn
  <2>2. PICK last \in LiveIn(Loaded) \cup {0} :
            (\A i \in LiveIn(Loaded) : i <= last) /\ nextId' = last + 1
    BY DEF Restart
  <2> QED BY <2>1, <2>2
<1> QED
  BY <1>1, <1>5, <1>6, <1>8, <1>9, <1>10, <1>11, <1>12, <1>13, Running DEF TimingTypeOK

-----------------------------------------------------------------------------
(* The theorems.                                                             *)

LEMMA StutterKeepsIInv == IInv /\ UNCHANGED vars => IInv'
BY Elsewhere DEF vars, IInv, TimingTypeOK, disk

LEMMA NextKeepsIInv ==
    ASSUME IInv, SentIsPast, Next
    PROVE  IInv'
<1>1. CASE \/ Tick
           \/ \E e \in Endpoints, code \in Codes : Response(e, code)
           \/ Respawn
           \/ Reset
           \/ TakeBaseline
  BY <1>1, OtherStepsKeepIInv
<1>2. CASE \E c \in Accepted : AddRule(c)
  BY <1>2, AddRuleKeepsIInv
<1>3. CASE \E i \in Ids, c \in Accepted : UpdateRule(i, c)
  BY <1>3, UpdateRuleKeepsIInv
<1>4. CASE \E i \in Ids : RemoveRule(i)
  BY <1>4, RemoveRuleKeepsIInv
<1>5. CASE \E deliverable \in Reachable : Evaluate(deliverable)
  BY <1>5, EvaluateKeepsIInv
<1>6. CASE \E d \in deliveries : SpawnFailed(d)
  BY <1>6, DeliveryKeepsIInv
<1>7. CASE \E d \in deliveries, outcome \in Outcomes : DeliveryClosed(d, outcome)
  BY <1>7, DeliveryKeepsIInv
<1>8. CASE Crash \/ CrashInDelivery
  BY <1>8, CrashesKeepIInv
<1>9. CASE CrashInEdit
  BY <1>9, CrashInEditKeepsIInv
<1>10. CASE \E deliverable \in Reachable : CrashInEvaluate(deliverable)
  BY <1>10, CrashInEvaluateKeepsIInv
<1>11. CASE Restart
  BY <1>11, RestartKeepsIInv
<1> QED
  BY <1>1, <1>2, <1>3, <1>4, <1>5, <1>6, <1>7, <1>8, <1>9, <1>10, <1>11 DEF Next

\* The clock does not go back, and what leaves, leaves now.
LEMMA NextKeepsSentIsPast ==
    ASSUME IInv, SentIsPast, Next
    PROVE  SentIsPast'
<1>1. TimingTypeOK
  BY DEF IInv
<1>2. \A k \in Identities : sent[k] <= now /\ Never <= now /\ now <= now
  BY <1>1 DEF TimingTypeOK, SentIsPast, Never
<1>3. CASE UNCHANGED <<now, sent>>
  BY <1>2, <1>3 DEF SentIsPast
<1>4. CASE Tick
  BY <1>1, <1>4 DEF Tick, SentIsPast, TimingTypeOK, Never
<1>5. ASSUME NEW r \in Ids, NEW c \in Accepted, UpdateRule(r, c)
      PROVE  SentIsPast'
  BY <1>1, <1>2, <1>5 DEF UpdateRule, SentIsPast, TimingTypeOK
<1>6. ASSUME NEW r \in Ids, RemoveRule(r)
      PROVE  SentIsPast'
  BY <1>1, <1>2, <1>6 DEF RemoveRule, SentIsPast, TimingTypeOK
<1>7. ASSUME NEW S \in SUBSET Ids, NEW k \in Identities
      PROVE  SentTo(S)[k] <= now
  BY <1>2 DEF SentTo
<1>8. ASSUME NEW deliverable \in Reachable, Evaluate(deliverable)
      PROVE  SentIsPast'
  <2> DEFINE due == {i \in Matching : CooledDown(rules[i])}
  <2>1. due \in SUBSET Ids /\ now' = now /\ sent' = IF deliverable THEN SentTo(due) ELSE sent
    BY <1>8 DEF Evaluate, Matching, Live
  <2> HIDE DEF due
  <2> QED BY <1>2, <1>7, <2>1 DEF SentIsPast
<1>9. ASSUME NEW f, NEW s, NEW torn, NEW ls, GoDown(f, s, ls, torn),
             \A k \in Identities : ls[k] <= now
      PROVE  SentIsPast'
  BY <1>2, <1>9 DEF GoDown, SentIsPast
<1>10. CASE Crash \/ CrashInEdit \/ CrashInDelivery
  BY <1>2, <1>9, <1>10 DEF Crash, CrashInEdit, CrashInRewrite, CrashInDelivery
<1>11. ASSUME NEW deliverable \in Reachable, CrashInEvaluate(deliverable)
       PROVE  SentIsPast'
  <2> DEFINE due == {i \in Matching : CooledDown(rules[i])}
  <2>1. due \in SUBSET Ids
    BY DEF Matching, Live
  <2> HIDE DEF due
  <2>2. CASE GoDown(file, TornState, sent, TRUE)
    BY <1>2, <1>9, <2>2
  <2>3. ASSUME NEW k \in due, NEW left \in LeftWhen(due, k),
               GoDown(file, SavedState(AfterFiring(SavedWhen(due, k), deliverable)),
                      IF deliverable THEN SentTo(left) ELSE sent, FALSE)
        PROVE  SentIsPast'
    <3>1. left \in SUBSET Ids
      BY <2>1 DEF LeftWhen
    <3>2. \A l \in Identities : (IF deliverable THEN SentTo(left) ELSE sent)[l] <= now
      BY <1>2, <1>7, <3>1
    <3> QED BY <1>9, <2>3, <3>2
  <2> QED BY <1>11, <2>2, <2>3 DEF CrashInEvaluate, due
<1> QED
  BY <1>3, <1>4, <1>5, <1>6, <1>8, <1>10, <1>11
  DEF Next, Response, Respawn, Reset, AddRule, TakeBaseline, SpawnFailed, DeliveryClosed, Restart

LEMMA Invariants == Spec => [](IInv /\ SentIsPast)
<1>1. Init => IInv /\ SentIsPast
  BY InitIInv DEF Init, SentIsPast, Never
<1>2. (IInv /\ SentIsPast) /\ [Next]_vars => (IInv /\ SentIsPast)'
  <2> SUFFICES ASSUME IInv, SentIsPast, [Next]_vars
               PROVE  IInv' /\ SentIsPast'
    OBVIOUS
  <2>1. CASE Next
    BY <2>1, NextKeepsIInv, NextKeepsSentIsPast
  <2>2. CASE UNCHANGED vars
    BY <2>2, StutterKeepsIInv DEF vars, SentIsPast
  <2> QED BY <2>1, <2>2
<1> QED
  BY <1>1, <1>2, PTL DEF Spec

\* Types: rules that were loaded or edited are rules that validate() lets through, and
\* the files hold nothing else.
THEOREM TypesAreKept == Spec => []TimingTypeOK
<1>1. IInv => TimingTypeOK
  BY DEF IInv
<1> QED
  BY <1>1, Invariants, PTL

\* No sequence of adds, edits, removals, crashes and reloads makes two rules watch the
\* same thing.
THEOREM RulesAreDistinct == Spec => []OneRulePerIdentity
<1>1. IInv => OneRulePerIdentity
  BY DEF IInv
<1> QED
  BY <1>1, Invariants, PTL

\* A restart at any moment finds the timing of every rule that has fired.
THEOREM TimingIsOnDisk == Spec => []TimingIsSaved
<1>1. IInv => TimingIsSaved
  BY DEF IInv
<1> QED
  BY <1>1, Invariants, PTL

\* The throttle holds across crashes, restarts, edits and probe restarts.
THEOREM Throttled == Spec => CooldownHolds
<1>1. IInv /\ SentIsPast /\ [Next]_vars =>
          [\A d \in deliveries' \ deliveries :
               \/ sent[d.identity] = Never
               \/ now - sent[d.identity] >= rules[d.rid].config.cooldown]_vars
  <2> SUFFICES ASSUME IInv, SentIsPast, Next, NEW d \in deliveries' \ deliveries,
                      sent[d.identity] # Never
               PROVE  now - sent[d.identity] >= rules[d.rid].config.cooldown
    BY DEF vars
  <2>1. PICK deliverable \in Reachable : Evaluate(deliverable)
    BY DEF Next, Tick, Response, Respawn, Reset, AddRule, UpdateRule, RemoveRule, TakeBaseline,
           SpawnFailed, DeliveryClosed, Crash, CrashInEdit, CrashInRewrite, CrashInEvaluate,
           CrashInDelivery, GoDown, Restart
  <2>2. PICK i \in Matching : /\ CooledDown(rules[i])
                              /\ d.rid = i
                              /\ d.identity = Identity(rules[i].config)
    BY <2>1 DEF Evaluate, Children
  <2>3. up /\ i \in LiveIn(rules) /\ now \in Nat
    BY <2>1 DEF Evaluate, Matching, Live, LiveIn, IInv, TimingTypeOK
  <2>4. /\ rules[i] \in Rules
        /\ rules[i].lastFiredAt # Never
        /\ sent[d.identity] <= rules[i].lastFiredAt
        /\ Identity(rules[i].config) \in Identities
    BY <2>2, <2>3, RunningInv
  <2>5. now - rules[i].lastFiredAt >= rules[i].config.cooldown
    BY <2>2, <2>4 DEF CooledDown
  <2>6. rules[i].config.cooldown \in Nat /\ rules[i].lastFiredAt \in Nat /\ sent[d.identity] \in Nat
    BY <2>2, <2>4, AcceptedType DEF Rules, IInv, TimingTypeOK
  <2> QED BY <2>2, <2>3, <2>4, <2>5, <2>6
<1> QED
  BY <1>1, Invariants, PTL DEF Spec, CooldownHolds

-----------------------------------------------------------------------------
(* Alerts implements Throttle: every step of the rules, of their files, of    *)
(* their crashes and of their restarts is a step of the throttle, or none.    *)
(* First, when the quiet period of an identity began.                         *)

LEMMA KnownSinceOfRule ==
    ASSUME NEW rs, Table(rs), Distinct(rs), NEW i \in LiveIn(rs)
    PROVE  KnownSince(rs, Identity(rs[i].config)) = rs[i].lastFiredAt
<1> DEFINE holders == {j \in LiveIn(rs) : Identity(rs[j].config) = Identity(rs[i].config)}
<1>1. holders = {i}
  BY DEF Distinct
<1>2. (CHOOSE j \in holders : TRUE) = i
  <2> HIDE DEF holders
  <2> QED BY <1>1
<1> QED
  BY <1>1, <1>2, Zenon DEF KnownSince

LEMMA KnownSinceType ==
    ASSUME NEW rs, Table(rs), Distinct(rs), NEW k
    PROVE  KnownSince(rs, k) \in Nat \cup {Never}
<1>1. CASE \E i \in LiveIn(rs) : Identity(rs[i].config) = k
  <2>1. PICK i \in LiveIn(rs) : Identity(rs[i].config) = k
    BY <1>1
  <2>2. rs[i] \in Rules
    BY DEF Table, LiveIn
  <2>3. KnownSince(rs, k) = rs[i].lastFiredAt
    BY <2>1, KnownSinceOfRule
  <2> QED BY <2>2, <2>3 DEF Rules
<1>2. CASE \A i \in LiveIn(rs) : Identity(rs[i].config) # k
  <2>1. {i \in LiveIn(rs) : Identity(rs[i].config) = k} = {}
    BY <1>2
  <2>2. KnownSince(rs, k) = Never
    BY <2>1, Zenon DEF KnownSince
  <2> QED BY <2>2
<1> QED
  BY <1>1, <1>2

LEMMA SavedSinceType ==
    ASSUME NEW f, NEW s \in [Identities -> Timings \cup {NoTiming}], NEW k \in Identities
    PROVE  SavedSince(f, s, k) \in Nat \cup {Never}
BY DEF SavedSince, Timings

\* The rules that are live, in the next state.
LEMMA NextTable ==
    ASSUME IInv', up'
    PROVE  /\ Table(rules') /\ Distinct(rules')
           /\ \A k \in Identities : sent'[k] # Never =>
                 \E i \in LiveIn(rules') : Identity(rules'[i].config) = k
<1>1. Table(rules') /\ Distinct(rules') /\ file' = ConfigsOf(rules')
  BY DEF IInv, TimingTypeOK, OneRulePerIdentity, FileIsCurrent, Table, Distinct, Live, LiveIn
<1>2. \A k \in Identities : sent'[k] # Never =>
          \E i \in LiveIn(rules') : Identity(rules'[i].config) = k
  BY <1>1, ConfigsOfType DEF IInv, SentIsOnFile
<1> QED
  BY <1>1, <1>2

\* A step of the throttle other than the clock's is a step of each of its subjects.
LEMMA ChangeOfEach ==
    ASSUME IInv', now' = now,
           \A k \in Identities :
               sent'[k] # Never => Throttling!Same(k) \/ Throttling!Begins(k)
    PROVE  Throttling!Change
<1>1. QuietSince' \in [Identities -> Nat \cup {Never}]
  <2>1. CASE up'
    BY <2>1, NextTable, KnownSinceType DEF QuietSince
  <2>2. CASE ~up'
    BY <2>2, SavedSinceType DEF QuietSince, IInv, TimingTypeOK
  <2> QED BY <2>1, <2>2
<1>2. sent' \in [Identities -> Nat \cup {Never}]
  BY DEF IInv, TimingTypeOK
<1>3. \A k \in Identities :
          Throttling!Same(k) \/ Throttling!Begins(k) \/ Throttling!LetGo(k)
  BY DEF Throttling!LetGo, Throttling!Never, Never
<1> QED
  BY <1>1, <1>2, <1>3 DEF Throttling!Change, Throttling!Times, Throttling!Never, Never

-----------------------------------------------------------------------------
(* Steps of the running server.                                              *)

\* A rule that stays the same rule, with its timing, is in the same quiet period.
LEMMA SameRule ==
    ASSUME IInv, IInv', up, up', NEW k \in Identities, sent'[k] = sent[k],
           NEW i \in LiveIn(rules) \cap LiveIn(rules'),
           Identity(rules[i].config) = k, Identity(rules'[i].config) = k,
           rules'[i].lastFiredAt = rules[i].lastFiredAt
    PROVE  Throttling!Same(k)
<1>1. KnownSince(rules, k) = rules[i].lastFiredAt
  BY RunningInv, KnownSinceOfRule
<1>2. KnownSince(rules', k) = rules'[i].lastFiredAt
  BY NextTable, KnownSinceOfRule
<1> QED
  BY <1>1, <1>2 DEF Throttling!Same, QuietSince

LEMMA EditsAreChanges ==
    ASSUME IInv, IInv',
           \/ \E c \in Accepted : AddRule(c)
           \/ \E i \in Ids, c \in Accepted : UpdateRule(i, c)
           \/ \E i \in Ids : RemoveRule(i)
    PROVE  Throttling!Change
<1>1. up /\ up' /\ now' = now
  BY DEF AddRule, CanAdd, UpdateRule, CanUpdate, RemoveRule
<1>2. SUFFICES ASSUME NEW k \in Identities, sent'[k] # Never
               PROVE  Throttling!Same(k)
  BY <1>1, ChangeOfEach
<1>3. PICK i \in LiveIn(rules') : Identity(rules'[i].config) = k
  BY <1>1, <1>2, NextTable
<1>4. Table(rules) /\ Distinct(rules) /\ TimingTypeOK
  BY <1>1, RunningInv DEF IInv
<1>5. ASSUME NEW c \in Accepted, AddRule(c)
      PROVE  /\ sent'[k] = sent[k] /\ i \in LiveIn(rules)
             /\ rules'[i] = rules[i]
  <2>1. sent' = sent /\ nextId \in Ids
    BY <1>5 DEF AddRule, CanAdd
  <2>2. PICK j \in LiveIn(rules) : Identity(rules[j].config) = k
    BY <1>1, <1>2, <2>1, RunningInv
  <2>3. i # nextId
    BY <1>3, <1>4, <1>5, <2>1, <2>2, FreshType
    DEF AddRule, CanAdd, Taken, Adding, IInv, NextIdIsFree, Live, LiveIn, Table
  <2> QED
    BY <1>3, <1>4, <1>5, <2>1, <2>3 DEF AddRule, Adding, LiveIn, Table
<1>6. ASSUME NEW r \in Ids, NEW c \in Accepted, UpdateRule(r, c)
      PROVE  /\ sent'[k] = sent[k] /\ i \in LiveIn(rules)
             /\ Identity(rules[i].config) = k
             /\ rules'[i].lastFiredAt = rules[i].lastFiredAt
  <2>1. r \in LiveIn(rules) /\ rules[r] \in Rules
    BY <1>4, <1>6 DEF UpdateRule, CanUpdate, LiveIn, Table
  <2>2. \A j \in Ids : rules'[j] = IF j # r THEN rules[j]
                                   ELSE IF SameThing(r, c)
                                   THEN [rules[r] EXCEPT !.config = c, !.ver = @ + 1]
                                   ELSE Fresh(c, rules[r].ver + 1)
    BY <1>4, <1>6 DEF UpdateRule, Updating, Table
  <2>3. CASE SameThing(r, c)
    <3>1. sent' = sent
      BY <1>6, <2>3 DEF UpdateRule
    <3>2. CASE i = r
      BY <1>3, <2>1, <2>2, <2>3, <3>1, <3>2 DEF SameThing, Rules, LiveIn
    <3>3. CASE i # r
      BY <1>3, <2>2, <3>1, <3>3 DEF LiveIn
    <3> QED BY <3>2, <3>3
  <2>4. CASE ~SameThing(r, c)
    <3>1. sent' = [sent EXCEPT ![Identity(rules[r].config)] = Never, ![Identity(c)] = Never]
      BY <1>6, <2>4 DEF UpdateRule
    <3>2. k # Identity(c) /\ sent'[k] = sent[k]
      BY <1>2, <1>4, <3>1 DEF TimingTypeOK
    <3>3. i # r
      BY <1>3, <2>1, <2>2, <2>4, <3>2, FreshType DEF Rules
    <3> QED BY <1>3, <2>2, <3>2, <3>3 DEF LiveIn
  <2> QED BY <2>3, <2>4
<1>7. ASSUME NEW r \in Ids, RemoveRule(r)
      PROVE  /\ sent'[k] = sent[k] /\ i \in LiveIn(rules)
             /\ rules'[i] = rules[i]
  <2>1. sent' = [sent EXCEPT ![Identity(rules[r].config)] = Never]
    BY <1>7 DEF RemoveRule
  <2>2. i # r
    BY <1>3, <1>4, <1>7 DEF RemoveRule, Removing, LiveIn, Table
  <2> QED
    BY <1>2, <1>3, <1>4, <1>7, <2>1, <2>2 DEF RemoveRule, Removing, LiveIn, Table, TimingTypeOK
<1> QED
  BY <1>1, <1>3, <1>5, <1>6, <1>7, SameRule

LEMMA DeliveriesAreChanges ==
    ASSUME IInv, IInv', NEW d \in deliveries,
           SpawnFailed(d) \/ \E outcome \in Outcomes : DeliveryClosed(d, outcome)
    PROVE  Throttling!Change
<1>1. up /\ up' /\ now' = now /\ sent' = sent
  BY DEF SpawnFailed, DeliveryClosed
<1>2. PICK outcome \in Errors : rules' = Marked(d, outcome)
  BY DEF SpawnFailed, DeliveryClosed, Outcomes, Errors
<1>3. SUFFICES ASSUME NEW k \in Identities, sent'[k] # Never
               PROVE  Throttling!Same(k)
  BY <1>1, ChangeOfEach
<1>4. PICK i \in LiveIn(rules') : Identity(rules'[i].config) = k
  BY <1>1, <1>3, NextTable
<1>5. i \in LiveIn(rules) /\ rules'[i].config = rules[i].config
      /\ rules'[i].lastFiredAt = rules[i].lastFiredAt
  BY <1>1, <1>2, <1>4, MarkingARule
<1> QED
  BY <1>1, <1>4, <1>5, SameRule

LEMMA CooldownIsLongEnough == \A c \in Accepted : c.cooldown \in Nat /\ c.cooldown >= MinCooldown
<1>1. SUFFICES ASSUME NEW in \in Inputs
               PROVE  Normal(in).cooldown \in Nat /\ Normal(in).cooldown >= MinCooldown
  BY DEF Accepted
<1>2. in \in Configs
  BY AlertsAssumption
<1>3. \A n \in Int : /\ (IF n < MinCooldown THEN MinCooldown ELSE n) \in Nat
                     /\ (IF n < MinCooldown THEN MinCooldown ELSE n) >= MinCooldown
  BY AlertsAssumption
<1> QED
  BY <1>2, <1>3 DEF Configs, Normal

\* A rule that may fire has had at least the shortest quiet period.
LEMMA CooledDownIsOver ==
    ASSUME IInv, up, NEW i \in LiveIn(rules), CooledDown(rules[i])
    PROVE  Throttling!Over(Identity(rules[i].config))
<1> DEFINE k == Identity(rules[i].config)
<1>1. rules[i] \in Rules /\ k \in Identities /\ KnownSince(rules, k) = rules[i].lastFiredAt
  BY RunningInv, KnownSinceOfRule
<1>2. QuietSince[k] = rules[i].lastFiredAt
  BY <1>1 DEF QuietSince
<1>3. now \in Nat
  BY DEF IInv, TimingTypeOK
<1>4. /\ rules[i].config.cooldown \in Nat /\ rules[i].config.cooldown >= MinCooldown
      /\ rules[i].lastFiredAt \in Nat \cup {Never} /\ MinCooldown \in Nat
  BY <1>1, CooldownIsLongEnough, AlertsAssumption DEF Rules
<1> HIDE DEF k
<1>5. CASE rules[i].lastFiredAt = Never
  BY <1>2, <1>5 DEF Throttling!Over, Throttling!Never, Never, k
<1>6. CASE rules[i].lastFiredAt # Never
  <2>1. now - rules[i].lastFiredAt >= rules[i].config.cooldown
    BY <1>6 DEF CooledDown
  <2>2. now - rules[i].lastFiredAt >= MinCooldown
    BY <1>3, <1>4, <1>6, <2>1
  <2> QED BY <1>2, <2>2 DEF Throttling!Over, k
<1> QED
  BY <1>5, <1>6

LEMMA EvaluateIsChange ==
    ASSUME IInv, IInv', NEW deliverable \in Reachable, Evaluate(deliverable)
    PROVE  Throttling!Change
<1> DEFINE due == {i \in Matching : CooledDown(rules[i])}
<1>1. /\ up /\ up' /\ now' = now
      /\ rules' = AfterFiring(due, deliverable)
      /\ sent' = IF deliverable THEN SentTo(due) ELSE sent
      /\ due \in SUBSET LiveIn(rules)
      /\ deliverable \in BOOLEAN
  BY AlertsAssumption DEF Evaluate, Matching, Live, LiveIn
<1>2. \A i \in due : CooledDown(rules[i])
  OBVIOUS
<1> HIDE DEF due
<1>3. /\ LiveIn(rules') = LiveIn(rules)
      /\ \A i \in LiveIn(rules) :
             /\ rules'[i].config = rules[i].config
             /\ rules'[i].lastFiredAt = IF i \in due THEN now ELSE rules[i].lastFiredAt
  BY <1>1, FiringRules
<1>4. SUFFICES ASSUME NEW k \in Identities, sent'[k] # Never
               PROVE  Throttling!Same(k) \/ Throttling!Begins(k)
  BY <1>1, ChangeOfEach
<1>5. PICK i \in LiveIn(rules') : Identity(rules'[i].config) = k
  BY <1>1, <1>4, NextTable
<1>6. CASE i \in due
  <2>1. Throttling!Over(k)
    BY <1>1, <1>2, <1>3, <1>5, <1>6, CooledDownIsOver
  <2>2. KnownSince(rules', k) = rules'[i].lastFiredAt
    BY <1>1, <1>5, NextTable, KnownSinceOfRule
  <2>3. QuietSince'[k] = now
    BY <1>1, <1>3, <1>5, <1>6, <2>2 DEF QuietSince
  <2>4. sent'[k] \in {sent[k], now}
    BY <1>1 DEF SentTo
  <2> QED BY <2>1, <2>3, <2>4 DEF Throttling!Begins
<1>7. CASE i \notin due
  <2>1. \A j \in due : Identity(rules[j].config) # k
    BY <1>1, <1>3, <1>5, <1>7, RunningInv DEF Distinct
  <2>2. sent'[k] = sent[k]
    BY <1>1, <2>1 DEF SentTo
  <2> QED BY <1>1, <1>3, <1>5, <1>7, <2>2, SameRule
<1> QED
  BY <1>6, <1>7

-----------------------------------------------------------------------------
(* Crashes and restarts.                                                     *)

\* What the server leaves on disk when it goes down.
LEMMA Left ==
    ASSUME ~up', NEW k \in Identities,
           \E i \in Ids : file'[i] # NoRule /\ Identity(file'[i]) = k,
           stateFile'[k] # NoTiming
    PROVE  QuietSince'[k] = stateFile'[k].lastFiredAt
BY DEF QuietSince, SavedSince

\* A crash that leaves the timing file as it is, or torn.
LEMMA CrashIsChange ==
    ASSUME IInv, IInv', up, NEW f,
           GoDown(f, stateFile, sent, FALSE) \/ GoDown(f, TornState, sent, TRUE)
    PROVE  Throttling!Change
<1>1. now' = now
  BY DEF GoDown
<1>2. SUFFICES ASSUME NEW k \in Identities, sent'[k] # Never
               PROVE  Throttling!Same(k)
  BY <1>1, ChangeOfEach
<1>3. /\ ~up' /\ stateFile' = stateFile /\ file' = f /\ sent'[k] = sent[k]
      /\ \E i \in Ids : f[i] # NoRule /\ Identity(f[i]) = k
  BY <1>2 DEF GoDown
<1>4. PICK i \in LiveIn(rules) : Identity(rules[i].config) = k
  BY <1>2, <1>3, RunningInv
<1>5. /\ rules[i] \in Rules /\ stateFile[k] = TimingOf(rules[i])
      /\ KnownSince(rules, k) = rules[i].lastFiredAt
  BY <1>2, <1>3, <1>4, RunningInv, KnownSinceOfRule
<1>6. TimingOf(rules[i]) \in Timings /\ TimingOf(rules[i]).lastFiredAt = rules[i].lastFiredAt
  BY <1>5 DEF TimingOf, Rules, Timings
<1> QED
  BY <1>3, <1>5, <1>6, Left, TimingIsNotNoTiming DEF Throttling!Same, QuietSince

LEMMA CrashInEvaluateIsChange ==
    ASSUME IInv, IInv', NEW deliverable \in Reachable, CrashInEvaluate(deliverable)
    PROVE  Throttling!Change
<1> DEFINE due == {i \in Matching : CooledDown(rules[i])}
<1>1. up /\ deliverable \in BOOLEAN /\ due \in SUBSET LiveIn(rules)
      /\ \A i \in due : CooledDown(rules[i])
  BY AlertsAssumption DEF CrashInEvaluate, CanCrash, Matching, Live, LiveIn
<1>2. CASE GoDown(file, TornState, sent, TRUE)
  BY <1>1, <1>2, CrashIsChange
<1>3. ASSUME NEW last \in due, NEW left \in LeftWhen(due, last),
             GoDown(file, SavedState(AfterFiring(SavedWhen(due, last), deliverable)),
                    IF deliverable THEN SentTo(left) ELSE sent, FALSE)
      PROVE  Throttling!Change
  <2> DEFINE S == SavedWhen(due, last)
             rs == AfterFiring(S, deliverable)
             ls == IF deliverable THEN SentTo(left) ELSE sent
  <2>1. S \subseteq due /\ left \subseteq S
    <3> HIDE DEF due
    <3>1. last \in Nat /\ due \subseteq Nat
      BY <1>1, AlertsAssumption DEF LiveIn
    <3>2. left = {i \in due : i < last} \/ left = {i \in due : i <= last}
      BY DEF LeftWhen
    <3>3. \A i \in due : i < last => i <= last
      BY <3>1
    <3> QED BY <3>2, <3>3 DEF SavedWhen
  <2> HIDE DEF S, due
  <2>2. /\ Table(rs) /\ Distinct(rs) /\ LiveIn(rs) = LiveIn(rules)
        /\ \A i \in LiveIn(rules) :
              /\ rs[i].config = rules[i].config
              /\ rs[i].lastFiredAt = IF i \in S THEN now ELSE rules[i].lastFiredAt
    BY <1>1, <2>1, FiringRules
  <2>3. GoDown(file, SavedState(rs), ls, FALSE)
    BY <1>3 DEF rs, ls, S
  <2> HIDE DEF rs, ls
  <2>4. now' = now
    BY <2>3 DEF GoDown
  <2>5. SUFFICES ASSUME NEW k \in Identities, sent'[k] # Never
                 PROVE  Throttling!Same(k) \/ Throttling!Begins(k)
    BY <2>4, ChangeOfEach
  <2>6. /\ ~up' /\ stateFile' = SavedState(rs) /\ file' = file /\ sent'[k] = ls[k]
        /\ \E i \in Ids : file[i] # NoRule /\ Identity(file[i]) = k
    BY <2>3, <2>5 DEF GoDown
  <2>7. PICK i \in LiveIn(rules) : Identity(rules[i].config) = k
    BY <1>1, <2>6, RunningInv, ConfigsOfType
  <2>8. /\ rules[i] \in Rules /\ Distinct(rules) /\ now \in Nat
        /\ KnownSince(rules, k) = rules[i].lastFiredAt
    BY <1>1, <2>7, RunningInv, KnownSinceOfRule DEF IInv, TimingTypeOK
  <2>9. ASSUME rs[i].lastFiredAt # Never
        PROVE  QuietSince'[k] = rs[i].lastFiredAt
    <3>1. SavedState(rs)[k] = TimingOf(rs[i])
      BY <2>2, <2>7, <2>9, SavedStateEntry
    <3>2. rs[i] \in Rules
      BY <2>2, <2>7 DEF Table, LiveIn
    <3>3. TimingOf(rs[i]) \in Timings /\ TimingOf(rs[i]).lastFiredAt = rs[i].lastFiredAt
      BY <3>2 DEF TimingOf, Rules, Timings
    <3> QED BY <2>6, <3>1, <3>3, Left, TimingIsNotNoTiming
  <2>10. CASE i \in S
    <3>1. Throttling!Over(k)
      BY <1>1, <2>1, <2>7, <2>10, CooledDownIsOver
    <3>2. QuietSince'[k] = now
      BY <2>2, <2>7, <2>8, <2>9, <2>10 DEF Never
    <3>3. sent'[k] \in {sent[k], now}
      BY <2>6 DEF SentTo, ls
    <3> QED BY <3>1, <3>2, <3>3 DEF Throttling!Begins
  <2>11. CASE i \notin S
    <3>1. \A j \in left : Identity(rules[j].config) # k
      BY <1>1, <2>1, <2>7, <2>8, <2>11 DEF Distinct
    <3>2. sent'[k] = sent[k]
      BY <2>6, <3>1 DEF SentTo, ls
    <3>3. rules[i].lastFiredAt # Never
      BY <1>1, <2>5, <2>7, <3>2, RunningInv
    <3>4. QuietSince'[k] = QuietSince[k]
      BY <1>1, <2>2, <2>7, <2>8, <2>9, <2>11, <3>3 DEF QuietSince
    <3> QED BY <3>2, <3>4 DEF Throttling!Same
  <2> QED BY <2>10, <2>11
<1> QED
  BY <1>2, <1>3 DEF CrashInEvaluate

\* A restart knows what the files say.
LEMMA RestartIsChange ==
    ASSUME IInv, IInv', Restart
    PROVE  Throttling!Change
<1>1. ~up /\ up' /\ rules' = Loaded /\ UNCHANGED <<now, sent, file, stateFile>>
  BY DEF Restart, disk
<1>2. SUFFICES ASSUME NEW k \in Identities, sent'[k] # Never
               PROVE  Throttling!Same(k)
  BY <1>1, ChangeOfEach
<1>3. PICK i \in LiveIn(rules') : Identity(rules'[i].config) = k
  BY <1>1, <1>2, NextTable
<1>4. file' = ConfigsOf(rules') /\ Table(rules') /\ Distinct(rules')
  BY <1>1, NextTable DEF IInv, FileIsCurrent
<1>5. i \in Ids /\ file[i] # NoRule /\ Identity(file[i]) = k
  BY <1>1, <1>3, <1>4, ConfigsOfType DEF LiveIn
<1>6. stateFile[k] # NoTiming
  BY <1>1, <1>2, <1>5 DEF IInv, SentIsHonoured
<1>7. rules'[i].lastFiredAt = stateFile[k].lastFiredAt
  BY <1>1, <1>5, <1>6 DEF Loaded, Fresh
<1>8. KnownSince(rules', k) = rules'[i].lastFiredAt
  BY <1>3, <1>4, KnownSinceOfRule
<1>9. SavedSince(file, stateFile, k) = stateFile[k].lastFiredAt
  BY <1>5, <1>6 DEF SavedSince
<1> QED
  BY <1>1, <1>7, <1>8, <1>9 DEF Throttling!Same, QuietSince

-----------------------------------------------------------------------------
(* The refinement.                                                           *)

LEMMA InitIsInit == Init => Throttling!Init
<1> SUFFICES ASSUME Init PROVE Throttling!Init
  OBVIOUS
<1>1. \A k \in Identities : {i \in LiveIn(rules) : Identity(rules[i].config) = k} = {}
  BY DEF Init, LiveIn
<1>2. \A k \in Identities : KnownSince(rules, k) = Never
  BY <1>1, Zenon DEF KnownSince
<1> QED
  BY <1>2 DEF Init, QuietSince, Throttling!Init, Throttling!Never, Never

\* Steps that the throttle does not see.
LEMMA SameTiming ==
    ASSUME UNCHANGED <<up, rules, file, stateFile>>
    PROVE  QuietSince' = QuietSince
BY DEF QuietSince, KnownSince, SavedSince, LiveIn

LEMMA StepIsStep ==
    ASSUME IInv, SentIsPast, [Next]_vars
    PROVE  [Throttling!Next]_Throttling!vars
<1>1. CASE Tick
  <2>1. QuietSince' = QuietSince /\ sent' = sent /\ now' = now + 1
    BY <1>1, SameTiming DEF Tick, disk
  <2> QED BY <2>1 DEF Throttling!Next, Throttling!Tick
<1>2. CASE \/ \E e \in Endpoints, code \in Codes : Response(e, code)
           \/ Respawn
           \/ Reset
           \/ TakeBaseline
           \/ UNCHANGED vars
  <2>1. UNCHANGED <<up, rules, file, stateFile, sent, now>>
    BY <1>2 DEF Response, Respawn, Reset, TakeBaseline, vars, disk
  <2> QED BY <2>1, SameTiming DEF Throttling!vars
<1>3. ASSUME Next
      PROVE  IInv'
  BY <1>3, NextKeepsIInv
<1>4. CASE \/ \E c \in Accepted : AddRule(c)
           \/ \E i \in Ids, c \in Accepted : UpdateRule(i, c)
           \/ \E i \in Ids : RemoveRule(i)
  BY <1>3, <1>4, EditsAreChanges DEF Next, Throttling!Next
<1>5. CASE \E deliverable \in Reachable : Evaluate(deliverable)
  BY <1>3, <1>5, EvaluateIsChange DEF Next, Throttling!Next
<1>6. CASE \/ \E d \in deliveries : SpawnFailed(d)
           \/ \E d \in deliveries, outcome \in Outcomes : DeliveryClosed(d, outcome)
  BY <1>3, <1>6, DeliveriesAreChanges DEF Next, Throttling!Next
<1>7. CASE Crash \/ CrashInEdit \/ CrashInDelivery
  <2>1. IInv' /\ up
    BY <1>3, <1>7 DEF Next, Crash, CrashInEdit, CrashInDelivery, GoDown, CanCrash
  <2>2. \E f : GoDown(f, stateFile, sent, FALSE) \/ GoDown(f, TornState, sent, TRUE)
    BY <1>7 DEF Crash, CrashInEdit, CrashInRewrite, CrashInDelivery
  <2> QED BY <2>1, <2>2, CrashIsChange DEF Throttling!Next
<1>8. CASE \E deliverable \in Reachable : CrashInEvaluate(deliverable)
  BY <1>3, <1>8, CrashInEvaluateIsChange DEF Next, Throttling!Next
<1>9. CASE Restart
  BY <1>3, <1>9, RestartIsChange DEF Next, Throttling!Next
<1> QED
  BY <1>1, <1>2, <1>4, <1>5, <1>6, <1>7, <1>8, <1>9 DEF Next

\* The rules, their files, their crashes and their restarts implement the throttle:
\* fire() begins a quiet period only when the last one is over, saves it before the alert
\* leaves, and load() finds it again.
THEOREM ImplementsThrottle == Spec => IsThrottle
<1>1. IInv /\ SentIsPast /\ [Next]_vars => [Throttling!Next]_Throttling!vars
  BY StepIsStep
<1> QED
  BY <1>1, InitIsInit, Invariants, PTL DEF Spec, IsThrottle, Throttling!Spec

-----------------------------------------------------------------------------
(* Counting.  A table says for each endpoint and each code how many.          *)

Counts == [Endpoints -> [Codes -> Nat]]

\* What a rule makes of a table.
Gain(c, d) == SumOver(Scope(c), [e \in Endpoints |-> SumOver(Watched(c), d[e])])

LEMMA CodesAreFew == IsFiniteSet(Codes) /\ IsFiniteSet(Endpoints)
<1>1. IsFiniteSet(100..599)
  <2>1. \A a, b \in Int : IsFiniteSet(a..b)
    BY FS_Interval, Zenon
  <2>2. PICK lo \in Int, hi \in Int : lo = 100 /\ hi = 599
    OBVIOUS
  <2>3. IsFiniteSet(lo..hi)
    BY <2>1
  <2> QED BY <2>2, <2>3, Zenon
<1> QED
  BY <1>1, FS_Subset, AlertsAssumption

LEMMA ScopeType ==
    ASSUME NEW c \in Accepted
    PROVE  /\ Scope(c) \subseteq Endpoints /\ IsFiniteSet(Scope(c))
           /\ Watched(c) \subseteq Codes /\ IsFiniteSet(Watched(c))
<1>1. Scope(c) \subseteq Endpoints
  BY AcceptedType DEF Scope, Configs
<1>2. Watched(c) \subseteq Codes
  BY DEF Watched
<1> QED
  BY <1>1, <1>2, CodesAreFew, FS_Subset

LEMMA GainType ==
    ASSUME NEW c \in Accepted, NEW d \in Counts
    PROVE  Gain(c, d) \in Nat
<1> DEFINE row == [e \in Endpoints |-> SumOver(Watched(c), d[e])]
<1>1. \A e \in Scope(c) : row[e] \in Nat
  <2> SUFFICES ASSUME NEW e \in Scope(c)
               PROVE  SumFunctionOnSet(d[e], Watched(c)) \in Nat
    BY ScopeType DEF SumOver
  <2>1. \A code \in Watched(c) : d[e][code] \in Nat
    BY ScopeType DEF Counts
  <2> QED BY <2>1, ScopeType, SumNat
<1> HIDE DEF row
<1>2. SumFunctionOnSet(row, Scope(c)) \in Nat
  BY <1>1, ScopeType, SumNat
<1> QED
  BY <1>2 DEF row, Gain, SumOver

LEMMA GainZero ==
    ASSUME NEW c \in Accepted, NEW d, \A e \in Scope(c), code \in Watched(c) : d[e][code] = 0
    PROVE  Gain(c, d) = 0
<1> DEFINE row == [e \in Endpoints |-> SumOver(Watched(c), d[e])]
<1>1. \A e \in Scope(c) : row[e] = 0
  <2> SUFFICES ASSUME NEW e \in Scope(c)
               PROVE  SumFunctionOnSet(d[e], Watched(c)) = 0
    BY ScopeType DEF SumOver
  <2>1. \A code \in Watched(c) : d[e][code] = 0
    OBVIOUS
  <2> QED BY <2>1, ScopeType, SumZero
<1> HIDE DEF row
<1>2. SumFunctionOnSet(row, Scope(c)) = 0
  BY <1>1, ScopeType, SumZero
<1> QED
  BY <1>2 DEF row, Gain, SumOver

LEMMA GainSame ==
    ASSUME NEW c \in Accepted, NEW d, NEW d2,
           \A e \in Scope(c), code \in Watched(c) : d[e][code] = d2[e][code]
    PROVE  Gain(c, d) = Gain(c, d2)
<1> DEFINE row(x) == [e \in Endpoints |-> SumOver(Watched(c), x[e])]
<1>1. \A e \in Scope(c) : row(d)[e] = row(d2)[e]
  <2> SUFFICES ASSUME NEW e \in Scope(c)
               PROVE  SumFunctionOnSet(d[e], Watched(c)) = SumFunctionOnSet(d2[e], Watched(c))
    BY ScopeType DEF SumOver
  <2>1. \A code \in Watched(c) : d[e][code] = d2[e][code]
    OBVIOUS
  <2> QED BY <2>1, ScopeType, SumSame
<1> HIDE DEF row
<1>2. SumFunctionOnSet(row(d), Scope(c)) = SumFunctionOnSet(row(d2), Scope(c))
  BY <1>1, ScopeType, SumSame
<1> QED
  BY <1>2 DEF row, Gain, SumOver

LEMMA GainLeq ==
    ASSUME NEW c \in Accepted, NEW d \in Counts, NEW d2 \in Counts,
           \A e \in Scope(c), code \in Watched(c) : d[e][code] <= d2[e][code]
    PROVE  Gain(c, d) <= Gain(c, d2)
<1> DEFINE row(x) == [e \in Endpoints |-> SumOver(Watched(c), x[e])]
<1>1. \A e \in Scope(c) : row(d)[e] \in Int /\ row(d2)[e] \in Int /\ row(d)[e] <= row(d2)[e]
  <2> SUFFICES ASSUME NEW e \in Scope(c)
               PROVE  /\ SumFunctionOnSet(d[e], Watched(c)) \in Int
                      /\ SumFunctionOnSet(d2[e], Watched(c)) \in Int
                      /\ SumFunctionOnSet(d[e], Watched(c)) <= SumFunctionOnSet(d2[e], Watched(c))
    BY ScopeType DEF SumOver
  <2>1. \A code \in Watched(c) : d[e][code] \in Int /\ d2[e][code] \in Int
                                 /\ d[e][code] <= d2[e][code]
    BY ScopeType DEF Counts
  <2> QED BY <2>1, ScopeType, SumLeq, SumType
<1> HIDE DEF row
<1>2. SumFunctionOnSet(row(d), Scope(c)) <= SumFunctionOnSet(row(d2), Scope(c))
  BY <1>1, ScopeType, SumLeq
<1> QED
  BY <1>2 DEF row, Gain, SumOver

\* One response more is one more for each rule that watches it.
LEMMA GainOfOne ==
    ASSUME NEW c \in Accepted, NEW d \in Counts, NEW e \in Endpoints, NEW code \in Codes,
           NEW d2, \A f \in Endpoints \ {e} : d2[f] = d[f],
           \A x \in Codes \ {code} : d2[e][x] = d[e][x], d2[e][code] = d[e][code] + 1
    PROVE  Gain(c, d2) = Gain(c, d) + (IF e \in Scope(c) /\ code \in Watched(c) THEN 1 ELSE 0)
<1> DEFINE row(x) == [f \in Endpoints |-> SumOver(Watched(c), x[f])]
<1>1. /\ \A f \in Endpoints \ {e} : d2[f] = d[f]
      /\ \A x \in Codes : d[e][x] \in Nat
      /\ \A x \in Codes \ {code} : d2[e][x] = d[e][x]
      /\ d2[e][code] = d[e][code] + 1
  BY DEF Counts
<1>2. \A f \in Scope(c) : row(d)[f] \in Int
  <2> SUFFICES ASSUME NEW f \in Scope(c)
               PROVE  SumFunctionOnSet(d[f], Watched(c)) \in Int
    BY ScopeType DEF SumOver
  <2>1. \A x \in Watched(c) : d[f][x] \in Int
    BY ScopeType DEF Counts
  <2> QED BY <2>1, ScopeType, SumType
<1>3. \A f \in Endpoints : row(d)[f] = SumFunctionOnSet(d[f], Watched(c))
                           /\ row(d2)[f] = SumFunctionOnSet(d2[f], Watched(c))
  BY DEF SumOver
<1>4. Gain(c, d) = SumFunctionOnSet(row(d), Scope(c))
      /\ Gain(c, d2) = SumFunctionOnSet(row(d2), Scope(c))
  BY DEF Gain, SumOver
<1> HIDE DEF row
<1>5. CASE e \notin Scope(c) \/ code \notin Watched(c)
  <2>1. \A f \in Scope(c), x \in Watched(c) : d2[f][x] = d[f][x]
    BY <1>1, <1>5, ScopeType
  <2>2. Gain(c, d2) = Gain(c, d)
    BY ONLY c \in Accepted, <2>1, GainSame
  <2> QED BY <1>5, <2>2, GainType
<1>6. CASE e \in Scope(c) /\ code \in Watched(c)
  <2>1. SumFunctionOnSet(d2[e], Watched(c))
            = SumFunctionOnSet(d[e], Watched(c)) + (d2[e][code] - d[e][code])
    <3>1. /\ \A x \in Watched(c) : d[e][x] \in Int
          /\ d2[e][code] \in Int
          /\ \A x \in Watched(c) \ {code} : d[e][x] = d2[e][x]
      BY <1>1, <1>6, ScopeType
    <3> QED BY <1>6, <3>1, ScopeType, SumChange
  <2>2. row(d2)[e] = row(d)[e] + 1 /\ row(d)[e] \in Int
    BY <1>1, <1>2, <1>3, <1>6, <2>1
  <2>3. \A f \in Scope(c) \ {e} : row(d)[f] = row(d2)[f]
    BY <1>1, <1>3, ScopeType
  <2>4. SumFunctionOnSet(row(d2), Scope(c))
            = SumFunctionOnSet(row(d), Scope(c)) + (row(d2)[e] - row(d)[e])
    BY <1>2, <1>6, <2>2, <2>3, ScopeType, SumChange
  <2> QED BY <1>4, <1>6, <2>2, <2>4, GainType
<1> QED
  BY <1>5, <1>6

-----------------------------------------------------------------------------
(* What a snapshot adds.                                                      *)

News(c) == [e \in Endpoints |-> Delta(c, e)]

LEMMA DeltaType ==
    ASSUME tally \in Counts, prevStatus \in Counts, NEW c \in Accepted
    PROVE  /\ News(c) \in Counts
           /\ \A e \in Endpoints, code \in Codes :
                /\ News(c)[e][code] <= tally[e][code]
                /\ code \notin Watched(c) => News(c)[e][code] = 0
BY DEF News, Delta, Counts

LEMMA NewMatchesIsGain ==
    ASSUME tally \in Counts, prevStatus \in Counts, NEW c \in Accepted
    PROVE  /\ NewMatches(c) = Gain(c, News(c))
           /\ \A e \in Endpoints : NewAt(c, e) \in Nat
           /\ NewMatches(c) \in Nat
<1>1. ASSUME NEW e \in Endpoints
      PROVE  NewAt(c, e) = SumOver(Watched(c), News(c)[e]) /\ NewAt(c, e) \in Nat
  <2> DEFINE d == Delta(c, e)
  <2>1. d = News(c)[e] /\ \A x \in Codes : d[x] \in Nat /\ d[x] \in Int
    BY DeltaType DEF News, Counts
  <2>2. \A x \in Codes \ Watched(c) : d[x] = 0
    BY <2>1, DeltaType
  <2> HIDE DEF d
  <2>3. SumFunctionOnSet(d, Codes) = SumFunctionOnSet(d, Watched(c))
                                      + SumFunctionOnSet(d, Codes \ Watched(c))
    BY <2>1, ScopeType, CodesAreFew, SumSplit
  <2>4. SumFunctionOnSet(d, Codes \ Watched(c)) = 0
    BY <2>2, CodesAreFew, FS_Subset, SumZero
  <2>5. SumFunctionOnSet(d, Codes) \in Nat /\ SumFunctionOnSet(d, Watched(c)) \in Nat
    BY <2>1, ScopeType, CodesAreFew, SumNat
  <2>6. NewAt(c, e) = SumFunctionOnSet(d, Codes)
    BY DEF NewAt, SumOver, d
  <2> QED BY <2>1, <2>3, <2>4, <2>5, <2>6 DEF SumOver
<1>2. [e \in Endpoints |-> NewAt(c, e)] = [e \in Endpoints |-> SumOver(Watched(c), News(c)[e])]
  BY <1>1
<1>3. NewMatches(c) = Gain(c, News(c))
  BY <1>2 DEF NewMatches, Gain
<1> QED
  BY <1>1, <1>3, DeltaType, GainType

\* By endpoint or by code, a snapshot's news are as many.
LEMMA NewsByCode ==
    ASSUME tally \in Counts, prevStatus \in Counts, NEW c \in Accepted
    PROVE  /\ \A code \in Codes : NewOf(c, code) \in Nat
           /\ SumOver(Codes, [code \in Codes |-> NewOf(c, code)]) = NewMatches(c)
<1> DEFINE S == Scope(c)
           f == [e \in Endpoints |-> Delta(c, e)]
<1>1. \A e \in Endpoints, code \in Codes : f[e][code] \in Nat /\ f[e][code] \in Int
  BY DeltaType DEF News, Counts
<1>2. S \subseteq Endpoints /\ IsFiniteSet(S) /\ IsFiniteSet(Codes)
  BY ScopeType, CodesAreFew
<1>3. SumFunctionOnSet([e \in S |-> SumFunctionOnSet(f[e], Codes)], S)
        = SumFunctionOnSet([y \in Codes |-> SumFunctionOnSet([e \in S |-> f[e][y]], S)], Codes)
  <2> HIDE DEF f, S
  <2> QED BY <1>1, <1>2, SumByRowOrColumn
<1>4. NewMatches(c) = SumFunctionOnSet([e \in S |-> SumFunctionOnSet(f[e], Codes)], S)
  <2> DEFINE g == [e \in Endpoints |-> NewAt(c, e)]
             h == [e \in S |-> SumFunctionOnSet(f[e], Codes)]
  <2>1. \A e \in S : g[e] = h[e]
    BY <1>2 DEF NewAt, SumOver
  <2> HIDE DEF g, h
  <2>2. SumFunctionOnSet(g, S) = SumFunctionOnSet(h, S)
    BY <1>2, <2>1, SumSame
  <2> QED BY <2>2 DEF g, h, NewMatches, SumOver
<1>5. ASSUME NEW y \in Codes
      PROVE  NewOf(c, y) = SumFunctionOnSet([e \in S |-> f[e][y]], S) /\ NewOf(c, y) \in Nat
  <2> DEFINE g == [e \in Endpoints |-> Delta(c, e)[y]]
             h == [e \in S |-> f[e][y]]
  <2>1. \A e \in S : g[e] = h[e] /\ g[e] \in Nat
    BY <1>1, <1>2
  <2> HIDE DEF g, h
  <2>2. SumFunctionOnSet(g, S) = SumFunctionOnSet(h, S) /\ SumFunctionOnSet(g, S) \in Nat
    BY <1>2, <2>1, SumSame, SumNat
  <2> QED BY <2>2 DEF g, h, NewOf, SumOver
<1>6. [y \in Codes |-> NewOf(c, y)]
        = [y \in Codes |-> SumFunctionOnSet([e \in S |-> f[e][y]], S)]
  BY <1>5
<1> QED
  BY <1>3, <1>4, <1>5, <1>6 DEF SumOver

-----------------------------------------------------------------------------
(* The books.                                                                *)

Quiets == [matched : Nat, pending : [Endpoints -> Nat], codes : [Codes -> Nat]]
Agree(q) == q.matched = SumOver(Endpoints, q.pending) /\ q.matched = SumOver(Codes, q.codes)

\* What the next snapshot will show of a code: after an unannounced restart of the probe,
\* all that its counters hold.
AheadOf(rp, tl, pv) == [e \in Endpoints |-> [code \in Codes |->
                           IF rp THEN tl[e][code] ELSE tl[e][code] - pv[e][code]]]
UnseenOf(c, sd, rp, tl, pv) == IF ~sd THEN 0 ELSE Gain(c, AheadOf(rp, tl, pv))
Counter(rp, tl, pv) ==
    /\ tl \in Counts /\ pv \in Counts
    /\ ~rp => \A e \in Endpoints, code \in Codes : pv[e][code] <= tl[e][code]

\* A rule's account: what it told, holds and will see is no more than what it owes, and
\* no less unless the probe restarted without notice.
Balanced(o, t, q, u, rp) == t + q + u <= o /\ (~rp => o = t + q + u)
Account(i) == Balanced(owed[i], told[i], quiet[i].matched, Unseen(rules[i].config), respawned)

Books ==
    /\ seeded \in BOOLEAN /\ respawned \in BOOLEAN
    /\ ~seeded => ~respawned /\ prevStatus = Zero
    /\ Counter(respawned, tally, prevStatus)
    /\ quiet \in [Ids -> Quiets] /\ owed \in [Ids -> Nat] /\ told \in [Ids -> Nat]
    /\ \A i \in Ids : Agree(quiet[i])
    /\ \A i \in Live : Account(i)
    /\ ~up => ~seeded /\ \A i \in Ids : quiet[i] = NoMatches /\ owed[i] = 0 /\ told[i] = 0

LEMMA UnseenIsGain ==
    ASSUME NEW c
    PROVE  /\ Unseen(c) = UnseenOf(c, seeded, respawned, tally, prevStatus)
           /\ Unseen(c)' = UnseenOf(c, seeded', respawned', tally', prevStatus')
<1>1. [e \in Endpoints |-> UnseenAt(c, e)]
        = [e \in Endpoints |-> SumOver(Watched(c), AheadOf(respawned, tally, prevStatus)[e])]
  BY DEF UnseenAt, AheadOf
<1>2. [e \in Endpoints |-> UnseenAt(c, e)']
        = [e \in Endpoints |-> SumOver(Watched(c), AheadOf(respawned', tally', prevStatus')[e])]
  BY DEF UnseenAt, AheadOf
<1> QED
  BY <1>1, <1>2 DEF Unseen, UnseenOf, Gain

LEMMA AheadType ==
    ASSUME NEW rp, NEW tl, NEW pv, Counter(rp, tl, pv)
    PROVE  AheadOf(rp, tl, pv) \in Counts
<1>1. ASSUME NEW e \in Endpoints, NEW code \in Codes
      PROVE  (IF rp THEN tl[e][code] ELSE tl[e][code] - pv[e][code]) \in Nat
  BY DEF Counter, Counts
<1> QED
  BY <1>1 DEF AheadOf, Counts

LEMMA UnseenType ==
    ASSUME NEW sd, NEW rp, NEW tl, NEW pv, Counter(rp, tl, pv), NEW c \in Accepted
    PROVE  UnseenOf(c, sd, rp, tl, pv) \in Nat
BY AheadType, GainType DEF UnseenOf

LEMMA NothingUnseen ==
    ASSUME NEW sd, NEW rp, NEW tl, NEW pv, NEW c \in Accepted,
           \A e \in Endpoints, code \in Codes : AheadOf(rp, tl, pv)[e][code] = 0
    PROVE  UnseenOf(c, sd, rp, tl, pv) = 0
<1>1. Gain(c, AheadOf(rp, tl, pv)) = 0
  BY ScopeType, GainZero
<1> QED BY <1>1 DEF UnseenOf

\* Rules that watch the same thing see the same.
LEMMA SameUnseen ==
    ASSUME NEW c, NEW c2, Identity(c) = Identity(c2), NEW sd, NEW rp, NEW tl, NEW pv
    PROVE  UnseenOf(c, sd, rp, tl, pv) = UnseenOf(c2, sd, rp, tl, pv)
<1>1. c.key = c2.key /\ c.when = c2.when /\ c.code = c2.code
  BY DEF Identity
<1>2. Watched(c) = Watched(c2) /\ Scope(c) = Scope(c2)
  BY <1>1 DEF Watched, Scope
<1> QED
  BY <1>2 DEF UnseenOf, Gain

LEMMA ZeroCounts ==
    /\ Zero \in Counts
    /\ \A rp : Counter(rp, Zero, Zero)
    /\ \A e \in Endpoints, code \in Codes : Zero[e][code] = 0
BY DEF Zero, Counts, Counter

LEMMA NoMatchesAgree == NoMatches \in Quiets /\ NoMatches.matched = 0 /\ Agree(NoMatches)
<1>1. SumFunctionOnSet([e \in Endpoints |-> 0], Endpoints) = 0
  BY CodesAreFew, SumZero
<1>2. SumFunctionOnSet([c \in Codes |-> 0], Codes) = 0
  BY CodesAreFew, SumZero
<1>3. NoMatches \in Quiets
  BY DEF NoMatches, Quiets
<1> QED
  BY <1>1, <1>2, <1>3 DEF NoMatches, Agree, SumOver

LEMMA LiveRules ==
    ASSUME IInv
    PROVE  \A i \in Live : rules[i] \in Rules /\ rules[i].config \in Accepted /\ i \in Ids
BY DEF IInv, TimingTypeOK, Live, Rules

LEMMA InitBooks == Init => Books
<1> SUFFICES ASSUME Init PROVE Books
  OBVIOUS
<1>1. Live = {} /\ up
  BY DEF Init, Live
<1> QED
  BY <1>1, ZeroCounts, NoMatchesAgree DEF Init, Books

-----------------------------------------------------------------------------
(* The steps.                                                                 *)

\* The account of a rule after a step, in terms of its state after the step.
LEMMA AccountIs ==
    ASSUME NEW i
    PROVE  /\ Account(i) <=> Balanced(owed[i], told[i], quiet[i].matched,
                 UnseenOf(rules[i].config, seeded, respawned, tally, prevStatus), respawned)
           /\ Account(i)' <=> Balanced(owed'[i], told'[i], quiet'[i].matched,
                 UnseenOf(rules'[i].config, seeded', respawned', tally', prevStatus'), respawned')
<1>1. \A c : Unseen(c) = UnseenOf(c, seeded, respawned, tally, prevStatus)
  BY UnseenIsGain
<1>3. (Unseen(rules[i].config))' = UnseenOf(rules'[i].config, seeded', respawned', tally', prevStatus')
  <2>1. [e \in Endpoints |-> UnseenAt(rules[i].config, e)']
        = [e \in Endpoints |-> SumOver(Watched(rules'[i].config),
                                       AheadOf(respawned', tally', prevStatus')[e])]
    BY DEF UnseenAt, AheadOf, Watched
  <2> QED BY <2>1 DEF Unseen, UnseenOf, Gain, Scope
<1> QED
  BY <1>1, <1>3 DEF Account

\* Steps that leave the books alone, and of each rule what it watches.
LEMMA BooksElsewhere ==
    ASSUME IInv, Books, UNCHANGED <<baseline, counting>>, up' = up,
           LiveIn(rules') = LiveIn(rules),
           \A i \in LiveIn(rules) : Identity(rules'[i].config) = Identity(rules[i].config)
    PROVE  Books'
<1>1. ASSUME NEW i \in LiveIn(rules)
      PROVE  Account(i)'
  <2>1. Account(i)
    BY <1>1 DEF Books, Live, LiveIn
  <2>2. UnseenOf(rules'[i].config, seeded, respawned, tally, prevStatus)
          = UnseenOf(rules[i].config, seeded, respawned, tally, prevStatus)
    BY SameUnseen
  <2> QED BY <2>1, <2>2, AccountIs DEF baseline, counting
<1> QED
  BY <1>1 DEF Books, Live, LiveIn, baseline, counting

LEMMA ResponseKeepsBooks ==
    ASSUME IInv, Books, NEW e \in Endpoints, NEW code \in Codes, Response(e, code)
    PROVE  Books'
<1> DEFINE d == AheadOf(respawned, tally, prevStatus)
           d2 == AheadOf(respawned', tally', prevStatus')
           Hit(c) == e \in Scope(c) /\ code \in Watched(c)
<1>1. /\ up /\ UNCHANGED <<up, prevStatus, seeded, rules, quiet, told, respawned>>
      /\ tally' = [tally EXCEPT ![e][code] = @ + 1]
      /\ owed' = [i \in Ids |->
                 IF seeded /\ i \in Live /\ Hit(rules[i].config) THEN owed[i] + 1 ELSE owed[i]]
  BY DEF Response
<1>2. tally \in Counts /\ prevStatus \in Counts
  BY DEF Books, Counter
<1>3. /\ tally' \in Counts
      /\ \A f \in Endpoints \ {e} : tally'[f] = tally[f]
      /\ \A x \in Codes \ {code} : tally'[e][x] = tally[e][x]
      /\ tally'[e][code] = tally[e][code] + 1
  BY <1>1, <1>2 DEF Counts
<1>4. Counter(respawned, tally, prevStatus) /\ Counter(respawned', tally', prevStatus')
  <2>1. \A f \in Endpoints, x \in Codes : tally[f][x] \in Nat /\ prevStatus[f][x] \in Nat
                                          /\ tally[f][x] <= tally'[f][x] /\ tally'[f][x] \in Nat
    BY <1>2, <1>3 DEF Counts
  <2> QED BY <1>1, <1>2, <1>3, <2>1 DEF Books, Counter
<1>5. d \in Counts /\ d2 \in Counts
  BY <1>4, AheadType
<1>6. /\ \A f \in Endpoints \ {e} : d2[f] = d[f]
      /\ \A x \in Codes \ {code} : d2[e][x] = d[e][x]
      /\ d2[e][code] = d[e][code] + 1
  <2>1. tally[e][code] \in Nat /\ prevStatus[e][code] \in Nat
    BY <1>2 DEF Counts
  <2> QED BY <1>1, <1>3, <2>1 DEF AheadOf
<1>7. ASSUME NEW i \in Live PROVE Account(i)'
  <2> DEFINE c == rules[i].config
  <2>1. c \in Accepted /\ i \in Ids /\ Account(i)
    BY LiveRules DEF Books
  <2>2. Gain(c, d2) = Gain(c, d) + (IF Hit(c) THEN 1 ELSE 0)
    <3> HIDE DEF d, d2, c
    <3> QED BY <1>5, <1>6, <2>1, GainOfOne
  <2>3. Gain(c, d) \in Nat
    BY <1>5, <2>1, GainType
  <2>4. owed[i] \in Nat /\ told[i] \in Nat /\ quiet[i].matched \in Nat
    BY <2>1 DEF Books, Quiets
  <2>5. owed'[i] = IF seeded /\ Hit(c) THEN owed[i] + 1 ELSE owed[i]
    BY <1>1, <2>1
  <2>6. /\ UnseenOf(c, seeded, respawned, tally, prevStatus) = IF seeded THEN Gain(c, d) ELSE 0
        /\ UnseenOf(rules'[i].config, seeded', respawned', tally', prevStatus')
             = IF seeded THEN Gain(c, d2) ELSE 0
    BY <1>1 DEF UnseenOf
  <2>7. Balanced(owed[i], told[i], quiet[i].matched, IF seeded THEN Gain(c, d) ELSE 0, respawned)
    BY <2>1, <2>6, AccountIs
  <2>8. Balanced(owed'[i], told[i], quiet[i].matched, IF seeded THEN Gain(c, d2) ELSE 0, respawned)
    <3> HIDE DEF Hit, c, d, d2
    <3> QED BY <2>2, <2>3, <2>4, <2>5, <2>7 DEF Balanced
  <2> QED BY <1>1, <2>6, <2>8, AccountIs
<1>8. owed' \in [Ids -> Nat]
  <2>1. \A i \in Ids : owed[i] \in Nat /\ owed[i] + 1 \in Nat
    BY DEF Books
  <2> QED BY <1>1, <2>1
<1>9. Live' = Live
  BY <1>1 DEF Live
<1> QED
  BY <1>1, <1>4, <1>7, <1>8, <1>9 DEF Books

LEMMA RespawnKeepsBooks ==
    ASSUME IInv, Books, Respawn
    PROVE  Books'
<1>1. /\ UNCHANGED <<up, prevStatus, seeded, rules, quiet, owed, told>>
      /\ tally' = Zero /\ respawned' = seeded
  BY DEF Respawn
<1>2. Counter(respawned', tally', prevStatus')
  <2>1. prevStatus \in Counts /\ (~seeded => prevStatus = Zero)
    BY DEF Books, Counter
  <2> QED
    BY <1>1, <2>1, ZeroCounts DEF Counter
<1>3. ASSUME NEW i \in Live PROVE Account(i)'
  <2> DEFINE c == rules[i].config
  <2>1. c \in Accepted /\ i \in Ids /\ Account(i)
    BY LiveRules DEF Books
  <2>2. UnseenOf(c, seeded, respawned, tally, prevStatus) \in Nat
    BY <2>1, UnseenType DEF Books
  <2>3. UnseenOf(rules'[i].config, seeded', respawned', tally', prevStatus') = 0
    <3>1. CASE seeded
      <4>1. \A f \in Endpoints, x \in Codes : AheadOf(respawned', tally', prevStatus')[f][x] = 0
        BY <1>1, <3>1, ZeroCounts DEF AheadOf
      <4> QED BY <1>1, <2>1, <4>1, NothingUnseen
    <3>2. CASE ~seeded
      BY <1>1, <3>2 DEF UnseenOf
    <3> QED BY <3>1, <3>2
  <2>4. owed[i] \in Nat /\ told[i] \in Nat /\ quiet[i].matched \in Nat
    BY <2>1 DEF Books, Quiets
  <2>5. ~seeded => UnseenOf(c, seeded, respawned, tally, prevStatus) = 0 /\ ~respawned
    BY DEF Books, UnseenOf
  <2> QED
    <3> HIDE DEF c
    <3>1. Balanced(owed[i], told[i], quiet[i].matched,
                   UnseenOf(c, seeded, respawned, tally, prevStatus), respawned)
      BY <2>1, AccountIs DEF c
    <3>2. Balanced(owed'[i], told'[i], quiet'[i].matched, 0, respawned')
      BY <1>1, <2>2, <2>4, <2>5, <3>1 DEF Balanced
    <3> QED BY <2>3, <3>2, AccountIs
<1>4. Live' = Live
  BY <1>1 DEF Live
<1>5. up
  BY DEF Respawn
<1> QED
  BY <1>1, <1>2, <1>3, <1>4, <1>5 DEF Books

\* What empties a rule's account: it holds and sees nothing, and owes what it told.
LEMMA EmptyAccount ==
    ASSUME NEW i \in Ids, rules'[i].config \in Accepted, owed'[i] = told'[i], told'[i] \in Nat,
           quiet'[i] = NoMatches, seeded' = FALSE
    PROVE  Account(i)'
<1>1. UnseenOf(rules'[i].config, seeded', respawned', tally', prevStatus') = 0
  BY DEF UnseenOf
<1>2. quiet'[i].matched = 0
  BY NoMatchesAgree
<1>3. Balanced(owed'[i], told'[i], 0, 0, respawned')
  BY DEF Balanced
<1> QED
  BY <1>1, <1>2, <1>3, AccountIs

LEMMA ResetKeepsBooks ==
    ASSUME IInv, Books, Reset
    PROVE  Books'
<1>1. /\ UNCHANGED <<up, rules, told>> /\ up
      /\ tally' = Zero /\ prevStatus' = Zero /\ seeded' = FALSE /\ respawned' = FALSE
      /\ quiet' = [i \in Ids |-> NoMatches] /\ owed' = told
  BY DEF Reset
<1>2. Live' = Live /\ told \in [Ids -> Nat]
  BY <1>1 DEF Live, Books
<1>3. ASSUME NEW i \in Live PROVE Account(i)'
  <2>1. i \in Ids /\ rules'[i].config \in Accepted
    BY <1>1, LiveRules
  <2>2. owed'[i] = told'[i] /\ told'[i] \in Nat /\ quiet'[i] = NoMatches /\ seeded' = FALSE
    BY <1>1, <1>2, <2>1
  <2> QED BY <2>1, <2>2, EmptyAccount
<1> QED
  BY <1>1, <1>2, <1>3, ZeroCounts, NoMatchesAgree DEF Books

LEMMA GoDownKeepsBooks ==
    ASSUME IInv, Books, NEW f, NEW s, NEW l, NEW torn, GoDown(f, s, l, torn)
    PROVE  Books'
<1>1. /\ tally' = Zero /\ prevStatus' = Zero /\ seeded' = FALSE /\ respawned' = FALSE
      /\ quiet' = [i \in Ids |-> NoMatches]
      /\ owed' = [i \in Ids |-> 0] /\ told' = [i \in Ids |-> 0]
      /\ rules' = [i \in Ids |-> NoRule]
  BY DEF GoDown
<1>2. Live' = {}
  BY <1>1 DEF Live
<1> QED
  BY <1>1, <1>2, ZeroCounts, NoMatchesAgree DEF Books

LEMMA RestartKeepsBooks ==
    ASSUME IInv, IInv', Books, Restart
    PROVE  Books'
<1>1. ~up /\ up' /\ UNCHANGED <<baseline, counting>>
  BY DEF Restart
<1>2. ~seeded /\ \A i \in Ids : quiet[i] = NoMatches /\ owed[i] = 0 /\ told[i] = 0
  BY <1>1 DEF Books
<1>3. ASSUME NEW i \in Live' PROVE Account(i)'
  <2>1. i \in Ids /\ rules'[i].config \in Accepted
    BY <1>3 DEF IInv, TimingTypeOK, Live, Rules
  <2>2. owed'[i] = told'[i] /\ told'[i] \in Nat /\ quiet'[i] = NoMatches /\ seeded' = FALSE
    BY <1>1, <1>2, <2>1 DEF baseline, counting, Books
  <2> QED BY <2>1, <2>2, EmptyAccount
<1> QED
  BY <1>1, <1>3 DEF Books, baseline, counting

LEMMA TakeBaselineKeepsBooks ==
    ASSUME IInv, Books, TakeBaseline
    PROVE  Books'
<1>1. /\ UNCHANGED <<up, rules, tally, quiet, owed, told>> /\ up
      /\ prevStatus' = tally /\ seeded' = TRUE /\ respawned' = FALSE
      /\ ~seeded \/ Live = {}
  BY DEF TakeBaseline
<1>2. Counter(respawned', tally', prevStatus') /\ \A e \in Endpoints, code \in Codes :
          AheadOf(respawned', tally', prevStatus')[e][code] = 0
  <2>1. \A e \in Endpoints, code \in Codes : tally[e][code] \in Nat
    BY DEF Books, Counter, Counts
  <2> QED BY <1>1, <2>1 DEF Books, Counter, AheadOf
<1>3. ASSUME NEW i \in Live PROVE Account(i)'
  <2>1. /\ rules'[i].config \in Accepted /\ rules[i].config \in Accepted /\ i \in Ids /\ Account(i)
        /\ ~seeded /\ ~respawned
    BY <1>1, LiveRules DEF Books
  <2>2. UnseenOf(rules'[i].config, seeded', respawned', tally', prevStatus') = 0
    BY <1>2, <2>1, NothingUnseen
  <2>3. UnseenOf(rules[i].config, seeded, respawned, tally, prevStatus) = 0
    BY <2>1 DEF UnseenOf
  <2>4. Balanced(owed[i], told[i], quiet[i].matched, 0, respawned)
    BY <2>1, <2>3, AccountIs
  <2>5. Balanced(owed'[i], told'[i], quiet'[i].matched, 0, respawned')
    BY <1>1, <2>1, <2>4 DEF Balanced
  <2> QED BY <2>2, <2>5, AccountIs
<1>4. Live' = Live
  BY <1>1 DEF Live
<1> QED
  BY <1>1, <1>2, <1>3, <1>4 DEF Books

-----------------------------------------------------------------------------
(* Editing.                                                                  *)

\* A rule that is new, or that watches something else from now on, begins with what the
\* next snapshot will show.
LEMMA NewAccount ==
    ASSUME Books, NEW i \in Ids, NEW c \in Accepted, rules'[i].config = c,
           owed'[i] = Unseen(c), told'[i] = 0, quiet'[i] = NoMatches,
           UNCHANGED <<baseline, respawned>>
    PROVE  Account(i)' /\ owed'[i] \in Nat
<1>1. Unseen(c) = UnseenOf(c, seeded, respawned, tally, prevStatus)
  BY UnseenIsGain
<1>2. Unseen(c) \in Nat
  BY <1>1, UnseenType DEF Books
<1>3. quiet'[i].matched = 0
  BY NoMatchesAgree
<1>4. Balanced(Unseen(c), 0, 0, Unseen(c), respawned)
  BY <1>2 DEF Balanced
<1>5. UnseenOf(rules'[i].config, seeded', respawned', tally', prevStatus') = Unseen(c)
  BY <1>1 DEF baseline
<1> QED
  BY <1>2, <1>3, <1>4, <1>5, AccountIs

LEMMA SameAccount ==
    ASSUME Books, NEW i \in Live, Identity(rules'[i].config) = Identity(rules[i].config),
           owed'[i] = owed[i], told'[i] = told[i], quiet'[i] = quiet[i],
           UNCHANGED <<baseline, respawned>>
    PROVE  Account(i)'
<1>1. Account(i)
  BY DEF Books
<1>2. UnseenOf(rules'[i].config, seeded, respawned, tally, prevStatus)
        = UnseenOf(rules[i].config, seeded, respawned, tally, prevStatus)
  BY SameUnseen
<1> QED
  BY <1>1, <1>2, AccountIs DEF baseline

\* An edit of one rule: the others' accounts are as they were.
LEMMA EditKeepsBooks ==
    ASSUME IInv, Books, up, up', UNCHANGED <<baseline, respawned>>, NEW n \in Ids,
           \A i \in Ids \ {n} : /\ rules'[i] = rules[i] /\ owed'[i] = owed[i]
                                /\ told'[i] = told[i] /\ quiet'[i] = quiet[i],
           owed' \in [Ids -> Nat], told' \in [Ids -> Nat], quiet' \in [Ids -> Quiets],
           Agree(quiet'[n]), rules'[n] # NoRule => Account(n)'
    PROVE  Books'
<1>1. ASSUME NEW i \in Live' PROVE Account(i)'
  <2>1. CASE i = n
    BY <1>1, <2>1 DEF Live
  <2>2. CASE i # n
    <3>1. i \in Live
      BY <1>1, <2>2 DEF Live
    <3>2. i \in Ids \ {n}
      BY <2>2, <3>1 DEF Live
    <3> QED BY <3>1, <3>2, SameAccount
  <2> QED BY <2>1, <2>2
<1>2. \A i \in Ids : Agree(quiet'[i])
  BY DEF Books
<1>3. \A i \in Ids : Agree(quiet[i])'
  BY <1>2 DEF Agree
<1> QED
  BY <1>1, <1>3 DEF Books, baseline

LEMMA AddRuleKeepsBooks ==
    ASSUME IInv, Books, NEW c \in Accepted, AddRule(c), NEW n, n = nextId
    PROVE  Books'
<1>1. /\ up /\ up' = up /\ UNCHANGED <<baseline, respawned>> /\ n \in Ids
      /\ rules' = [rules EXCEPT ![n] = Fresh(c, 0)]
      /\ quiet' = [quiet EXCEPT ![n] = NoMatches]
      /\ owed' = [owed EXCEPT ![n] = Unseen(c)]
      /\ told' = [told EXCEPT ![n] = 0]
  BY DEF AddRule, CanAdd, Adding
<1>2. /\ rules \in [Ids -> Rules \cup {NoRule}] /\ owed \in [Ids -> Nat] /\ told \in [Ids -> Nat]
      /\ quiet \in [Ids -> Quiets]
  BY DEF IInv, TimingTypeOK, Books
<1>3. rules'[n].config = c
  BY <1>1, <1>2, FreshType
<1>4. owed'[n] = Unseen(c) /\ told'[n] = 0 /\ quiet'[n] = NoMatches
  BY <1>1, <1>2
<1>5. Account(n)' /\ Unseen(c) \in Nat
  BY <1>1, <1>3, <1>4, NewAccount
<1>6. owed' \in [Ids -> Nat] /\ told' \in [Ids -> Nat] /\ quiet' \in [Ids -> Quiets]
  BY <1>1, <1>2, <1>5, NoMatchesAgree
<1>7. \A i \in Ids \ {n} : /\ rules'[i] = rules[i] /\ owed'[i] = owed[i]
                           /\ told'[i] = told[i] /\ quiet'[i] = quiet[i]
  BY <1>1, <1>2
<1> QED
  BY <1>1, <1>4, <1>5, <1>6, <1>7, NoMatchesAgree, EditKeepsBooks

LEMMA RemoveRuleKeepsBooks ==
    ASSUME IInv, Books, NEW n \in Ids, RemoveRule(n)
    PROVE  Books'
<1>1. /\ up /\ up' = up /\ UNCHANGED <<baseline, respawned>>
      /\ rules' = [rules EXCEPT ![n] = NoRule]
      /\ quiet' = [quiet EXCEPT ![n] = NoMatches]
      /\ owed' = [owed EXCEPT ![n] = 0]
      /\ told' = [told EXCEPT ![n] = 0]
  BY DEF RemoveRule, Removing
<1>2. /\ rules \in [Ids -> Rules \cup {NoRule}] /\ owed \in [Ids -> Nat] /\ told \in [Ids -> Nat]
      /\ quiet \in [Ids -> Quiets]
  BY DEF IInv, TimingTypeOK, Books
<1>3. rules'[n] = NoRule /\ quiet'[n] = NoMatches
  BY <1>1, <1>2
<1>4. owed' \in [Ids -> Nat] /\ told' \in [Ids -> Nat] /\ quiet' \in [Ids -> Quiets]
  BY <1>1, <1>2, NoMatchesAgree
<1>5. \A i \in Ids \ {n} : /\ rules'[i] = rules[i] /\ owed'[i] = owed[i]
                           /\ told'[i] = told[i] /\ quiet'[i] = quiet[i]
  BY <1>1, <1>2
<1> QED
  BY <1>1, <1>3, <1>4, <1>5, NoMatchesAgree, EditKeepsBooks

LEMMA UpdateRuleKeepsBooks ==
    ASSUME IInv, Books, NEW n \in Ids, NEW c \in Accepted, UpdateRule(n, c)
    PROVE  Books'
<1>1. /\ up /\ up' = up /\ UNCHANGED <<baseline, respawned>> /\ n \in Live
      /\ rules' = Updating(n, c)
  BY DEF UpdateRule, CanUpdate, Live
<1>2. /\ rules \in [Ids -> Rules \cup {NoRule}] /\ owed \in [Ids -> Nat] /\ told \in [Ids -> Nat]
      /\ quiet \in [Ids -> Quiets] /\ rules[n] \in Rules
  BY <1>1, LiveRules DEF IInv, TimingTypeOK, Books
<1>3. rules'[n].config = c /\ \A i \in Ids \ {n} : rules'[i] = rules[i]
  <2>1. rules'[n] = IF SameThing(n, c) THEN [rules[n] EXCEPT !.config = c, !.ver = @ + 1]
                       ELSE Fresh(c, rules[n].ver + 1)
    BY <1>1, <1>2 DEF Updating
  <2>2. [rules[n] EXCEPT !.config = c, !.ver = @ + 1].config = c
    BY <1>2 DEF Rules
  <2>3. Fresh(c, rules[n].ver + 1).config = c
    BY DEF Fresh
  <2>4. \A i \in Ids \ {n} : rules'[i] = rules[i]
    BY <1>1, <1>2 DEF Updating
  <2> QED BY <2>1, <2>2, <2>3, <2>4
<1>4. CASE SameThing(n, c)
  <2>1. UNCHANGED <<quiet, owed, told>>
    BY <1>4 DEF UpdateRule
  <2>2. Account(n)'
    BY <1>1, <1>3, <1>4, <2>1, SameAccount DEF SameThing
  <2>3. Agree(quiet'[n])
    BY <2>1 DEF Books
  <2> QED BY <1>1, <1>2, <1>3, <2>1, <2>2, <2>3, EditKeepsBooks
<1>5. CASE ~SameThing(n, c)
  <2>1. /\ quiet' = [quiet EXCEPT ![n] = NoMatches]
        /\ owed' = [owed EXCEPT ![n] = Unseen(c)]
        /\ told' = [told EXCEPT ![n] = 0]
    BY <1>5 DEF UpdateRule
  <2>2. owed'[n] = Unseen(c) /\ told'[n] = 0 /\ quiet'[n] = NoMatches
    BY <1>2, <2>1
  <2>3. Account(n)' /\ Unseen(c) \in Nat
    BY <1>1, <1>3, <2>2, NewAccount
  <2>4. owed' \in [Ids -> Nat] /\ told' \in [Ids -> Nat] /\ quiet' \in [Ids -> Quiets]
    BY <1>2, <2>1, <2>3, NoMatchesAgree
  <2>5. \A i \in Ids \ {n} : owed'[i] = owed[i] /\ told'[i] = told[i] /\ quiet'[i] = quiet[i]
    BY <1>2, <2>1
  <2> QED BY <1>1, <1>3, <2>2, <2>3, <2>4, <2>5, NoMatchesAgree, EditKeepsBooks
<1> QED
  BY <1>4, <1>5

-----------------------------------------------------------------------------
(* Evaluating.                                                                *)

\* What a snapshot adds is what was still to come, or no more than that if the probe
\* restarted without notice.
LEMMA NewsOfSnapshot ==
    ASSUME Books, seeded, NEW c \in Accepted
    PROVE  /\ NewMatches(c) \in Nat
           /\ NewMatches(c) <= Unseen(c)
           /\ ~respawned => NewMatches(c) = Unseen(c)
<1> DEFINE d == AheadOf(respawned, tally, prevStatus)
<1>1. tally \in Counts /\ prevStatus \in Counts /\ Counter(respawned, tally, prevStatus)
  BY DEF Books, Counter
<1>2. NewMatches(c) = Gain(c, News(c)) /\ NewMatches(c) \in Nat /\ News(c) \in Counts
  BY <1>1, NewMatchesIsGain, DeltaType
<1>3. Unseen(c) = Gain(c, d)
  BY UnseenIsGain DEF UnseenOf
<1>4. d \in Counts
  BY <1>1, AheadType
<1>5. ASSUME ~respawned, NEW e \in Scope(c), NEW x \in Watched(c)
      PROVE  News(c)[e][x] = d[e][x]
  <2>1. e \in Endpoints /\ x \in Codes
    BY ScopeType
  <2>2. tally[e][x] \in Nat /\ prevStatus[e][x] \in Nat /\ prevStatus[e][x] <= tally[e][x]
    BY <1>1, <1>5, <2>1 DEF Counts, Counter
  <2>3. ~Restarted(c, e)
    <3>1. \A y \in Watched(c) : tally[e][y] \in Nat /\ prevStatus[e][y] \in Nat
                                 /\ prevStatus[e][y] <= tally[e][y]
      BY <1>1, <1>5, <2>1, ScopeType DEF Counts, Counter
    <3> QED BY <3>1 DEF Restarted
  <2>4. News(c)[e][x] = IF tally[e][x] > prevStatus[e][x] THEN tally[e][x] - prevStatus[e][x] ELSE 0
    BY <2>1, <2>3 DEF News, Delta
  <2>5. d[e][x] = tally[e][x] - prevStatus[e][x]
    BY <1>5, <2>1 DEF AheadOf
  <2> HIDE DEF d
  <2> QED BY <2>2, <2>4, <2>5
<1>6. ASSUME NEW e \in Scope(c), NEW x \in Watched(c)
      PROVE  News(c)[e][x] <= d[e][x]
  <2>1. e \in Endpoints /\ x \in Codes
    BY ScopeType
  <2>2. CASE ~respawned
    <3>1. News(c)[e][x] \in Nat
      BY <1>2, <2>1 DEF Counts
    <3> QED BY <1>5, <2>2, <3>1
  <2>3. CASE respawned
    <3>1. d[e][x] = tally[e][x]
      BY <2>1, <2>3 DEF AheadOf
    <3> QED BY <1>1, <2>1, <3>1, DeltaType
  <2> QED BY <2>2, <2>3
<1> HIDE DEF d
<1>7. Gain(c, News(c)) <= Gain(c, d)
  BY <1>2, <1>4, <1>6, GainLeq
<1>8. ~respawned => Gain(c, News(c)) = Gain(c, d)
  BY <1>5, GainSame
<1> QED
  BY <1>2, <1>3, <1>7, <1>8

\* A snapshot adds as much to the endpoints, and to the codes, as to the total.
LEMMA AddedAgrees ==
    ASSUME IInv, Books, NEW i \in Live
    PROVE  /\ Added(i) \in Quiets /\ Agree(Added(i))
           /\ Added(i).matched = quiet[i].matched + NewMatches(rules[i].config)
<1> DEFINE c == rules[i].config
           q == quiet[i]
           more == [e \in Endpoints |-> IF e \in Scope(c) THEN NewAt(c, e) ELSE 0]
           newp == [e \in Endpoints |-> q.pending[e]
                                        + (IF e \in Scope(c) THEN NewAt(c, e) ELSE 0)]
           of == [code \in Codes |-> NewOf(c, code)]
           newc == [code \in Codes |-> q.codes[code] + NewOf(c, code)]
<1>1. c \in Accepted /\ q \in Quiets /\ Agree(q) /\ tally \in Counts /\ prevStatus \in Counts
  BY LiveRules DEF Books, Counter, Live
<1>2. Added(i) = [matched |-> q.matched + NewMatches(c), pending |-> newp, codes |-> newc]
  BY DEF Added
<1>3. /\ \A e \in Endpoints : q.pending[e] \in Nat /\ NewAt(c, e) \in Nat
      /\ \A x \in Codes : q.codes[x] \in Nat /\ NewOf(c, x) \in Nat
      /\ NewMatches(c) \in Nat /\ q.matched \in Nat
  BY <1>1, NewMatchesIsGain, NewsByCode DEF Quiets
<1>4. newp \in [Endpoints -> Nat] /\ newc \in [Codes -> Nat]
  <2>1. \A e \in Endpoints : q.pending[e] + (IF e \in Scope(c) THEN NewAt(c, e) ELSE 0) \in Nat
    BY <1>3
  <2>2. \A x \in Codes : q.codes[x] + NewOf(c, x) \in Nat
    BY <1>3
  <2> HIDE DEF c, q
  <2> QED BY <2>1, <2>2
<1>5. SumOver(Endpoints, newp) = SumOver(Endpoints, q.pending) + NewMatches(c)
  <2>1. \A e \in Endpoints : /\ q.pending[e] \in Int /\ more[e] \in Int
                             /\ newp[e] = q.pending[e] + more[e]
    BY <1>3
  <2>2. SumFunctionOnSet(more, Endpoints) = NewMatches(c)
    <3> DEFINE all == [e \in Endpoints |-> NewAt(c, e)]
    <3>1. Scope(c) \subseteq Endpoints /\ IsFiniteSet(Endpoints) /\ IsFiniteSet(Scope(c))
          /\ IsFiniteSet(Endpoints \ Scope(c))
      BY <1>1, ScopeType, CodesAreFew, FS_Subset
    <3>2. /\ \A e \in Endpoints : more[e] \in Int
          /\ \A e \in Scope(c) : more[e] = all[e]
          /\ \A e \in Endpoints \ Scope(c) : more[e] = 0
      BY <1>3, <3>1
    <3>3. NewMatches(c) = SumFunctionOnSet(all, Scope(c))
      BY DEF NewMatches, SumOver
    <3> HIDE DEF more, all, c, q
    <3>4. SumFunctionOnSet(more, Endpoints) = SumFunctionOnSet(more, Scope(c))
                                              + SumFunctionOnSet(more, Endpoints \ Scope(c))
      BY <3>1, <3>2, SumSplit
    <3>5. SumFunctionOnSet(more, Scope(c)) = SumFunctionOnSet(all, Scope(c))
      BY <3>1, <3>2, SumSame
    <3>6. SumFunctionOnSet(more, Endpoints \ Scope(c)) = 0
      BY <3>1, <3>2, SumZero
    <3> QED BY <1>3, <3>3, <3>4, <3>5, <3>6
  <2> HIDE DEF newp, more, c, q
  <2>3. SumFunctionOnSet(newp, Endpoints) = SumFunctionOnSet(q.pending, Endpoints)
                                            + SumFunctionOnSet(more, Endpoints)
    BY <2>1, CodesAreFew, SumPlus
  <2> QED BY <2>2, <2>3 DEF SumOver
<1>6. SumOver(Codes, newc) = SumOver(Codes, q.codes) + NewMatches(c)
  <2>1. \A x \in Codes : /\ q.codes[x] \in Int /\ of[x] \in Int /\ newc[x] = q.codes[x] + of[x]
    BY <1>3
  <2>2. SumOver(Codes, of) = NewMatches(c)
    BY <1>1, NewsByCode
  <2> HIDE DEF newc, of, c, q
  <2>3. SumFunctionOnSet(newc, Codes) = SumFunctionOnSet(q.codes, Codes)
                                        + SumFunctionOnSet(of, Codes)
    BY <2>1, CodesAreFew, SumPlus
  <2> QED BY <2>2, <2>3 DEF SumOver
<1> HIDE DEF c, q, newp, newc
<1>7. Added(i) \in Quiets
  BY <1>2, <1>3, <1>4 DEF Quiets
<1>8. Agree(Added(i))
  BY <1>1, <1>2, <1>5, <1>6 DEF Agree
<1> QED
  BY <1>2, <1>7, <1>8 DEF c, q

\* What Evaluate makes of the account of each rule.
LEMMA EvaluatedAccount ==
    ASSUME IInv, Books, NEW deliverable \in Reachable, Evaluate(deliverable), NEW i \in Live
    PROVE  /\ quiet'[i] \in Quiets /\ Agree(quiet'[i]) /\ told'[i] \in Nat /\ owed'[i] \in Nat
           /\ told'[i] + quiet'[i].matched
                = told[i] + quiet[i].matched + NewMatches(rules[i].config)
           /\ owed'[i] = IF respawned THEN told'[i] + quiet'[i].matched ELSE owed[i]
<1> DEFINE due == {j \in Matching : CooledDown(rules[j])}
           now2 == [j \in Ids |-> IF j \in Matching THEN Added(j) ELSE quiet[j]]
           t2 == [j \in Ids |-> IF j \in due THEN told[j] + now2[j].matched ELSE told[j]]
           n == NewMatches(rules[i].config)
<1>1. /\ quiet' = [j \in Ids |-> IF j \in due THEN NoMatches ELSE now2[j]]
      /\ told' = t2
      /\ owed' = IF respawned THEN [j \in Ids |-> t2[j] + quiet'[j].matched] ELSE owed
  BY DEF Evaluate
<1>2. i \in Ids /\ rules[i].config \in Accepted /\ seeded
  BY LiveRules DEF Evaluate
<1>3. /\ quiet[i] \in Quiets /\ Agree(quiet[i]) /\ quiet[i].matched \in Nat
      /\ told[i] \in Nat /\ owed[i] \in Nat
  BY <1>2 DEF Books, Quiets
<1>4. n \in Nat /\ (i \in Matching <=> n > 0)
  BY <1>2, NewsOfSnapshot DEF Matching
<1>5. /\ Added(i) \in Quiets /\ Agree(Added(i))
      /\ Added(i).matched = quiet[i].matched + n
  BY AddedAgrees
<1>6. now2[i] \in Quiets /\ Agree(now2[i]) /\ now2[i].matched = quiet[i].matched + n
  <2>1. now2[i] = IF i \in Matching THEN Added(i) ELSE quiet[i]
    BY <1>2
  <2> HIDE DEF now2, n
  <2>2. CASE i \in Matching
    BY <1>5, <2>1, <2>2
  <2>3. CASE i \notin Matching
    <3>1. n = 0
      BY <1>4, <2>3
    <3> QED BY <1>3, <2>1, <2>3, <3>1
  <2> QED BY <2>2, <2>3
<1>7. /\ quiet'[i] = (IF i \in due THEN NoMatches ELSE now2[i])
      /\ told'[i] = (IF i \in due THEN told[i] + now2[i].matched ELSE told[i])
      /\ owed'[i] = IF respawned THEN told'[i] + quiet'[i].matched ELSE owed[i]
  <2> HIDE DEF now2, due
  <2> QED BY <1>1, <1>2
<1> HIDE DEF now2, due, n
<1>8. /\ quiet'[i] \in Quiets /\ Agree(quiet'[i])
      /\ told'[i] + quiet'[i].matched = told[i] + quiet[i].matched + n
      /\ told'[i] \in Nat /\ quiet'[i].matched \in Nat
  <2>1. CASE i \in due
    <3>1. quiet'[i] = NoMatches /\ told'[i] = told[i] + now2[i].matched
      BY <1>7, <2>1
    <3>2. now2[i].matched \in Nat
      BY <1>3, <1>4, <1>6
    <3> QED BY <1>3, <1>4, <1>6, <3>1, <3>2, NoMatchesAgree
  <2>2. CASE i \notin due
    <3>1. quiet'[i] = now2[i] /\ told'[i] = told[i]
      BY <1>7, <2>2
    <3>2. now2[i].matched \in Nat
      BY <1>3, <1>4, <1>6
    <3> QED BY <1>3, <1>4, <1>6, <3>1, <3>2
  <2> QED BY <2>1, <2>2
<1>9. owed'[i] \in Nat
  <2>1. told'[i] + quiet'[i].matched \in Nat
    BY <1>8
  <2> QED BY <1>3, <1>7, <2>1
<1> QED
  BY <1>7, <1>8, <1>9 DEF n

LEMMA EvaluateKeepsBooks ==
    ASSUME IInv, Books, NEW deliverable \in Reachable, Evaluate(deliverable)
    PROVE  Books'
<1>1. /\ up /\ up' = up /\ seeded /\ seeded' = seeded
      /\ tally' = tally /\ prevStatus' = tally /\ respawned' = FALSE
  BY DEF Evaluate
<1>2. Counter(respawned', tally', prevStatus') /\ \A e \in Endpoints, code \in Codes :
          AheadOf(respawned', tally', prevStatus')[e][code] = 0
  <2>1. \A e \in Endpoints, code \in Codes : tally[e][code] \in Nat
    BY DEF Books, Counter, Counts
  <2> QED BY <1>1, <2>1 DEF Books, Counter, AheadOf
<1>3. LiveIn(rules') = LiveIn(rules)
      /\ \A i \in LiveIn(rules) : rules'[i].config = rules[i].config
  <2> DEFINE due == {i \in Matching : CooledDown(rules[i])}
  <2>1. rules' = AfterFiring(due, deliverable) /\ deliverable \in BOOLEAN
    BY AlertsAssumption DEF Evaluate
  <2>2. due \in SUBSET LiveIn(rules)
    BY DEF Matching, Live, LiveIn
  <2> HIDE DEF due
  <2> QED BY <1>1, <2>1, <2>2, FiringRules
<1>4. Live = LiveIn(rules) /\ Live' = Live
  BY <1>3 DEF Live, LiveIn
<1>5. ASSUME NEW i \in Live PROVE Account(i)'
  <2> DEFINE n == NewMatches(rules[i].config)
             u == Unseen(rules[i].config)
  <2>1. /\ told'[i] + quiet'[i].matched = told[i] + quiet[i].matched + n
        /\ owed'[i] = (IF respawned THEN told'[i] + quiet'[i].matched ELSE owed[i])
        /\ told'[i] \in Nat /\ quiet'[i].matched \in Nat
    BY EvaluatedAccount DEF Quiets
  <2>2. i \in Ids /\ rules[i].config \in Accepted /\ rules'[i].config \in Accepted
    BY <1>3, <1>4, LiveRules
  <2>3. n \in Nat /\ (~respawned => n = u)
    BY <1>1, <2>2, NewsOfSnapshot
  <2>4. Balanced(owed[i], told[i], quiet[i].matched, u, respawned)
    BY DEF Books, Account
  <2>5. owed[i] \in Nat /\ told[i] \in Nat /\ quiet[i].matched \in Nat
    BY <2>2 DEF Books, Quiets
  <2>6. UnseenOf(rules'[i].config, seeded', respawned', tally', prevStatus') = 0
    BY <1>2, <2>2, NothingUnseen
  <2>7. Balanced(owed'[i], told'[i], quiet'[i].matched, 0, respawned')
    <3> HIDE DEF n, u
    <3> QED BY <2>1, <2>3, <2>4, <2>5 DEF Balanced
  <2> QED BY <2>6, <2>7, AccountIs
<1>6. /\ quiet' \in [Ids -> Quiets] /\ told' \in [Ids -> Nat] /\ owed' \in [Ids -> Nat]
      /\ \A i \in Ids : Agree(quiet'[i])
  <2> DEFINE due == {j \in Matching : CooledDown(rules[j])}
             now2 == [j \in Ids |-> IF j \in Matching THEN Added(j) ELSE quiet[j]]
             t2 == [j \in Ids |-> IF j \in due THEN told[j] + now2[j].matched ELSE told[j]]
  <2>1. /\ quiet' = [j \in Ids |-> IF j \in due THEN NoMatches ELSE now2[j]]
        /\ told' = t2
        /\ owed' = IF respawned THEN [j \in Ids |-> t2[j] + quiet'[j].matched] ELSE owed
    BY DEF Evaluate
  <2>2. ASSUME NEW i \in Ids
        PROVE  quiet'[i] \in Quiets /\ told'[i] \in Nat /\ owed'[i] \in Nat /\ Agree(quiet'[i])
    <3>1. CASE i \in Live
      BY <3>1, EvaluatedAccount
    <3>2. CASE i \notin Live
      <4>1. i \notin due /\ i \notin Matching
        BY <3>2 DEF Matching
      <4>2. now2[i] = quiet[i]
        BY <4>1
      <4> HIDE DEF now2, due
      <4>3. quiet'[i] = quiet[i] /\ told'[i] = told[i]
        BY <2>1, <4>1, <4>2
      <4>4. owed'[i] = IF respawned THEN told[i] + quiet[i].matched ELSE owed[i]
        BY <2>1, <4>1, <4>3
      <4>5. owed[i] \in Nat /\ told[i] \in Nat /\ quiet[i].matched \in Nat
            /\ quiet[i] \in Quiets /\ Agree(quiet[i])
        BY DEF Books, Quiets
      <4> QED BY <4>3, <4>4, <4>5
    <3> QED BY <3>1, <3>2
  <2> HIDE DEF now2, due
  <2>3. /\ quiet' = [j \in Ids |-> quiet'[j]] /\ told' = [j \in Ids |-> told'[j]]
        /\ owed' = [j \in Ids |-> owed'[j]]
    <3>1. owed \in [Ids -> Nat]
      BY DEF Books
    <3> QED BY <2>1, <3>1
  <2> QED BY <2>2, <2>3
<1> QED
  BY <1>1, <1>2, <1>4, <1>5, <1>6 DEF Books, Agree

LEMMA MarkedAlike ==
    ASSUME IInv, up, NEW d \in deliveries, NEW outcome \in Errors, rules' = Marked(d, outcome)
    PROVE  /\ LiveIn(rules') = LiveIn(rules)
           /\ \A i \in LiveIn(rules) : Identity(rules'[i].config) = Identity(rules[i].config)
BY MarkingARule

LEMMA CrashesKeepBooks ==
    ASSUME IInv, Books,
           \/ Crash
           \/ CrashInEdit
           \/ \E deliverable \in Reachable : CrashInEvaluate(deliverable)
           \/ CrashInDelivery
    PROVE  Books'
<1>1. \E f, s, l, torn : GoDown(f, s, l, torn)
  BY Zenon DEF Crash, CrashInEdit, CrashInRewrite, CrashInEvaluate, CrashInDelivery
<1> QED
  BY <1>1, GoDownKeepsBooks

LEMMA NextKeepsBooks ==
    ASSUME IInv, IInv', Books, Next
    PROVE  Books'
<1>1. CASE Tick
  BY <1>1, BooksElsewhere DEF Tick, LiveIn
<1>2. ASSUME NEW e \in Endpoints, NEW code \in Codes, Response(e, code) PROVE Books'
  BY <1>2, ResponseKeepsBooks
<1>3. ASSUME NEW c \in Accepted, AddRule(c) PROVE Books'
  BY <1>3, AddRuleKeepsBooks
<1>4. ASSUME NEW i \in Ids, NEW c \in Accepted, UpdateRule(i, c) PROVE Books'
  BY <1>4, UpdateRuleKeepsBooks
<1>5. ASSUME NEW i \in Ids, RemoveRule(i) PROVE Books'
  BY <1>5, RemoveRuleKeepsBooks
<1>6. ASSUME NEW deliverable \in Reachable, Evaluate(deliverable) PROVE Books'
  BY <1>6, EvaluateKeepsBooks
<1>7. ASSUME NEW d \in deliveries, SpawnFailed(d) PROVE Books'
  <2>1. up /\ rules' = Marked(d, "failed") /\ "failed" \in Errors /\ up' = up
        /\ UNCHANGED <<baseline, counting>>
    BY <1>7 DEF SpawnFailed, Errors
  <2> QED BY <2>1, MarkedAlike, BooksElsewhere
<1>8. ASSUME NEW d \in deliveries, NEW outcome \in Outcomes, DeliveryClosed(d, outcome) PROVE Books'
  <2>1. up /\ rules' = Marked(d, outcome) /\ outcome \in Errors /\ up' = up
        /\ UNCHANGED <<baseline, counting>>
    BY <1>8 DEF DeliveryClosed, Errors, Outcomes
  <2> QED BY <2>1, MarkedAlike, BooksElsewhere
<1> QED
  BY <1>1, <1>2, <1>3, <1>4, <1>5, <1>6, <1>7, <1>8, RespawnKeepsBooks, ResetKeepsBooks,
     TakeBaselineKeepsBooks, CrashesKeepBooks, RestartKeepsBooks DEF Next

LEMMA BooksAreKept == Spec => [](IInv /\ Books)
<1>1. IInv /\ Books /\ [Next]_vars => Books' \/ ~IInv'
  <2> SUFFICES ASSUME IInv, IInv', Books, [Next]_vars
               PROVE  Books'
    OBVIOUS
  <2>1. CASE Next
    BY <2>1, NextKeepsBooks
  <2>2. CASE UNCHANGED vars
    BY <2>2, BooksElsewhere DEF vars, LiveIn
  <2> QED BY <2>1, <2>2
<1>2. Init => Books
  BY InitBooks
<1> QED
  BY <1>1, <1>2, Invariants, PTL DEF Spec

\* Types of the whole state: the rules and the files, the probe's counters and what each
\* rule holds of them, through edits, restarts and crashes.
THEOREM TypesOfAll == Spec => []TypeOK
<1>1. IInv /\ Books => TypeOK
  BY DEF IInv, Books, Counter, Counts, TypeOK, Quiets
<1> QED
  BY <1>1, BooksAreKept, PTL

\* Each response that a rule watches is counted exactly once, whatever is added, edited,
\* removed, reset or reloaded, and however often a rule fires or is kept quiet.
THEOREM CountedOnce == Spec => []EveryMatchCounted
<1>1. IInv /\ Books => EveryMatchCounted
  BY DEF Books, EveryMatchCounted, Account, Balanced
<1> QED
  BY <1>1, BooksAreKept, PTL

\* An alert's total is the sum of what it says by endpoint, and by code.
THEOREM ThreeNumbersAgree == Spec => []TalliesAgree
<1>1. IInv /\ Books => TalliesAgree
  BY DEF Books, TalliesAgree, Agree, Live
<1> QED
  BY <1>1, BooksAreKept, PTL

\* The evaluation after an unannounced restart of the probe, and whatever else ends the
\* time in which the counters mean something else than the baseline, invents no match.
THEOREM NothingInvented == Spec => NeverInvented
<1>1. IInv /\ Books /\ [Next]_vars =>
          [respawned /\ ~respawned' =>
               \A i \in Live : told'[i] + quiet'[i].matched <= owed[i]]_vars
  <2> SUFFICES ASSUME IInv, Books, Next, respawned, ~respawned', NEW i \in Live
               PROVE  told'[i] + quiet'[i].matched <= owed[i]
    BY DEF vars
  <2>1. /\ rules[i].config \in Accepted /\ i \in Ids /\ seeded
        /\ told[i] + quiet[i].matched + Unseen(rules[i].config) <= owed[i]
        /\ owed[i] \in Nat /\ told[i] \in Nat /\ quiet[i].matched \in Nat
    BY LiveRules DEF Books, Account, Balanced, Quiets
  <2>2. /\ NewMatches(rules[i].config) \in Nat /\ Unseen(rules[i].config) \in Nat
        /\ NewMatches(rules[i].config) <= Unseen(rules[i].config)
    <3>1. Unseen(rules[i].config) \in Nat
      <4>1. Unseen(rules[i].config)
              = UnseenOf(rules[i].config, seeded, respawned, tally, prevStatus)
        BY UnseenIsGain
      <4>2. Counter(respawned, tally, prevStatus)
        BY DEF Books
      <4> QED BY <2>1, <4>1, <4>2, UnseenType
    <3> QED BY <2>1, <3>1, NewsOfSnapshot
  <2>3. CASE \E deliverable \in Reachable : Evaluate(deliverable)
    <3>1. told'[i] + quiet'[i].matched
              = told[i] + quiet[i].matched + NewMatches(rules[i].config)
      BY <2>3, EvaluatedAccount
    <3> QED BY <2>1, <2>2, <3>1
  <2>4. CASE Reset
    <3>1. told' = told /\ quiet'[i] = NoMatches
      BY <2>1, <2>4 DEF Reset
    <3> QED BY <2>1, <2>2, <3>1, NoMatchesAgree
  <2>5. CASE \E f, s, l, torn : GoDown(f, s, l, torn)
    <3>1. told'[i] = 0 /\ quiet'[i] = NoMatches
      BY <2>1, <2>5 DEF GoDown
    <3> QED BY <2>1, <3>1, NoMatchesAgree
  <2>6. ~TakeBaseline
    BY <2>1 DEF TakeBaseline
  <2>7. \/ \E deliverable \in Reachable : Evaluate(deliverable)
        \/ Reset
        \/ \E f, s, l, torn : GoDown(f, s, l, torn)
    <3>1. \/ Crash
          \/ CrashInEdit
          \/ \E deliverable \in Reachable : CrashInEvaluate(deliverable)
          \/ CrashInDelivery
          => \E f, s, l, torn : GoDown(f, s, l, torn)
      BY Zenon DEF Crash, CrashInEdit, CrashInRewrite, CrashInEvaluate, CrashInDelivery
    <3>2. UNCHANGED respawned \/ Respawn => FALSE
      BY <2>1 DEF Respawn
    <3> QED
      BY <2>6, <3>1, <3>2 DEF Next, Tick, Response, AddRule, UpdateRule, RemoveRule,
         SpawnFailed, DeliveryClosed, Restart, counting
  <2> QED BY <2>3, <2>4, <2>5, <2>7
<1> QED
  BY <1>1, BooksAreKept, PTL DEF Spec, NeverInvented
=============================================================================
