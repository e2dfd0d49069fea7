-------------------------- MODULE RowStreamProofs --------------------------
(***************************************************************************)
(* Proofs about the live stream of requests: its types and bounds; that a     *)
(* reader is told of each row that is held back; that a reader sees the body   *)
(* of the row's own run or none, and that a miss may be kept; that the budget  *)
(* for bodies goes by priority; and that the heading of a page that has missed *)
(* nothing accounts for each exchange.                                        *)
(*                                                                           *)
(* One invariant, Types, says what each part of the state is made of: ids are  *)
(* numbered without a gap in what waits, in each snapshot and in the page's    *)
(* log.  The rest is built on it: OwnInv (what the page knows of is of the run *)
(* and not beyond what was received), ChainInv and FollowInv (what lies        *)
(* between the snapshots was forgotten, and the page's ledger up to where it   *)
(* got).  That a tick claims by priority needs Types alone.                     *)
(***************************************************************************)
EXTENDS RowStream, FiniteSums, SequenceTheorems, TLAPS

-----------------------------------------------------------------------------
(* Sequences: ends, prefixes, folds and selections.                           *)

\* The last n elements of a sequence.
LEMMA LastNFacts ==
    ASSUME NEW S, NEW s \in Seq(S), NEW n \in Nat
    PROVE  /\ LastN(s, n) \in Seq(S)
           /\ Len(LastN(s, n)) = (IF Len(s) <= n THEN Len(s) ELSE n)
           /\ \A j \in 1..Len(LastN(s, n)) :
                  LastN(s, n)[j] = s[Len(s) - Len(LastN(s, n)) + j]
<1>1. CASE Len(s) <= n
  BY <1>1 DEF LastN
<1>2. CASE ~(Len(s) <= n)
  <2> DEFINE m == Len(s) - n + 1
  <2>1. m \in 1..Len(s) + 1 /\ Len(s) - m + 1 = n
    BY <1>2
  <2>2. LastN(s, n) = SubSeq(s, m, Len(s))
    BY <1>2 DEF LastN
  <2>3. /\ SubSeq(s, m, Len(s)) \in Seq(S)
        /\ Len(SubSeq(s, m, Len(s))) = n
        /\ \A j \in 1..n : SubSeq(s, m, Len(s))[j] = s[m + j - 1]
    BY <1>2
  <2>4. \A j \in 1..n : m + j - 1 = Len(s) - n + j
    OBVIOUS
  <2> HIDE DEF m
  <2> QED BY <1>2, <2>2, <2>3, <2>4
<1> QED
  BY <1>1, <1>2

\* The first n elements of a sequence.
LEMMA FirstNFacts ==
    ASSUME NEW S, NEW s \in Seq(S), NEW n \in Nat
    PROVE  /\ FirstN(s, n) \in Seq(S)
           /\ Len(FirstN(s, n)) = (IF Len(s) <= n THEN Len(s) ELSE n)
           /\ \A j \in 1..Len(FirstN(s, n)) : FirstN(s, n)[j] = s[j]
<1>1. CASE Len(s) <= n
  BY <1>1 DEF FirstN
<1>2. CASE ~(Len(s) <= n)
  <2>1. FirstN(s, n) = SubSeq(s, 1, n)
    BY <1>2 DEF FirstN
  <2>2. /\ SubSeq(s, 1, n) \in Seq(S)
        /\ Len(SubSeq(s, 1, n)) = n
        /\ \A j \in 1..n : SubSeq(s, 1, n)[j] = s[j]
    BY <1>2
  <2> QED BY <1>2, <2>1, <2>2
<1> QED
  BY <1>1, <1>2

\* A sequence reversed has its length and its type.
LEMMA ReverseFacts ==
    ASSUME NEW S, NEW s \in Seq(S)
    PROVE  Reverse(s) \in Seq(S) /\ Len(Reverse(s)) = Len(s)
<1>1. \A i \in 1..Len(s) : Len(s) - i + 1 \in 1..Len(s)
  OBVIOUS
<1> QED
  BY <1>1 DEF Reverse

\* What is left of a sequence when its head is taken.
LEMMA TailFacts ==
    ASSUME NEW S, NEW s \in Seq(S), s # <<>>
    PROVE  /\ Tail(s) \in Seq(S) /\ Len(Tail(s)) = Len(s) - 1
           /\ \A j \in 1..(Len(s) - 1) : Tail(s)[j] = s[j + 1]
           /\ s[1] \in S /\ Head(s) = s[1] /\ Len(s) >= 1
OBVIOUS

\* One element more at the end.
LEMMA AppendFacts ==
    ASSUME NEW S, NEW s \in Seq(S), NEW x \in S
    PROVE  /\ Append(s, x) \in Seq(S) /\ Len(Append(s, x)) = Len(s) + 1
           /\ \A j \in 1..Len(s) : Append(s, x)[j] = s[j]
           /\ Append(s, x)[Len(s) + 1] = x
OBVIOUS

\* Two sequences in a row.
LEMMA ConcatFacts ==
    ASSUME NEW S, NEW s \in Seq(S), NEW t \in Seq(S)
    PROVE  /\ s \o t \in Seq(S) /\ Len(s \o t) = Len(s) + Len(t)
           /\ \A j \in 1..(Len(s) + Len(t)) :
                  (s \o t)[j] = IF j <= Len(s) THEN s[j] ELSE t[j - Len(s)]
<1>1. s \o t \in Seq(S) /\ Len(s \o t) = Len(s) + Len(t)
  BY ConcatProperties
<1>2. \A j \in 1..Len(s) + Len(t) : (s \o t)[j] = IF j <= Len(s) THEN s[j] ELSE t[j - Len(s)]
  BY ConcatProperties
<1> QED
  BY <1>1, <1>2

\* A function that is defined by recursion over the numbers up to n.
IsFold(g, start, step, n) == g = [i \in 0..n |-> IF i = 0 THEN start ELSE step[i][g[i - 1]]]

\* Such a recursion defines a function, whatever its steps are.
LEMMA FoldExists ==
    ASSUME NEW start, NEW step, NEW l \in Nat
    PROVE  \E g : IsFold(g, start, step, l)
<1> DEFINE P == {n \in Nat : \E g : IsFold(g, start, step, n)}
<1>1. 0 \in P
  <2> DEFINE g == [i \in 0..0 |-> start]
  <2>1. g = [i \in 0..0 |-> IF i = 0 THEN start ELSE step[i][g[i - 1]]]
    OBVIOUS
  <2> HIDE DEF g
  <2> QED BY <2>1 DEF IsFold
<1>2. ASSUME NEW n \in Nat, n \in P PROVE n + 1 \in P
  <2>1. PICK g : IsFold(g, start, step, n)
    BY <1>2
  <2> DEFINE h == [i \in 0..(n + 1) |-> IF i <= n THEN g[i] ELSE step[i][g[i - 1]]]
  <2>2. ASSUME NEW i \in 0..(n + 1)
        PROVE  h[i] = IF i = 0 THEN start ELSE step[i][h[i - 1]]
    <3>1. CASE i <= n
      <4>1. i \in 0..n
        BY <3>1
      <4>2. g[i] = IF i = 0 THEN start ELSE step[i][g[i - 1]]
        BY <2>1, <4>1, Zenon DEF IsFold
      <4>3. i # 0 => i - 1 \in 0..(n + 1) /\ i - 1 <= n
        BY <3>1
      <4> QED BY <3>1, <4>2, <4>3
    <3>2. CASE ~(i <= n)
      <4>1. i # 0 /\ i - 1 \in 0..(n + 1) /\ i - 1 <= n
        BY <3>2
      <4> QED BY <3>2, <4>1
    <3> QED BY <3>1, <3>2
  <2>3. h = [i \in 0..(n + 1) |-> h[i]]
    OBVIOUS
  <2> HIDE DEF h
  <2>4. h = [i \in 0..(n + 1) |-> IF i = 0 THEN start ELSE step[i][h[i - 1]]]
    BY <2>2, <2>3, Zenon
  <2>5. IsFold(h, start, step, n + 1)
    BY <2>4, Zenon DEF IsFold
  <2> QED BY <2>5
<1> HIDE DEF P
<1>3. l \in P
  BY <1>1, <1>2, NatInduction1
<1> QED
  BY <1>3 DEF P

Goes(g, start, step, n) == g[0] = start /\ \A i \in 1..n : g[i] = step[i][g[i - 1]]

\* Its values stay in a set that the steps stay in.
LEMMA FoldType ==
    ASSUME NEW l \in Nat, NEW A, NEW start \in A, NEW step \in [1..l -> [A -> A]]
    PROVE  \E g \in [0..l -> A] : Goes(g, start, step, l)
<1>0. \A i \in 1..l : \A a \in A : step[i][a] \in A
  OBVIOUS
<1>1. PICK g : IsFold(g, start, step, l)
  BY FoldExists
<1>2. \A i \in 0..l : g[i] = IF i = 0 THEN start ELSE step[i][g[i - 1]]
  BY <1>1, Zenon DEF IsFold
<1>3. g = [i \in 0..l |-> g[i]]
  <2>1. DOMAIN g = 0..l
    BY <1>1, Zenon DEF IsFold
  <2>2. g = [i \in 0..l |-> IF i = 0 THEN start ELSE step[i][g[i - 1]]]
    BY <1>1, Zenon DEF IsFold
  <2> QED BY <1>2, <2>2, Zenon
<1> DEFINE Q == {i \in Nat : i <= l => g[i] \in A}
<1>4. 0 \in Q
  BY <1>2
<1>5. ASSUME NEW i \in Nat, i \in Q PROVE i + 1 \in Q
  <2> SUFFICES ASSUME i + 1 <= l PROVE g[i + 1] \in A
    OBVIOUS
  <2>1. i + 1 \in 1..l /\ i + 1 \in 0..l /\ i + 1 # 0 /\ (i + 1) - 1 = i /\ g[i] \in A
    BY <1>5
  <2>2. g[i + 1] = step[i + 1][g[i]]
    BY <1>2, <2>1
  <2> QED BY <1>0, <2>1, <2>2
<1>6. \A i \in Nat : i \in Q
  <2> HIDE DEF Q
  <2> QED BY <1>4, <1>5, NatInduction1
<1>7. \A i \in 0..l : g[i] \in A
  BY <1>6
<1>8. \A i \in 1..l : g[i] = step[i][g[i - 1]]
  BY <1>2
<1>9. g[0] = start
  BY <1>2
<1> HIDE DEF Q
<1>10. g \in [0..l -> A]
  BY <1>3, <1>7, Zenon
<1> QED
  BY <1>8, <1>9, <1>10 DEF Goes

IsAt(g, s, J) == g = [n \in 0..Len(s) |-> IF n = 0 THEN <<>>
                                          ELSE IF n \in J THEN Append(g[n - 1], s[n]) ELSE g[n - 1]]
AtFun(s, J) == CHOOSE g : IsAt(g, s, J)

\* At is what its recursion returns at the end of the sequence.
LEMMA AtIsFun ==
    ASSUME NEW s, NEW J
    PROVE  At(s, J) = AtFun(s, J)[Len(s)]
BY Zenon DEF At, AtFun, IsAt

\* Going over s, each element at a position of J is appended.
LEMMA AtSteps ==
    ASSUME NEW S, NEW s \in Seq(S), NEW J
    PROVE  \E g \in [0..Len(s) -> Seq(S)] :
               /\ At(s, J) = g[Len(s)] /\ g[0] = <<>>
               /\ \A n \in 1..Len(s) : g[n] = IF n \in J THEN Append(g[n - 1], s[n]) ELSE g[n - 1]
<1> DEFINE step == [n \in 1..Len(s) |-> [a \in Seq(S) |-> IF n \in J THEN Append(a, s[n]) ELSE a]]
<1>1. \A n \in 1..Len(s) : \A a \in Seq(S) :
          /\ step[n][a] = IF n \in J THEN Append(a, s[n]) ELSE a
          /\ step[n][a] \in Seq(S)
  OBVIOUS
<1>0. step \in [1..Len(s) -> [Seq(S) -> Seq(S)]]
  OBVIOUS
<1>2. <<>> \in Seq(S) /\ Len(s) \in Nat
  OBVIOUS
<1> HIDE DEF step
<1>11. PICK g \in [0..Len(s) -> Seq(S)] : Goes(g, <<>>, step, Len(s))
  BY <1>0, <1>2, FoldType
<1>3. g[0] = <<>> /\ \A n \in 1..Len(s) : g[n] = step[n][g[n - 1]]
  BY <1>11 DEF Goes
<1>4. \A n \in 1..Len(s) : g[n] = IF n \in J THEN Append(g[n - 1], s[n]) ELSE g[n - 1]
  <2>1. \A n \in 1..Len(s) : n - 1 \in 0..Len(s) /\ g[n - 1] \in Seq(S)
    OBVIOUS
  <2> QED BY <1>1, <1>3, <2>1
<1>5. g = [n \in 0..Len(s) |-> IF n = 0 THEN <<>>
                               ELSE IF n \in J THEN Append(g[n - 1], s[n]) ELSE g[n - 1]]
  <2>1. \A n \in 0..Len(s) : g[n] = IF n = 0 THEN <<>>
                               ELSE IF n \in J THEN Append(g[n - 1], s[n]) ELSE g[n - 1]
    <3>1. \A n \in 0..Len(s) : n # 0 => n \in 1..Len(s)
      OBVIOUS
    <3> QED BY <1>3, <1>4, <3>1, Zenon
  <2>2. g = [n \in 0..Len(s) |-> g[n]]
    OBVIOUS
  <2> QED BY <2>1, <2>2, Zenon
<1>6. IsAt(AtFun(s, J), s, J)
  BY <1>5, Zenon DEF AtFun, IsAt
<1> DEFINE h == AtFun(s, J)
<1>7. \A n \in 0..Len(s) : h[n] = IF n = 0 THEN <<>>
                                  ELSE IF n \in J THEN Append(h[n - 1], s[n]) ELSE h[n - 1]
  BY <1>6, Zenon DEF IsAt
<1> HIDE DEF h
<1> DEFINE Q == {n \in Nat : n <= Len(s) => h[n] = g[n]}
<1>8. 0 \in Q
  BY <1>2, <1>3, <1>7
<1>9. ASSUME NEW n \in Nat, n \in Q PROVE n + 1 \in Q
  <2> SUFFICES ASSUME n + 1 <= Len(s) PROVE h[n + 1] = g[n + 1]
    OBVIOUS
  <2>1. n + 1 \in 1..Len(s) /\ n + 1 \in 0..Len(s) /\ n + 1 # 0 /\ (n + 1) - 1 = n /\ h[n] = g[n]
    BY <1>9
  <2>2. h[n + 1] = IF n + 1 \in J THEN Append(h[n], s[n + 1]) ELSE h[n]
    BY <1>7, <2>1
  <2>3. g[n + 1] = IF n + 1 \in J THEN Append(g[n], s[n + 1]) ELSE g[n]
    BY <1>4, <2>1
  <2> QED BY <2>1, <2>2, <2>3
<1>10. \A n \in Nat : n \in Q
  <2> HIDE DEF Q
  <2> QED BY <1>8, <1>9, NatInduction1
<1>12. At(s, J) = g[Len(s)]
  BY <1>2, <1>10, AtIsFun DEF h
<1> HIDE DEF Q
<1> QED
  BY <1>3, <1>4, <1>12

\* What At returns has the elements at those positions, and no others.
LEMMA AtFacts ==
    ASSUME NEW S, NEW s \in Seq(S), NEW J \in SUBSET (1..Len(s))
    PROVE  /\ At(s, J) \in Seq(S)
           /\ \A i \in 1..Len(At(s, J)) : \E j \in J : At(s, J)[i] = s[j]
           /\ \A j \in J : \E i \in 1..Len(At(s, J)) : At(s, J)[i] = s[j]
<1>1. PICK g \in [0..Len(s) -> Seq(S)] :
          /\ At(s, J) = g[Len(s)] /\ g[0] = <<>>
          /\ \A n \in 1..Len(s) : g[n] = IF n \in J THEN Append(g[n - 1], s[n]) ELSE g[n - 1]
  BY AtSteps
<1> DEFINE Good(n) == /\ \A i \in 1..Len(g[n]) : \E j \in J : g[n][i] = s[j]
                      /\ \A j \in J : j <= n => \E i \in 1..Len(g[n]) : g[n][i] = s[j]
           Q == {n \in Nat : n <= Len(s) => Good(n)}
<1>2. 0 \in Q
  <2>1. Len(g[0]) = 0
    BY <1>1
  <2> QED BY <2>1
<1>3. ASSUME NEW n \in Nat, n \in Q PROVE n + 1 \in Q
  <2> SUFFICES ASSUME n + 1 <= Len(s) PROVE Good(n + 1)
    OBVIOUS
  <2>1. n + 1 \in 1..Len(s) /\ n \in 0..Len(s) /\ (n + 1) - 1 = n /\ Good(n)
    BY <1>3
  <2>2. g[n + 1] = IF n + 1 \in J THEN Append(g[n], s[n + 1]) ELSE g[n]
    BY <1>1, <2>1
  <2>3. g[n] \in Seq(S) /\ s[n + 1] \in S
    BY <1>1, <2>1
  <2>4. CASE n + 1 \in J
    <3> DEFINE t == Append(g[n], s[n + 1])
    <3>1. /\ Len(t) = Len(g[n]) + 1 /\ Len(g[n]) \in Nat
          /\ \A i \in 1..Len(g[n]) : t[i] = g[n][i]
          /\ t[Len(g[n]) + 1] = s[n + 1]
      BY <2>3, AppendFacts
    <3>2. g[n + 1] = t
      BY <2>2, <2>4
    <3> HIDE DEF t
    <3>3. \A i \in 1..Len(t) : i \in 1..Len(g[n]) \/ i = Len(g[n]) + 1
      BY <3>1
    <3>4. ASSUME NEW i \in 1..Len(t) PROVE \E j \in J : t[i] = s[j]
      <4>1. CASE i \in 1..Len(g[n])
        <5>1. \E j \in J : g[n][i] = s[j]
          BY <2>1, <4>1
        <5> QED BY <3>1, <4>1, <5>1
      <4>2. CASE i = Len(g[n]) + 1
        BY <2>4, <3>1, <4>2
      <4> QED BY <3>3, <4>1, <4>2
    <3>5. ASSUME NEW j \in J, j <= n + 1 PROVE \E i \in 1..Len(t) : t[i] = s[j]
      <4>1. CASE j <= n
        <5>1. PICK i \in 1..Len(g[n]) : g[n][i] = s[j]
          BY <2>1, <4>1
        <5>2. i \in 1..Len(t) /\ t[i] = s[j]
          BY <3>1, <5>1
        <5> QED BY <5>2
      <4>2. CASE ~(j <= n)
        <5>1. j = n + 1 /\ Len(g[n]) + 1 \in 1..Len(t)
          BY <3>1, <3>5, <4>2
        <5> QED BY <3>1, <5>1
      <4> QED BY <4>1, <4>2
    <3> QED BY <3>2, <3>4, <3>5
  <2>5. CASE n + 1 \notin J
    <3>1. \A j \in J : j <= n + 1 => j <= n
      BY <2>5
    <3> QED BY <2>1, <2>2, <2>5, <3>1
  <2> QED BY <2>4, <2>5
<1>4. \A n \in Nat : n \in Q
  <2> HIDE DEF Q
  <2> QED BY <1>2, <1>3, NatInduction1
<1>5. Len(s) \in Nat /\ Len(s) \in 0..Len(s)
  OBVIOUS
<1>6. Good(Len(s))
  <2>1. Len(s) \in Q
    BY <1>4, <1>5
  <2>2. Len(s) <= Len(s)
    BY <1>5
  <2> HIDE DEF Good
  <2> QED BY <2>1, <2>2
<1> QED
  BY <1>1, <1>5, <1>6

\* At the last positions is the end of the sequence.
LEMMA AtEnd ==
    ASSUME NEW S, NEW s \in Seq(S), NEW k \in 0..Len(s)
    PROVE  /\ At(s, (k + 1)..Len(s)) \in Seq(S)
           /\ Len(At(s, (k + 1)..Len(s))) = Len(s) - k
           /\ \A j \in 1..(Len(s) - k) : At(s, (k + 1)..Len(s))[j] = s[k + j]
<1> DEFINE J == (k + 1)..Len(s)
<1>0. \A n : n \in J <=> n \in Int /\ k + 1 <= n /\ n <= Len(s)
  OBVIOUS
<1> HIDE DEF J
<1>1. PICK g \in [0..Len(s) -> Seq(S)] :
          /\ At(s, J) = g[Len(s)] /\ g[0] = <<>>
          /\ \A n \in 1..Len(s) : g[n] = IF n \in J THEN Append(g[n - 1], s[n]) ELSE g[n - 1]
  BY AtSteps
<1> DEFINE Good(n) == IF n <= k THEN g[n] = <<>>
                      ELSE /\ Len(g[n]) = n - k
                           /\ \A j \in 1..(n - k) : g[n][j] = s[k + j]
           Q == {n \in Nat : n <= Len(s) => Good(n)}
<1>2. 0 \in Q
  BY <1>1
<1>3. ASSUME NEW n \in Nat, n \in Q PROVE n + 1 \in Q
  <2> SUFFICES ASSUME n + 1 <= Len(s) PROVE Good(n + 1)
    OBVIOUS
  <2>1. n + 1 \in 1..Len(s) /\ n \in 0..Len(s) /\ (n + 1) - 1 = n /\ Good(n)
    BY <1>3
  <2>2. g[n + 1] = IF n + 1 \in J THEN Append(g[n], s[n + 1]) ELSE g[n]
    BY <1>1, <2>1
  <2>3. g[n] \in Seq(S) /\ s[n + 1] \in S
    BY <1>1, <2>1
  <2>4. CASE n + 1 <= k
    BY <1>0, <2>1, <2>2, <2>4
  <2>5. CASE ~(n + 1 <= k)
    <3>1. n + 1 \in J /\ g[n + 1] = Append(g[n], s[n + 1])
      BY <1>0, <2>1, <2>2, <2>5
    <3>2. Len(g[n]) = n - k /\ \A j \in 1..(n - k) : g[n][j] = s[k + j]
      <4>1. CASE n <= k
        <5>1. n = k /\ g[n] = <<>>
          BY <2>1, <2>5, <4>1
        <5> QED BY <5>1
      <4> QED BY <2>1, <4>1
    <3>3. /\ Len(g[n + 1]) = (n - k) + 1
          /\ \A j \in 1..(n - k) : g[n + 1][j] = g[n][j]
          /\ g[n + 1][(n - k) + 1] = s[n + 1]
      <4> DEFINE a == g[n]
                 x == s[n + 1]
                 t == Append(a, x)
      <4>1. a \in Seq(S) /\ x \in S
        BY <2>3
      <4> HIDE DEF a, x
      <4>2. /\ Len(t) = Len(a) + 1 /\ t[Len(a) + 1] = x
            /\ \A j \in 1..Len(a) : t[j] = a[j]
        BY <4>1, AppendFacts
      <4>3. g[n + 1] = t /\ Len(a) = n - k
        BY <3>1, <3>2 DEF a, x
      <4> HIDE DEF t
      <4> QED BY <4>2, <4>3 DEF a, x
    <3>4. ASSUME NEW j \in 1..((n + 1) - k) PROVE g[n + 1][j] = s[k + j]
      <4>1. CASE j \in 1..(n - k)
        BY <3>2, <3>3, <4>1
      <4>2. CASE j \notin 1..(n - k)
        <5>1. j = (n - k) + 1 /\ k + j = n + 1
          BY <2>5, <4>2
        <5> QED BY <3>3, <5>1
      <4> QED BY <4>1, <4>2
    <3>5. (n - k) + 1 = (n + 1) - k
      OBVIOUS
    <3> QED BY <2>5, <3>3, <3>4, <3>5
  <2> QED BY <2>4, <2>5
<1>4. \A n \in Nat : n \in Q
  <2> HIDE DEF Q
  <2> QED BY <1>2, <1>3, NatInduction1
<1>5. Len(s) \in Nat /\ Len(s) \in 0..Len(s)
  OBVIOUS
<1>6. Good(Len(s))
  <2>1. Len(s) \in Q
    BY <1>4, <1>5
  <2>2. Len(s) <= Len(s)
    BY <1>5
  <2> HIDE DEF Good
  <2> QED BY <2>1, <2>2
<1>7. CASE k = Len(s)
  <2>1. g[Len(s)] = <<>>
    BY <1>6, <1>7
  <2> QED BY <1>1, <1>7, <2>1 DEF J
<1>8. CASE k # Len(s)
  <2>1. ~(Len(s) <= k)
    BY <1>8
  <2> QED BY <1>1, <1>5, <1>6, <2>1 DEF J
<1> QED
  BY <1>7, <1>8

-----------------------------------------------------------------------------
(* The store.                                                                *)

Held == [id : 1..MaxEvents, run : 1..MaxRun]
In(s) == {s[j] : j \in 1..Len(s)}
Stores == {s \in Seq(Held) : Len(s) <= MaxHeld}
BodyOf(r) == [id |-> r.id, run |-> r.run]

\* The capacities are numbers, and there is room for one at least.
LEMMA Sizes ==
    /\ RecentCap \in Nat \ {0} /\ DrainMax \in Nat \ {0} /\ MaxHeld \in Nat \ {0}
    /\ RecentMax \in Nat \ {0} /\ StreamRows \in Nat \ {0} /\ HeldMax \in Nat \ {0}
    /\ CacheMax \in Nat \ {0} /\ MaxEvents \in Nat /\ MaxRun \in Nat \ {0} /\ PartBudget \in Nat
    /\ MaxWire \in Nat /\ MaxConnects \in Nat
BY RowStreamAssumption DEF RowStreamAssumption

\* A body put into the store is there, and the others were there before.
LEMMA PutFacts ==
    ASSUME NEW st \in Stores, NEW b \in Held
    PROVE  /\ Put(st, b) \in Stores
           /\ In(Put(st, b)) \subseteq In(st) \cup {b}
<1>1. st \in Seq(Held) /\ Len(st) <= MaxHeld
  BY DEF Stores
<1>2. CASE \E j \in 1..Len(st) : st[j].id = b.id
  <2> DEFINE new == [j \in 1..Len(st) |-> IF st[j].id = b.id THEN b ELSE st[j]]
  <2>1. Put(st, b) = new
    BY <1>2 DEF Put
  <2>2. \A j \in 1..Len(st) : new[j] \in Held /\ (new[j] = b \/ new[j] = st[j])
    BY <1>1
  <2>3. new \in Seq(Held) /\ Len(new) = Len(st)
    BY <1>1, <2>2
  <2> HIDE DEF new
  <2> QED BY <1>1, <2>1, <2>2, <2>3 DEF Stores, In
<1>3. CASE ~\E j \in 1..Len(st) : st[j].id = b.id
  <2> DEFINE all == Append(st, b)
             new == LastN(all, MaxHeld)
  <2>1. Put(st, b) = new
    BY <1>3 DEF Put
  <2>2. /\ all \in Seq(Held) /\ Len(all) = Len(st) + 1
        /\ \A j \in 1..Len(st) : all[j] = st[j]
        /\ all[Len(st) + 1] = b
    BY <1>1, AppendFacts
  <2> HIDE DEF all
  <2>3. /\ new \in Seq(Held)
        /\ Len(new) = (IF Len(all) <= MaxHeld THEN Len(all) ELSE MaxHeld)
        /\ \A j \in 1..Len(new) : new[j] = all[Len(all) - Len(new) + j]
    <3>1. MaxHeld \in Nat
      BY Sizes
    <3> QED BY <2>2, <3>1, LastNFacts
  <2> HIDE DEF new
  <2>4. ASSUME NEW j \in 1..Len(new) PROVE new[j] \in In(st) \cup {b}
    <3>1. Len(all) - Len(new) + j \in 1..Len(all)
      BY <2>2, <2>3, Sizes
    <3> DEFINE i == Len(all) - Len(new) + j
    <3>2. i \in 1..Len(st) \/ i = Len(st) + 1
      BY <1>1, <2>2, <3>1
    <3>3. new[j] = all[i]
      BY <2>3
    <3> HIDE DEF i
    <3> QED BY <2>2, <3>2, <3>3 DEF In
  <2>5. Len(new) <= MaxHeld
    BY <2>2, <2>3, Sizes
  <2> QED BY <2>1, <2>3, <2>4, <2>5 DEF Stores, In
<1> QED
  BY <1>2, <1>3

IsStored(g, st, rows) ==
    g = [n \in 0..Len(rows) |-> IF n = 0 THEN st
                                ELSE Put(g[n - 1], [id |-> rows[n].id, run |-> rows[n].run])]
StoredFun(st, rows) == CHOOSE g : IsStored(g, st, rows)

\* Stored is what its recursion returns at the last row.
LEMMA StoredIsFun ==
    ASSUME NEW rows
    PROVE  Stored(rows) = StoredFun(store, rows)[Len(rows)]
BY Zenon DEF Stored, StoredFun, IsStored

\* What a tick's bodies make of the store: it keeps its type and its bound, and holds
\* nothing but what was held before and what came.
LEMMA StoredFacts ==
    ASSUME NEW rows \in Seq(Rows), store \in Stores
    PROVE  /\ Stored(rows) \in Stores
           /\ In(Stored(rows)) \subseteq In(store) \cup {BodyOf(r) : r \in In(rows)}
<1> DEFINE l == Len(rows)
           Good == {s \in Stores : In(s) \subseteq In(store) \cup {BodyOf(r) : r \in In(rows)}}
           step == [n \in 1..l |-> [a \in Good |-> Put(a, BodyOf(rows[n]))]]
<1>1. l \in Nat
  OBVIOUS
<1>2. store \in Good
  OBVIOUS
<1>3. ASSUME NEW n \in 1..l, NEW a \in Good PROVE Put(a, BodyOf(rows[n])) \in Good
  <2>1. rows[n] \in Rows /\ BodyOf(rows[n]) \in Held /\ rows[n] \in In(rows)
    <3>1. rows[n] \in Rows
      OBVIOUS
    <3>2. BodyOf(rows[n]) \in Held
      BY <3>1 DEF Rows, BodyOf, Held
    <3> QED BY <3>1, <3>2 DEF In
  <2>2. a \in Stores /\ In(a) \subseteq In(store) \cup {BodyOf(r) : r \in In(rows)}
    OBVIOUS
  <2>3. /\ Put(a, BodyOf(rows[n])) \in Stores
        /\ In(Put(a, BodyOf(rows[n]))) \subseteq In(a) \cup {BodyOf(rows[n])}
    BY <2>1, <2>2, PutFacts
  <2> QED BY <2>1, <2>2, <2>3
<1> HIDE DEF l, Good
<1>4. /\ step \in [1..l -> [Good -> Good]]
      /\ \A n \in 1..l : \A a \in Good : step[n][a] = Put(a, BodyOf(rows[n]))
  BY <1>3
<1> HIDE DEF step
<1>5. PICK g \in [0..l -> Good] : Goes(g, store, step, l)
  BY <1>1, <1>2, <1>4, FoldType
<1>6. g[0] = store /\ \A n \in 1..l : g[n] = step[n][g[n - 1]]
  BY <1>5 DEF Goes
<1>7. \A n \in 1..l : g[n] = Put(g[n - 1], BodyOf(rows[n]))
  <2>1. \A n \in 1..l : n - 1 \in 0..l /\ g[n - 1] \in Good
    BY <1>1
  <2> QED BY <1>4, <1>6, <2>1
<1>8. \A n \in 0..l : g[n] = IF n = 0 THEN store ELSE Put(g[n - 1], BodyOf(rows[n]))
  <2>1. \A n \in 0..l : n # 0 => n \in 1..l
    BY <1>1
  <2> QED BY <1>6, <1>7, <2>1, Zenon
<1>9. IsStored(g, store, rows)
  <2>1. g = [n \in 0..l |-> g[n]]
    OBVIOUS
  <2>2. g = [n \in 0..l |-> IF n = 0 THEN store ELSE Put(g[n - 1], BodyOf(rows[n]))]
    BY <1>8, <2>1, Zenon
  <2> QED BY <2>2, Zenon DEF IsStored, BodyOf, l
<1>10. IsStored(StoredFun(store, rows), store, rows)
  BY <1>9, Zenon DEF StoredFun
<1> DEFINE h == StoredFun(store, rows)
<1>11. \A n \in 0..l : h[n] = IF n = 0 THEN store ELSE Put(h[n - 1], BodyOf(rows[n]))
  BY <1>10, Zenon DEF IsStored, BodyOf, l
<1> HIDE DEF h
<1> DEFINE Q == {n \in Nat : n <= l => h[n] \in Good}
<1>12. 0 \in Q
  BY <1>1, <1>2, <1>11
<1>13. ASSUME NEW n \in Nat, n \in Q PROVE n + 1 \in Q
  <2> SUFFICES ASSUME n + 1 <= l PROVE h[n + 1] \in Good
    OBVIOUS
  <2>1. n + 1 \in 1..l /\ n + 1 \in 0..l /\ n + 1 # 0 /\ (n + 1) - 1 = n /\ h[n] \in Good
    BY <1>1, <1>13
  <2>2. h[n + 1] = Put(h[n], BodyOf(rows[n + 1]))
    BY <1>11, <2>1
  <2> QED BY <1>3, <2>1, <2>2
<1>14. \A n \in Nat : n \in Q
  <2> HIDE DEF Q
  <2> QED BY <1>12, <1>13, NatInduction1
<1>15. h[l] \in Good
  BY <1>1, <1>14
<1> QED
  BY <1>15, StoredIsFun DEF h, l, Good

-----------------------------------------------------------------------------
(* Which steps touch which part of the state.                                *)

ProbeVars == <<run, lastId, before, waiting, cut, respawned>>
LaneVars == lane
ServerVars == <<latest, store>>
PageVars == <<wire, connects, pageRun, base>>
LogVars == <<recent, seqCounter, droppedRows>>
StreamVars == <<stream, order>>
ViewVars == viewer

OnProbe == \/ \E x \in Exchanges : Complete(x)
           \/ \E room \in Rooms : Tick(room)
           \/ Respawn
           \/ Restart
OnLane == \/ \E room \in Rooms : Tick(room)
          \/ ReceiveParts
          \/ Broadcast
          \/ Respawn
          \/ Restart
OnServer == ReceiveParts \/ Broadcast \/ Restart
OnPage == OpenPage \/ Connect \/ Disconnect \/ Broadcast \/ Apply
OnLog == OpenPage \/ ForgetRows \/ Apply
OnStream == OpenPage \/ Apply \/ Select \/ Resume \/ ScrollAway \/ ScrollBack \/ CloseRow
OnView == \/ Select
          \/ Resume
          \/ CloseRow
          \/ \E j \in 1..Len(shown) : ClickForgotten(shown[j])
          \/ \E j \in 1..Len(shown) : OpenRow(shown[j])
          \/ \E f \in fetching : AnswerFetch(f)
          \/ \E f \in fetching : TakeAnswer(f)
          \/ \E f \in fetching : FailFetch(f)

Touched == /\ UNCHANGED ProbeVars \/ OnProbe
           /\ UNCHANGED LaneVars \/ OnLane
           /\ UNCHANGED ServerVars \/ OnServer
           /\ UNCHANGED PageVars \/ OnPage
           /\ UNCHANGED LogVars \/ OnLog
           /\ UNCHANGED StreamVars \/ OnStream
           /\ UNCHANGED ViewVars \/ OnView
           /\ UNCHANGED followed \/ ~followed' \/ OpenPage \/ (Broadcast /\ wire # Nothing)

\* Each part of the state is changed by the steps listed above, and by no other.
LEMMA StepsTouch ==
    ASSUME [Next]_vars
    PROVE  Touched
<1> USE DEF ProbeVars, LaneVars, ServerVars, PageVars, LogVars, StreamVars, ViewVars,
            probe, server, rowLog, stream, viewer, history, order
<1>1. ASSUME NEW x \in Exchanges, Complete(x) PROVE Touched
  BY <1>1 DEF Touched, OnProbe, Complete
<1>2. ASSUME NEW room \in Rooms, Tick(room) PROVE Touched
  BY <1>2 DEF Touched, OnProbe, OnLane, Tick
<1>3. CASE ReceiveParts
  BY <1>3 DEF Touched, OnLane, OnServer, ReceiveParts
<1>4. CASE Broadcast
  BY <1>4 DEF Touched, OnLane, OnServer, OnPage, Broadcast
<1>5. CASE Respawn
  BY <1>5 DEF Touched, OnProbe, OnLane, Respawn, NewRun, Begun
<1>6. CASE Restart
  BY <1>6 DEF Touched, OnProbe, OnLane, OnServer, Restart, NewRun, Begun
<1>7. CASE OpenPage
  BY <1>7 DEF Touched, OnPage, OnLog, OnStream, OpenPage
<1>8. CASE Connect
  BY <1>8 DEF Touched, OnPage, Connect
<1>9. CASE Disconnect
  BY <1>9 DEF Touched, OnPage, Disconnect
<1>10. CASE ForgetRows
  BY <1>10 DEF Touched, OnLog, ForgetRows
<1>11. CASE Apply
  BY <1>11 DEF Touched, OnPage, OnLog, OnStream, Apply
<1>12. CASE Select
  BY <1>12 DEF Touched, OnStream, OnView, Select
<1>13. CASE Resume
  BY <1>13 DEF Touched, OnStream, OnView, Resume, Resumed
<1>14. CASE ScrollAway
  BY <1>14 DEF Touched, OnStream, ScrollAway
<1>15. CASE ScrollBack
  BY <1>15 DEF Touched, OnStream, ScrollBack
<1>16. CASE CloseRow
  BY <1>16 DEF Touched, OnStream, OnView, CloseRow, Resumed
<1>17. ASSUME NEW j \in 1..Len(shown), ClickForgotten(shown[j]) PROVE Touched
  BY <1>17 DEF Touched, OnView, ClickForgotten
<1>18. ASSUME NEW j \in 1..Len(shown), OpenRow(shown[j]) PROVE Touched
  BY <1>18 DEF Touched, OnView, OpenRow
<1>19. ASSUME NEW f \in fetching, AnswerFetch(f) PROVE Touched
  BY <1>19 DEF Touched, OnView, AnswerFetch
<1>20. ASSUME NEW f \in fetching, TakeAnswer(f) PROVE Touched
  BY <1>20 DEF Touched, OnView, TakeAnswer
<1>21. ASSUME NEW f \in fetching, FailFetch(f) PROVE Touched
  BY <1>21 DEF Touched, OnView, FailFetch
<1>22. CASE UNCHANGED vars
  BY <1>22 DEF Touched, vars
<1> QED
  BY <1>1, <1>2, <1>3, <1>4, <1>5, <1>6, <1>7, <1>8, <1>9, <1>10, <1>11, <1>12, <1>13, <1>14,
     <1>15, <1>16, <1>17, <1>18, <1>19, <1>20, <1>21, <1>22 DEF Next

-----------------------------------------------------------------------------
(* What the state is made of, and how exchanges are numbered.                  *)

Drained == [id : 1..MaxEvents, failed : BOOLEAN, cost : Nat]
\* What was drained or forgotten of this run is what has an id up to here.
Settled == lastId - Len(waiting)

ProbeInv ==
    /\ run \in 1..MaxRun /\ lastId \in 0..MaxEvents /\ before \in Nat /\ respawned \in BOOLEAN
    /\ waiting \in Seq(Drained) /\ Len(waiting) <= RecentCap /\ Len(waiting) <= lastId
    /\ \A j \in 1..Len(waiting) : waiting[j].id = Settled + j
    /\ cut \in SUBSET (1..Settled)

\* A snapshot accounts for the ids after From(f), up to f.upto: its rows are the last of them.
From(f) == f.upto - Len(f.rows) - f.recentDropped
FrameOK(f) ==
    /\ Len(f.rows) <= DrainMax
    /\ From(f) \in Nat
    /\ \A j \in 1..Len(f.rows) : f.rows[j].id = f.upto - Len(f.rows) + j /\ f.rows[j].run = f.run
Snapshots == {f \in Frames : FrameOK(f)}
Bundles == [t : {"parts"}, rows : Seq(Rows)]

\* The lane has a snapshot of this run, or its bodies and then the snapshot.
OnTheWay(f) == f \in Snapshots /\ f.run = run /\ f.upto <= Settled
BodiesFor(p, f) ==
    p \in Bundles /\ \A r \in In(p.rows) : r.run = run /\ From(f) < r.id /\ r.id <= f.upto
LaneInv ==
    \/ lane = <<>>
    \/ \E f \in Frames : lane = <<f>> /\ OnTheWay(f)
    \/ \E p \in Bundles, f \in Frames : lane = <<p, f>> /\ OnTheWay(f) /\ BodiesFor(p, f)

\* No snapshot, view or sequence of snapshots is taken for null.
LEMMA FramesAreNot ==
    /\ Nothing \notin Nat /\ Nothing \notin Frames /\ Nothing \notin Views
    /\ Nothing \notin Snapshots
    /\ \A s \in Seq(Snapshots) : s # Nothing /\ s \in Seq(Frames)
<1>1. Nothing \notin Nat /\ Nothing \notin Frames /\ Nothing \notin Views
      /\ Nothing \notin Seq(Frames)
  BY RowStreamAssumption DEF RowStreamAssumption
<1>2. Snapshots \subseteq Frames
  BY DEF Snapshots
<1>3. Seq(Snapshots) \subseteq Seq(Frames)
  <2> HIDE DEF Snapshots
  <2> QED BY <1>2
<1> QED
  BY <1>1, <1>2, <1>3

\* An exchange completes: it gets the next id; past the cap the oldest is forgotten.
LEMMA CompleteProbe ==
    ASSUME ProbeInv, NEW x \in Exchanges, Complete(x)
    PROVE  /\ ProbeInv' /\ Settled <= Settled'
           /\ \/ Settled' = Settled /\ cut' = cut
              \/ Settled' = Settled + 1 /\ cut' = cut \cup {Settled + 1}
<1> DEFINE e == [id |-> lastId + 1, failed |-> x.failed, cost |-> x.cost]
           all == Append(waiting, e)
<1>1. /\ run \in 1..MaxRun /\ lastId \in Nat /\ before \in Nat /\ Len(waiting) \in Nat
      /\ waiting \in Seq(Drained) /\ Len(waiting) <= RecentCap /\ Len(waiting) <= lastId
      /\ \A j \in 1..Len(waiting) : waiting[j].id = lastId - Len(waiting) + j
      /\ cut \in SUBSET (1..(lastId - Len(waiting)))
  BY DEF ProbeInv, Settled
<1>2. /\ run + before + lastId < MaxEvents /\ lastId' = lastId + 1
      /\ waiting' = LastN(all, RecentCap)
      /\ cut' = IF Len(all) > RecentCap THEN cut \cup {all[1].id} ELSE cut
      /\ UNCHANGED <<run, before, respawned>>
  BY DEF Complete
<1>3. lastId + 1 \in 1..MaxEvents
  BY <1>1, <1>2, Sizes
<1>4. e \in Drained /\ e.id = lastId + 1
  BY <1>3, RowStreamAssumption DEF RowStreamAssumption, Drained
<1> HIDE DEF e
<1>5. /\ all \in Seq(Drained) /\ Len(all) = Len(waiting) + 1
      /\ \A j \in 1..Len(waiting) : all[j] = waiting[j]
      /\ all[Len(waiting) + 1] = e
  BY <1>1, <1>4, AppendFacts
<1> HIDE DEF all
<1>6. \A j \in 1..Len(all) : all[j].id = lastId - Len(waiting) + j
  <2> TAKE j \in 1..Len(all)
  <2>1. CASE j \in 1..Len(waiting)
    BY <1>1, <1>5, <2>1
  <2>2. CASE j \notin 1..Len(waiting)
    <3>1. j = Len(waiting) + 1
      BY <1>1, <1>5, <2>2
    <3>2. all[j].id = lastId + 1
      BY <1>4, <1>5, <3>1
    <3> QED BY <1>1, <3>1, <3>2
  <2> QED BY <2>1, <2>2
<1>7. RecentCap \in Nat /\ RecentCap > 0
  BY Sizes
<1>8. /\ waiting' \in Seq(Drained)
      /\ Len(waiting') = (IF Len(all) <= RecentCap THEN Len(all) ELSE RecentCap)
      /\ \A j \in 1..Len(waiting') : waiting'[j] = all[Len(all) - Len(waiting') + j]
  <2>1. /\ LastN(all, RecentCap) \in Seq(Drained)
        /\ Len(LastN(all, RecentCap)) = (IF Len(all) <= RecentCap THEN Len(all) ELSE RecentCap)
        /\ \A j \in 1..Len(LastN(all, RecentCap)) :
              LastN(all, RecentCap)[j] = all[Len(all) - Len(LastN(all, RecentCap)) + j]
    <3>1. all \in Seq(Drained) /\ RecentCap \in Nat
      BY <1>5, <1>7
    <3> QED BY <3>1, LastNFacts
  <2> QED BY <1>2, <2>1
<1>9. Len(waiting') <= RecentCap /\ Len(waiting') <= lastId' /\ Len(waiting') \in Nat
  BY <1>1, <1>2, <1>5, <1>7, <1>8
<1>10. lastId' - Len(waiting') = lastId - Len(waiting) + (IF Len(all) <= RecentCap THEN 0 ELSE 1)
  BY <1>1, <1>2, <1>5, <1>7, <1>8
<1>11. ASSUME NEW j \in 1..Len(waiting') PROVE waiting'[j].id = lastId' - Len(waiting') + j
  <2> DEFINE i == Len(all) - Len(waiting') + j
  <2>1. i \in 1..Len(all)
    BY <1>1, <1>5, <1>7, <1>8
  <2>2. waiting'[j] = all[i] /\ all[i].id = lastId - Len(waiting) + i
    BY <1>6, <1>8, <2>1
  <2>3. lastId - Len(waiting) + i = lastId' - Len(waiting') + j
    BY <1>1, <1>2, <1>5, <1>9
  <2> HIDE DEF i
  <2> QED BY <2>2, <2>3
<1>12. cut' \in SUBSET (1..(lastId' - Len(waiting')))
  <2>1. CASE Len(all) <= RecentCap
    BY <1>1, <1>2, <1>5, <1>7, <1>10, <2>1
  <2>2. CASE ~(Len(all) <= RecentCap)
    <3>1. all[1].id = lastId - Len(waiting) + 1 /\ Len(all) > RecentCap
      BY <1>1, <1>5, <1>6, <1>7, <2>2
    <3>2. cut' = cut \cup {lastId - Len(waiting) + 1}
      BY <1>2, <3>1
    <3>3. lastId' - Len(waiting') = lastId - Len(waiting) + 1
      BY <1>10, <2>2
    <3> DEFINE k == lastId - Len(waiting)
    <3>4. k \in Nat /\ cut \subseteq 1..k /\ k + 1 \in 1..(k + 1) /\ 1..k \subseteq 1..(k + 1)
      BY <1>1
    <3> HIDE DEF k
    <3>5. cut \cup {k + 1} \subseteq 1..(k + 1)
      BY <3>4
    <3> QED BY <3>2, <3>3, <3>5 DEF k
  <2> QED BY <2>1, <2>2
<1>13. lastId' \in 0..MaxEvents
  BY <1>2, <1>3
<1>14. run' \in 1..MaxRun /\ before' \in Nat /\ respawned' \in BOOLEAN
  BY <1>2 DEF ProbeInv
<1>15. ProbeInv'
  BY <1>8, <1>9, <1>11, <1>12, <1>13, <1>14 DEF ProbeInv, Settled
<1>16. Settled' = lastId' - Len(waiting') /\ Settled = lastId - Len(waiting)
  BY DEF Settled
<1>17. \/ Settled' = Settled /\ cut' = cut
       \/ Settled' = Settled + 1 /\ cut' = cut \cup {Settled + 1}
  <2>1. CASE Len(all) <= RecentCap
    <3>1. ~(Len(all) > RecentCap)
      BY <1>1, <1>5, <1>7, <2>1
    <3>2. lastId' - Len(waiting') = lastId - Len(waiting)
      BY <1>1, <1>10, <2>1
    <3> QED BY <1>2, <1>16, <3>1, <3>2
  <2>2. CASE ~(Len(all) <= RecentCap)
    <3>1. all[1].id = lastId - Len(waiting) + 1 /\ Len(all) > RecentCap
      BY <1>1, <1>5, <1>6, <1>7, <2>2
    <3>2. cut' = cut \cup {lastId - Len(waiting) + 1}
      BY <1>2, <3>1
    <3> QED BY <1>10, <1>16, <2>2, <3>2
  <2> QED BY <2>1, <2>2
<1> QED
  BY <1>1, <1>10, <1>15, <1>16, <1>17

\* A tick settles all that completed.
LEMMA TickProbe ==
    ASSUME ProbeInv, NEW room \in Rooms, Tick(room)
    PROVE  ProbeInv' /\ Settled <= Settled' /\ Settled' = lastId
<1>1. /\ lastId \in Nat /\ Len(waiting) \in Nat /\ Len(waiting) <= lastId
      /\ \A j \in 1..Len(waiting) : waiting[j].id = lastId - Len(waiting) + j
      /\ cut \in SUBSET (1..(lastId - Len(waiting)))
  BY DEF ProbeInv, Settled
<1>2. /\ waiting' = <<>> /\ UNCHANGED <<run, lastId, before, respawned>>
      /\ cut' = cut \cup {waiting[j].id : j \in 1..(Len(waiting) - DrainMax)}
  BY DEF Tick
<1>3. Settled' = lastId /\ Settled = lastId - Len(waiting)
  BY <1>1, <1>2 DEF Settled
<1>4. DrainMax \in Nat
  BY Sizes
<1>5. cut' \in SUBSET (1..lastId)
  <2>1. \A j \in 1..(Len(waiting) - DrainMax) : waiting[j].id \in 1..lastId
    <3> TAKE j \in 1..(Len(waiting) - DrainMax)
    <3>1. j \in 1..Len(waiting)
      BY <1>1, <1>4
    <3>2. waiting[j].id = lastId - Len(waiting) + j
      BY <1>1, <3>1
    <3> QED BY <1>1, <3>1, <3>2
  <2>2. cut \in SUBSET (1..lastId)
    BY <1>1
  <2> QED BY <1>2, <2>1, <2>2
<1>6. waiting' \in Seq(Drained) /\ Len(waiting') = 0
  BY <1>2
<1>7. /\ run' \in 1..MaxRun /\ lastId' \in 0..MaxEvents /\ before' \in Nat /\ respawned' \in BOOLEAN
      /\ Len(waiting') <= RecentCap /\ Len(waiting') <= lastId'
  BY <1>1, <1>2, <1>6, Sizes DEF ProbeInv
<1>8. \A j \in 1..Len(waiting') : waiting'[j].id = Settled' + j
  BY <1>6
<1>9. cut' \in SUBSET (1..Settled')
  BY <1>3, <1>5
<1>10. ProbeInv'
  BY <1>6, <1>7, <1>8, <1>9 DEF ProbeInv
<1> QED
  BY <1>1, <1>3, <1>10

\* The next run of the probe begins with nothing.
LEMMA BegunProbe ==
    ASSUME ProbeInv, Respawn \/ Restart
    PROVE  ProbeInv' /\ run' = run + 1 /\ lane' = <<>> /\ ~followed' /\ (~respawned' <=> Restart)
<1>1. NewRun /\ ((Respawn /\ respawned' = TRUE) \/ (Restart /\ respawned' = FALSE))
  BY DEF Respawn, Restart
<1>2. /\ run < MaxRun /\ run' = run + 1 /\ lastId' = 0 /\ before' = before + lastId
      /\ waiting' = <<>> /\ cut' = {} /\ followed' = FALSE /\ lane' = <<>>
  BY <1>1 DEF NewRun, Begun
<1>3. run \in 1..MaxRun /\ lastId \in Nat /\ before \in Nat
  BY DEF ProbeInv
<1>4. Settled' = 0 /\ Len(waiting') = 0 /\ waiting' \in Seq(Drained)
  <2>1. Len(waiting') = 0 /\ waiting' \in Seq(Drained)
    BY <1>2
  <2>2. Settled' = lastId' - Len(waiting')
    BY DEF Settled
  <2>3. lastId' = 0
    BY <1>2
  <2> QED BY <2>1, <2>2, <2>3
<1>5. ~(Respawn /\ Restart)
  BY DEF Respawn, Restart
<1>6. ProbeInv'
  <2>1. run' \in 1..MaxRun /\ lastId' \in 0..MaxEvents /\ before' \in Nat
    BY <1>2, <1>3, Sizes
  <2>2. respawned' \in BOOLEAN
    BY <1>1
  <2>3. Len(waiting') <= RecentCap /\ Len(waiting') <= lastId'
    BY <1>2, <1>4, Sizes
  <2>4. \A j \in 1..Len(waiting') : waiting'[j].id = Settled' + j
    BY <1>4
  <2>5. cut' \in SUBSET (1..Settled')
    BY <1>2
  <2> QED BY <1>4, <2>1, <2>2, <2>3, <2>4, <2>5 DEF ProbeInv
<1> QED
  BY <1>1, <1>2, <1>5, <1>6

\* Every step keeps the probe's numbering.
LEMMA ProbeHolds ==
    ASSUME ProbeInv, [Next]_vars
    PROVE  ProbeInv'
<1>1. UNCHANGED ProbeVars \/ OnProbe
  BY StepsTouch DEF Touched
<1>2. CASE UNCHANGED ProbeVars
  BY <1>2 DEF ProbeInv, ProbeVars, Settled
<1> QED
  BY <1>1, <1>2, CompleteProbe, TickProbe, BegunProbe DEF OnProbe

-----------------------------------------------------------------------------
(* What a tick prints.                                                       *)

DrainedNow == LastN(waiting, DrainMax)

\* What a tick drains is the newest of what waits, at most DrainMax of it.
LEMMA DrainedFacts ==
    ASSUME ProbeInv
    PROVE  /\ DrainedNow \in Seq(Drained)
           /\ Len(DrainedNow) \in Nat /\ Len(DrainedNow) <= DrainMax
           /\ Len(DrainedNow) <= lastId - Settled
           /\ Len(DrainedNow) = (IF Len(waiting) <= DrainMax THEN Len(waiting) ELSE DrainMax)
           /\ \A j \in 1..Len(DrainedNow) :
                  DrainedNow[j].id = lastId - Len(DrainedNow) + j
<1>1. /\ lastId \in Nat /\ Len(waiting) \in Nat /\ Len(waiting) <= lastId
      /\ waiting \in Seq(Drained)
      /\ \A j \in 1..Len(waiting) : waiting[j].id = lastId - Len(waiting) + j
  BY DEF ProbeInv, Settled
<1>2. DrainMax \in Nat
  BY Sizes
<1> DEFINE d == DrainedNow
<1>3. /\ d \in Seq(Drained)
      /\ Len(d) = (IF Len(waiting) <= DrainMax THEN Len(waiting) ELSE DrainMax)
      /\ \A j \in 1..Len(d) : d[j] = waiting[Len(waiting) - Len(d) + j]
  <2>1. waiting \in Seq(Drained)
    BY <1>1
  <2> QED BY <1>2, <2>1, LastNFacts DEF DrainedNow
<1> HIDE DEF d
<1>4. Len(d) \in Nat /\ Len(d) <= DrainMax /\ Len(d) <= Len(waiting)
  BY <1>1, <1>2, <1>3
<1>5. ASSUME NEW j \in 1..Len(d) PROVE d[j].id = lastId - Len(d) + j
  <2> DEFINE i == Len(waiting) - Len(d) + j
  <2>1. i \in 1..Len(waiting)
    BY <1>1, <1>4
  <2>2. d[j] = waiting[i] /\ waiting[i].id = lastId - Len(waiting) + i
    BY <1>1, <1>3, <2>1
  <2>3. lastId - Len(waiting) + i = lastId - Len(d) + j
    BY <1>1, <1>4
  <2> HIDE DEF i
  <2> QED BY <2>2, <2>3
<1>6. lastId - Settled = Len(waiting)
  BY <1>1 DEF Settled
<1> QED
  BY <1>3, <1>4, <1>5, <1>6 DEF d

\* The rows that a tick makes of what it drained.
LEMMA RowsFacts ==
    ASSUME ProbeInv
    PROVE  /\ RowsOf(DrainedNow) \in Seq(Rows)
           /\ Len(RowsOf(DrainedNow)) = Len(DrainedNow)
           /\ \A j \in 1..Len(DrainedNow) :
                  /\ RowsOf(DrainedNow)[j].run = run
                  /\ RowsOf(DrainedNow)[j].id = lastId - Len(DrainedNow) + j
                  /\ RowsOf(DrainedNow)[j].failed = DrainedNow[j].failed
                  /\ RowsOf(DrainedNow)[j].cost = DrainedNow[j].cost
                  /\ RowsOf(DrainedNow)[j].nopv =
                         (DrainedNow[j].cost > 0 /\ j \notin Claimed(DrainedNow))
<1> DEFINE d == DrainedNow
           sent == Claimed(d)
           row(j) == [run |-> run, id |-> d[j].id, failed |-> d[j].failed, cost |-> d[j].cost,
                      nopv |-> d[j].cost > 0 /\ j \notin sent]
           rows == [j \in 1..Len(d) |-> row(j)]
<1>1. /\ d \in Seq(Drained) /\ Len(d) \in Nat
      /\ \A j \in 1..Len(d) : d[j].id = lastId - Len(d) + j
  BY DrainedFacts
<1>2. RowsOf(d) = rows
  BY DEF RowsOf
<1>3. run \in 1..MaxRun
  BY DEF ProbeInv
<1> HIDE DEF d, sent
<1>4. ASSUME NEW j \in 1..Len(d) PROVE row(j) \in Rows
  <2>1. d[j] \in Drained
    BY <1>1
  <2>2. (d[j].cost > 0 /\ j \notin sent) \in BOOLEAN
    OBVIOUS
  <2> QED BY <1>3, <2>1, <2>2 DEF Drained, Rows
<1>5. rows \in Seq(Rows) /\ Len(rows) = Len(d) /\ \A j \in 1..Len(d) : rows[j] = row(j)
  BY <1>1, <1>4
<1> HIDE DEF rows
<1>6. ASSUME NEW j \in 1..Len(d)
      PROVE  /\ rows[j].run = run
             /\ rows[j].id = lastId - Len(d) + j
             /\ rows[j].failed = d[j].failed
             /\ rows[j].cost = d[j].cost
             /\ rows[j].nopv = (d[j].cost > 0 /\ j \notin sent)
  <2>1. /\ row(j).run = run /\ row(j).id = d[j].id /\ row(j).failed = d[j].failed
        /\ row(j).cost = d[j].cost /\ row(j).nopv = (d[j].cost > 0 /\ j \notin sent)
    BY Zenon
  <2>2. rows[j] = row(j) /\ d[j].id = lastId - Len(d) + j
    BY <1>1, <1>5
  <2> HIDE DEF row
  <2> QED BY <2>1, <2>2, Zenon
<1> QED
  BY <1>2, <1>5, <1>6 DEF d, sent

\* The positions of the rows whose bodies are shipped.
Sent(rows) == {j \in 1..Len(rows) : rows[j].cost > 0 /\ ~rows[j].nopv}

\* The bodies are printed ahead of the snapshot, or there are none to print.
LEMMA ShippedFacts ==
    ASSUME NEW rows \in Seq(Rows), NEW f
    PROVE  \/ Shipped(rows) \o <<f>> = <<f>> /\ Sent(rows) = {}
           \/ \E p \in Bundles : /\ Shipped(rows) \o <<f>> = <<p, f>>
                                 /\ In(p.rows) = {rows[j] : j \in Sent(rows)}
<1> DEFINE sent == At(rows, Sent(rows))
           p == [t |-> "parts", rows |-> sent]
<1>0. Sent(rows) \in SUBSET (1..Len(rows))
  BY DEF Sent
<1>1. /\ sent \in Seq(Rows)
      /\ \A i \in 1..Len(sent) : \E j \in Sent(rows) : sent[i] = rows[j]
      /\ \A j \in Sent(rows) : \E i \in 1..Len(sent) : sent[i] = rows[j]
  BY <1>0, AtFacts
<1>2. Shipped(rows) = IF sent = <<>> THEN <<>> ELSE <<p>>
  BY DEF Shipped, Sent
<1> HIDE DEF sent
<1>3. p \in Bundles /\ p.rows = sent
  BY <1>1 DEF Bundles
<1>4. In(sent) = {rows[j] : j \in Sent(rows)}
  BY <1>1 DEF In
<1> HIDE DEF p
<1>5. <<>> \o <<f>> = <<f>> /\ <<p>> \o <<f>> = <<p, f>>
  <2> DEFINE S == {p, f}
  <2>1. <<>> \in Seq(S) /\ <<p>> \in Seq(S) /\ <<f>> \in Seq(S) /\ <<p, f>> \in Seq(S)
    OBVIOUS
  <2>11. p \in S /\ f \in S
    OBVIOUS
  <2>12. Len(<<p, f>>) = 2 /\ <<p, f>>[1] = p /\ <<p, f>>[2] = f /\ Len(<<p>>) = 1 /\ <<p>>[1] = p
    OBVIOUS
  <2> HIDE DEF S
  <2>2. Append(<<p>>, f) = <<p, f>>
    <3> DEFINE u == <<p>>
               v == Append(u, f)
               w == <<p, f>>
    <3>1. u \in Seq(S) /\ w \in Seq(S) /\ Len(w) = 2 /\ w[1] = p /\ w[2] = f /\ Len(u) = 1 /\ u[1] = p
      BY <2>1, <2>12
    <3> HIDE DEF u, w
    <3>2. v \in Seq(S) /\ Len(v) = 2 /\ v[1] = p /\ v[2] = f
      <4>1. /\ v \in Seq(S) /\ Len(v) = Len(u) + 1 /\ v[Len(u) + 1] = f
            /\ \A j \in 1..Len(u) : v[j] = u[j]
        <5>1. u \in Seq(S)
          BY <3>1
        <5> QED BY <2>11, <5>1, AppendFacts
      <4> HIDE DEF v
      <4> QED BY <3>1, <4>1
    <3> HIDE DEF v
    <3>3. \A j \in 1..2 : v[j] = w[j]
      BY <3>1, <3>2
    <3>4. v = w
      BY <3>1, <3>2, <3>3, SeqEqual
    <3> QED BY <3>4 DEF u, v, w
  <2>3. <<p>> \o <<f>> = Append(<<p>>, f)
    BY <2>1, AppendIsConcat
  <2> QED BY <2>1, <2>2, <2>3, ConcatEmptySeq
<1>6. CASE sent = <<>>
  <2>1. Sent(rows) = {}
    BY <1>1, <1>6
  <2> QED BY <1>2, <1>5, <1>6, <2>1
<1>7. CASE sent # <<>>
  BY <1>2, <1>3, <1>4, <1>5, <1>7
<1> QED
  BY <1>6, <1>7

\* A tick prints a snapshot of what it drained, and ahead of it the bodies it could afford.
Printed(f, room) ==
    /\ f = Frame(RowsOf(DrainedNow), room, lastId)
    /\ f \in Snapshots /\ f.run = run /\ f.upto = lastId
    /\ From(f) = lastId - Len(DrainedNow)
    /\ \/ lane' = <<f>> /\ Sent(RowsOf(DrainedNow)) = {}
       \/ \E p \in Bundles : /\ lane' = <<p, f>> /\ BodiesFor(p, f)
                             /\ In(p.rows) = {RowsOf(DrainedNow)[j] : j \in Sent(RowsOf(DrainedNow))}

\* Every tick prints so.
LEMMA TickPrints ==
    ASSUME ProbeInv, NEW room \in Rooms, Tick(room)
    PROVE  \E f \in Frames : Printed(f, room)
<1> DEFINE d == DrainedNow
           rows == RowsOf(d)
           kept == LastN(rows, room)
           f == Frame(rows, room, lastId)
<1>1. /\ rows \in Seq(Rows) /\ Len(rows) = Len(d) /\ Len(d) \in Nat /\ Len(d) <= DrainMax
      /\ Len(d) <= lastId - Settled
      /\ \A j \in 1..Len(d) : rows[j].run = run /\ rows[j].id = lastId - Len(d) + j
  BY DrainedFacts, RowsFacts
<1>2. /\ lastId \in Nat /\ run \in 1..MaxRun /\ Settled \in Nat /\ room \in Nat
  BY RowStreamAssumption DEF ProbeInv, Settled, RowStreamAssumption
<1>3. lane' = Shipped(rows) \o <<f>>
  BY DEF Tick, TickOutput, DrainedNow
<1> HIDE DEF rows, d
<1>4. /\ kept \in Seq(Rows)
      /\ Len(kept) = (IF Len(rows) <= room THEN Len(rows) ELSE room)
      /\ \A j \in 1..Len(kept) : kept[j] = rows[Len(rows) - Len(kept) + j]
  <2>1. rows \in Seq(Rows) /\ room \in Nat
    BY <1>1, <1>2
  <2> QED BY <2>1, LastNFacts
<1>5. /\ f.t = "snapshot" /\ f.rows = kept /\ f.recentDropped = Len(rows) - Len(kept)
      /\ f.run = run /\ f.upto = lastId
  BY DEF Frame
<1>6. f \in Frames
  <2>1. Len(rows) - Len(kept) \in Nat
    BY <1>1, <1>2, <1>4
  <2> QED BY <1>2, <1>4, <2>1 DEF Frame, Frames
<1> HIDE DEF f, kept
<1>7. From(f) = lastId - Len(d) /\ From(f) \in Nat
  <2>1. Len(kept) \in Nat /\ Len(rows) = Len(d) /\ Len(d) \in Nat
    BY <1>1, <1>4
  <2>2. From(f) = lastId - Len(kept) - (Len(rows) - Len(kept))
    BY <1>5 DEF From
  <2>3. Len(waiting) \in Nat /\ Len(d) <= lastId - Settled
    BY <1>1 DEF ProbeInv
  <2> QED BY <1>2, <2>1, <2>2, <2>3
<1>8. ASSUME NEW j \in 1..Len(kept) PROVE kept[j].id = lastId - Len(kept) + j /\ kept[j].run = run
  <2> DEFINE i == Len(rows) - Len(kept) + j
  <2>1. i \in 1..Len(d)
    BY <1>1, <1>2, <1>4
  <2>2. kept[j] = rows[i] /\ rows[i].id = lastId - Len(d) + i /\ rows[i].run = run
    BY <1>1, <1>4, <2>1
  <2>3. lastId - Len(d) + i = lastId - Len(kept) + j
    BY <1>1, <1>2, <1>4
  <2> HIDE DEF i
  <2> QED BY <2>2, <2>3
<1>9. Len(kept) <= DrainMax
  BY <1>1, <1>2, <1>4, Sizes
<1>10. f \in Snapshots
  BY <1>5, <1>6, <1>7, <1>8, <1>9 DEF Snapshots, FrameOK
<1>11. \A j \in Sent(rows) : rows[j].run = run /\ From(f) < rows[j].id /\ rows[j].id <= f.upto
  <2> TAKE j \in Sent(rows)
  <2>1. j \in 1..Len(d)
    BY <1>1 DEF Sent
  <2> QED BY <1>1, <1>2, <1>5, <1>7, <2>1
<1>12. ASSUME NEW p \in Bundles, In(p.rows) = {rows[j] : j \in Sent(rows)}
       PROVE  BodiesFor(p, f)
  BY <1>11, <1>12 DEF BodiesFor
<1>13. \/ lane' = <<f>> /\ Sent(rows) = {}
       \/ \E p \in Bundles : lane' = <<p, f>> /\ In(p.rows) = {rows[j] : j \in Sent(rows)}
  BY <1>1, <1>3, ShippedFacts
<1>14. f = Frame(rows, room, lastId)
  BY DEF f
<1>15. Printed(f, room)
  BY <1>5, <1>7, <1>10, <1>12, <1>13, <1>14 DEF Printed, rows, d
<1> QED
  BY <1>6, <1>15

-----------------------------------------------------------------------------
(* The lane, and what the server and the connection hold.                      *)

\* Within a run what is settled only grows.
LEMMA Within ==
    ASSUME ProbeInv, [Next]_vars
    PROVE  \/ run' = run /\ respawned' = respawned /\ Settled \in Nat /\ Settled' \in Nat /\ Settled <= Settled'
           \/ (Respawn \/ Restart) /\ run' = run + 1 /\ lane' = <<>> /\ ~followed' /\ (~respawned' <=> Restart)
<1>1. UNCHANGED ProbeVars \/ OnProbe
  BY StepsTouch DEF Touched
<1>2. Settled \in Nat /\ Settled' \in Nat
  <2>1. ProbeInv'
    BY ProbeHolds
  <2>2. lastId \in Nat /\ Len(waiting) \in Nat /\ Len(waiting) <= lastId
    BY DEF ProbeInv
  <2>3. lastId' \in Nat /\ Len(waiting') \in Nat /\ Len(waiting') <= lastId'
    BY <2>1 DEF ProbeInv
  <2>4. Settled = lastId - Len(waiting) /\ Settled' = lastId' - Len(waiting')
    BY DEF Settled
  <2> QED BY <2>2, <2>3, <2>4
<1>3. CASE UNCHANGED ProbeVars
  BY <1>2, <1>3 DEF ProbeVars, Settled
<1>4. ASSUME NEW x \in Exchanges, Complete(x)
      PROVE  run' = run /\ respawned' = respawned /\ Settled <= Settled'
  BY <1>4, CompleteProbe DEF Complete
<1>5. ASSUME NEW room \in Rooms, Tick(room)
      PROVE  run' = run /\ respawned' = respawned /\ Settled <= Settled'
  BY <1>5, TickProbe DEF Tick
<1>6. CASE Respawn \/ Restart
  BY <1>6, BegunProbe
<1> QED
  BY <1>1, <1>2, <1>3, <1>4, <1>5, <1>6 DEF OnProbe

\* One line and two lines on the lane.
LEMMA PairFacts ==
    ASSUME NEW p, NEW f
    PROVE  /\ <<p, f>> # <<>> /\ <<p, f>>[1] = p /\ <<p, f>>[2] = f /\ Tail(<<p, f>>) = <<f>>
           /\ Len(<<p, f>>) = 2
           /\ <<f>> # <<>> /\ <<f>>[1] = f /\ Tail(<<f>>) = <<>> /\ Len(<<f>>) = 1
OBVIOUS

\* A line is told by its t.
LEMMA KindsDiffer ==
    /\ \A p \in Bundles : p.t = "parts"
    /\ \A f \in Frames : f.t = "snapshot"
BY DEF Bundles, Frames

\* What is received is the bodies of the snapshot behind them, or the snapshot alone.
LEMMA Received ==
    ASSUME LaneInv
    PROVE  /\ ReceiveParts => \E f \in Frames :
                  /\ lane = <<lane[1], f>> /\ lane' = <<f>> /\ OnTheWay(f)
                  /\ lane[1] \in Bundles /\ BodiesFor(lane[1], f)
           /\ Broadcast => /\ lane = <<lane[1]>> /\ lane' = <<>> /\ OnTheWay(lane[1])
                           /\ lane[1] \in Frames /\ latest' = lane[1]
<1>1. ASSUME ReceiveParts
      PROVE  \E f \in Frames : /\ lane = <<lane[1], f>> /\ lane' = <<f>> /\ OnTheWay(f)
                               /\ lane[1] \in Bundles /\ BodiesFor(lane[1], f)
  <2>1. lane # <<>> /\ lane[1].t = "parts" /\ lane' = Tail(lane)
    BY <1>1 DEF ReceiveParts
  <2>2. ASSUME NEW f \in Frames, lane = <<f>> PROVE FALSE
    <3>1. lane[1] = f
      BY <2>2, PairFacts
    <3> QED BY <2>1, <3>1, KindsDiffer
  <2>3. PICK p \in Bundles, f \in Frames : lane = <<p, f>> /\ OnTheWay(f) /\ BodiesFor(p, f)
    BY <2>1, <2>2 DEF LaneInv
  <2>4. lane[1] = p /\ Tail(lane) = <<f>>
    BY <2>3, PairFacts
  <2> QED BY <2>1, <2>3, <2>4
<1>2. ASSUME Broadcast
      PROVE  /\ lane = <<lane[1]>> /\ lane' = <<>> /\ OnTheWay(lane[1])
             /\ lane[1] \in Frames /\ latest' = lane[1]
  <2>1. lane # <<>> /\ lane[1].t = "snapshot" /\ lane' = Tail(lane) /\ latest' = lane[1]
    BY <1>2 DEF Broadcast
  <2>2. ASSUME NEW p \in Bundles, NEW f \in Frames, lane = <<p, f>> PROVE FALSE
    <3>1. lane[1] = p
      BY <2>2, PairFacts
    <3> QED BY <2>1, <3>1, KindsDiffer
  <2>3. PICK f \in Frames : lane = <<f>> /\ OnTheWay(f)
    BY <2>1, <2>2 DEF LaneInv
  <2>4. lane[1] = f /\ Tail(lane) = <<>>
    BY <2>3, PairFacts
  <2> QED BY <2>1, <2>3, <2>4
<1> QED
  BY <1>1, <1>2

\* Every step keeps the lane in order.
LEMMA LaneHolds ==
    ASSUME ProbeInv, LaneInv, [Next]_vars
    PROVE  LaneInv'
<1>1. UNCHANGED LaneVars \/ OnLane
  BY StepsTouch DEF Touched
<1>2. CASE Respawn \/ Restart
  BY <1>2, BegunProbe DEF LaneInv
<1>3. ASSUME NEW room \in Rooms, Tick(room) PROVE LaneInv'
  <2>1. PICK f \in Frames : Printed(f, room)
    BY <1>3, TickPrints
  <2>2. run' = run /\ Settled' = lastId /\ lastId \in Nat
    BY <1>3, TickProbe DEF Tick, ProbeInv
  <2>3. f \in Snapshots /\ f.run = run' /\ f.upto <= Settled'
    BY <2>1, <2>2 DEF Printed
  <2>4. OnTheWay(f)'
    BY <2>3 DEF OnTheWay
  <2>5. ASSUME NEW p \in Bundles, BodiesFor(p, f) PROVE BodiesFor(p, f)'
    BY <2>2, <2>5 DEF BodiesFor
  <2>6. \/ lane' = <<f>>
        \/ \E p \in Bundles : lane' = <<p, f>> /\ BodiesFor(p, f)
    BY <2>1 DEF Printed
  <2> QED BY <2>4, <2>5, <2>6 DEF LaneInv
<1>4. CASE ~(Respawn \/ Restart)
  <2>1. run' = run /\ Settled \in Nat /\ Settled' \in Nat /\ Settled <= Settled'
    BY <1>4, Within
  <2>2. ASSUME NEW f \in Frames, OnTheWay(f) PROVE OnTheWay(f)'
    <3>1. f.upto \in Nat /\ f \in Snapshots /\ f.run = run' /\ f.upto <= Settled
      BY <2>1, <2>2 DEF OnTheWay, Frames
    <3>2. f.upto <= Settled'
      BY <2>1, <3>1
    <3> QED BY <3>1, <3>2 DEF OnTheWay
  <2>3. ASSUME NEW p \in Bundles, NEW f, BodiesFor(p, f) PROVE BodiesFor(p, f)'
    BY <2>1, <2>3 DEF BodiesFor
  <2>4. CASE UNCHANGED LaneVars
    <3>1. lane' = lane
      BY <2>4 DEF LaneVars
    <3> QED BY <2>2, <2>3, <3>1 DEF LaneInv
  <2>5. CASE ReceiveParts
    <3>1. PICK f \in Frames : lane' = <<f>> /\ OnTheWay(f)
      BY <2>5, Received
    <3> QED BY <2>2, <3>1 DEF LaneInv
  <2>6. CASE Broadcast
    BY <2>6, Received DEF LaneInv
  <2> QED BY <1>1, <1>3, <1>4, <2>4, <2>5, <2>6 DEF OnLane
<1> QED
  BY <1>2, <1>4

ServerInv ==
    /\ latest \in Snapshots \cup {Nothing}
    /\ store \in Stores
    /\ wire \in Seq(Snapshots) \cup {Nothing}

\* Every step keeps the server's snapshot, the store and the connection.
LEMMA ServerHolds ==
    ASSUME ProbeInv, LaneInv, ServerInv, [Next]_vars
    PROVE  ServerInv'
<1>1. UNCHANGED ServerVars \/ OnServer
  BY StepsTouch DEF Touched
<1>2. UNCHANGED PageVars \/ OnPage
  BY StepsTouch DEF Touched
<1>3. Broadcast => latest' \in Snapshots /\ latest' = lane[1]
  BY Received DEF OnTheWay
<1>4. latest' \in Snapshots \cup {Nothing}
  BY <1>1, <1>3 DEF ServerInv, ServerVars, OnServer, Restart, ReceiveParts
<1>5. store' \in Stores
  <2>1. CASE ReceiveParts
    <3>1. lane[1] \in Bundles
      BY <2>1, Received
    <3>2. lane[1].rows \in Seq(Rows) /\ store \in Stores
      BY <3>1 DEF Bundles, ServerInv
    <3> QED BY <2>1, <3>2, StoredFacts DEF ReceiveParts
  <2>2. CASE Restart
    <3>1. <<>> \in Seq(Held) /\ Len(<<>>) = 0
      OBVIOUS
    <3>2. <<>> \in Stores
      BY <3>1, Sizes DEF Stores
    <3> QED BY <2>2, <3>2 DEF Restart
  <2>3. CASE Broadcast
    BY <2>3 DEF Broadcast, ServerInv
  <2> QED BY <1>1, <2>1, <2>2, <2>3 DEF ServerInv, ServerVars, OnServer
<1>6. wire' \in Seq(Snapshots) \cup {Nothing}
  <2> HIDE DEF Snapshots
  <2>0. wire \in Seq(Snapshots) \cup {Nothing} /\ latest \in Snapshots \cup {Nothing}
    BY DEF ServerInv
  <2>1. CASE OpenPage \/ Disconnect
    BY <2>0, <2>1 DEF OpenPage, Disconnect
  <2>2. CASE Connect
    BY <2>0, <2>2 DEF Connect
  <2>3. CASE Broadcast
    <3>1. wire' = IF wire = Nothing THEN Nothing ELSE Append(wire, lane[1])
      BY <2>3 DEF Broadcast
    <3> QED BY <1>3, <2>0, <2>3, <3>1
  <2>4. CASE Apply
    BY <2>0, <2>4 DEF Apply
  <2>5. CASE UNCHANGED PageVars
    BY <2>0, <2>5 DEF PageVars
  <2> QED BY <1>2, <2>1, <2>2, <2>3, <2>4, <2>5 DEF OnPage
<1> QED
  BY <1>4, <1>5, <1>6 DEF ServerInv

-----------------------------------------------------------------------------
(* The page's log: its rows are numbered to the end, without a gap.            *)

LogInv ==
    /\ recent \in Seq(PageRows) /\ Len(recent) <= RecentMax
    /\ seqCounter \in Nat /\ droppedRows \in Nat /\ Len(recent) <= seqCounter
    /\ \A j \in 1..Len(recent) : recent[j].seq = seqCounter - Len(recent) + j

\* What a page is served with accounts for ids of one run, without a gap.
LEMMA BootFacts ==
    ASSUME ServerInv, latest # Nothing
    PROVE  /\ latest.rows \in Seq(Rows) /\ latest.recentDropped \in Nat /\ latest.upto \in Nat
           /\ Len(latest.rows) <= DrainMax /\ From(latest) \in Nat
           /\ \A j \in 1..Len(latest.rows) : /\ latest.rows[j].id = latest.upto - Len(latest.rows) + j
                                             /\ latest.rows[j].run = latest.run
<1>1. latest \in Snapshots
  BY DEF ServerInv
<1>2. latest \in Frames /\ FrameOK(latest)
  BY <1>1 DEF Snapshots
<1>3. latest.rows \in Seq(Rows) /\ latest.recentDropped \in Nat /\ latest.upto \in Nat
  BY <1>2 DEF Frames
<1> QED
  BY <1>2, <1>3 DEF FrameOK

\* What the page's log is after rows were taken in.
LEMMA IngestFacts ==
    ASSUME NEW kept \in Seq(PageRows), NEW rows \in Seq(Rows), seqCounter \in Nat,
           Len(kept) <= seqCounter,
           \A j \in 1..Len(kept) : kept[j].seq = seqCounter - Len(kept) + j
    PROVE  LET all == kept \o Numbered(rows, seqCounter)
               new == Ingested(kept, rows)
           IN /\ new \in Seq(PageRows) /\ Len(new) <= RecentMax
              /\ Len(new) \in Nat /\ Len(new) <= seqCounter + Len(rows)
              /\ Len(new) = (IF Len(kept) + Len(rows) <= RecentMax THEN Len(kept) + Len(rows)
                             ELSE RecentMax)
              /\ all \in Seq(PageRows) /\ Len(all) = Len(kept) + Len(rows)
              /\ \A j \in 1..Len(new) : new[j] = all[Len(all) - Len(new) + j]
              /\ \A j \in 1..Len(new) : new[j].seq = (seqCounter + Len(rows)) - Len(new) + j
              /\ \A j \in 1..Len(kept) : all[j] = kept[j]
              /\ \A j \in 1..Len(rows) :
                    /\ all[Len(kept) + j].id = rows[j].id
                    /\ all[Len(kept) + j].run = rows[j].run
<1> DEFINE num == Numbered(rows, seqCounter)
           all == kept \o num
           new == Ingested(kept, rows)
<1>1. \A j \in 1..Len(rows) :
          /\ num[j] \in PageRows /\ num[j].seq = seqCounter + j
          /\ num[j].id = rows[j].id /\ num[j].run = rows[j].run
  <2> TAKE j \in 1..Len(rows)
  <2> DEFINE r == [seq |-> seqCounter + j, run |-> rows[j].run, id |-> rows[j].id,
                   captured |-> rows[j].cost > 0]
  <2>1. num[j] = r
    BY DEF Numbered
  <2>2. rows[j] \in Rows
    OBVIOUS
  <2>3. r.seq = seqCounter + j /\ r.run = rows[j].run /\ r.id = rows[j].id
    OBVIOUS
  <2>4. r \in PageRows
    <3>1. (rows[j].cost > 0) \in BOOLEAN
      OBVIOUS
    <3>2. seqCounter + j \in Nat
      OBVIOUS
    <3> QED BY <2>2, <3>1, <3>2 DEF Rows, PageRows
  <2> HIDE DEF r
  <2> QED BY <2>1, <2>3, <2>4
<1>2. num \in Seq(PageRows) /\ Len(num) = Len(rows) /\ Len(rows) \in Nat /\ Len(kept) \in Nat
  BY <1>1 DEF Numbered
<1> HIDE DEF num
<1>3. /\ all \in Seq(PageRows) /\ Len(all) = Len(kept) + Len(rows)
      /\ \A j \in 1..(Len(kept) + Len(rows)) :
             all[j] = IF j <= Len(kept) THEN kept[j] ELSE num[j - Len(kept)]
  <2>1. num \in Seq(PageRows)
    BY <1>2
  <2>2. /\ all \in Seq(PageRows) /\ Len(all) = Len(kept) + Len(num)
        /\ \A j \in 1..(Len(kept) + Len(num)) :
             all[j] = IF j <= Len(kept) THEN kept[j] ELSE num[j - Len(kept)]
    BY <2>1, ConcatFacts
  <2> HIDE DEF all
  <2> QED BY <1>2, <2>2
<1>4. new = LastN(all, RecentMax)
  BY DEF Ingested, num
<1> HIDE DEF all
<1>5. /\ new \in Seq(PageRows)
      /\ Len(new) = (IF Len(all) <= RecentMax THEN Len(all) ELSE RecentMax)
      /\ \A j \in 1..Len(new) : new[j] = all[Len(all) - Len(new) + j]
  <2>1. all \in Seq(PageRows) /\ RecentMax \in Nat
    BY <1>3, Sizes
  <2> HIDE DEF new
  <2>2. /\ LastN(all, RecentMax) \in Seq(PageRows)
        /\ Len(LastN(all, RecentMax)) = (IF Len(all) <= RecentMax THEN Len(all) ELSE RecentMax)
        /\ \A j \in 1..Len(LastN(all, RecentMax)) :
               LastN(all, RecentMax)[j] = all[Len(all) - Len(LastN(all, RecentMax)) + j]
    BY <2>1, LastNFacts
  <2> QED BY <1>4, <2>2
<1> HIDE DEF new
<1>6. /\ \A j \in 1..Len(kept) : all[j] = kept[j]
      /\ \A j \in 1..Len(rows) : all[Len(kept) + j] = num[j]
  <2>1. \A j \in 1..Len(kept) : j \in 1..(Len(kept) + Len(rows)) /\ j <= Len(kept)
    BY <1>2
  <2>2. \A j \in 1..Len(rows) : /\ Len(kept) + j \in 1..(Len(kept) + Len(rows))
                                /\ ~(Len(kept) + j <= Len(kept))
                                /\ (Len(kept) + j) - Len(kept) = j
    BY <1>2
  <2> QED BY <1>3, <2>1, <2>2
<1>7. \A j \in 1..(Len(kept) + Len(rows)) : all[j].seq = seqCounter - Len(kept) + j
  <2> TAKE j \in 1..(Len(kept) + Len(rows))
  <2>1. CASE j <= Len(kept)
    <3>1. j \in 1..Len(kept)
      BY <1>2, <2>1
    <3> QED BY <1>6, <3>1
  <2>2. CASE ~(j <= Len(kept))
    <3> DEFINE i == j - Len(kept)
    <3>1. i \in 1..Len(rows) /\ j = Len(kept) + i
      BY <1>2, <2>2
    <3>2. all[j] = num[i] /\ num[i].seq = seqCounter + i
      BY <1>1, <1>6, <3>1
    <3>3. seqCounter + i = seqCounter - Len(kept) + j
      BY <1>2
    <3> HIDE DEF i
    <3> QED BY <3>2, <3>3
  <2> QED BY <2>1, <2>2
<1>8. \A j \in 1..Len(new) : new[j].seq = (seqCounter + Len(rows)) - Len(new) + j
  <2> TAKE j \in 1..Len(new)
  <2> DEFINE i == Len(all) - Len(new) + j
  <2>0. RecentMax \in Nat /\ Len(new) \in Nat
    BY <1>2, <1>3, <1>5, Sizes
  <2>1. i \in 1..(Len(kept) + Len(rows))
    BY <1>2, <1>3, <1>5, <2>0
  <2>2. new[j] = all[i] /\ all[i].seq = seqCounter - Len(kept) + i
    BY <1>5, <1>7, <2>1
  <2>3. seqCounter - Len(kept) + i = (seqCounter + Len(rows)) - Len(new) + j
    BY <1>2, <1>3, <2>0
  <2> HIDE DEF i
  <2> QED BY <2>2, <2>3
<1>9. /\ Len(new) <= RecentMax /\ Len(new) \in Nat /\ Len(new) <= seqCounter + Len(rows)
      /\ Len(new) = (IF Len(kept) + Len(rows) <= RecentMax THEN Len(kept) + Len(rows)
                             ELSE RecentMax)
  <2>1. RecentMax \in Nat
    BY Sizes
  <2> QED BY <1>2, <1>3, <1>5, <2>1
<1>10. \A j \in 1..Len(rows) : /\ all[Len(kept) + j].id = rows[j].id
                               /\ all[Len(kept) + j].run = rows[j].run
  BY <1>1, <1>6
<1>11. all = kept \o Numbered(rows, seqCounter) /\ new = Ingested(kept, rows)
  BY DEF all, num, new
<1> QED
  BY <1>3, <1>5, <1>6, <1>8, <1>9, <1>10, <1>11, Zenon

\* A page that was not opened yet has nothing.
Unopened == /\ wire = Nothing /\ ~followed
            /\ recent = <<>> /\ seqCounter = 0 /\ droppedRows = 0
            /\ shown = <<>> /\ streamHeld = <<>>
            /\ openSeq = Nothing /\ viewed = Nothing /\ bodyCache = <<>> /\ fetching = {}
PageInv == /\ pageRun \in (1..MaxRun) \cup {Nothing}
           /\ IF pageRun = Nothing THEN Unopened ELSE pageRun <= run

\* A run of the probe is not null.
LEMMA RunIsNot == \A r \in 1..MaxRun : r # Nothing
BY FramesAreNot, Sizes

\* A page that is not opened stays as it is.
LEMMA UnopenedHolds ==
    ASSUME pageRun = Nothing, Unopened, pageRun' = Nothing, ProbeInv, [Next]_vars
    PROVE  Unopened'
<1> USE DEF Unopened, probe, server, rowLog, stream, viewer, history, order
<1>1. ASSUME NEW x \in Exchanges, Complete(x) PROVE Unopened'
  BY <1>1 DEF Complete
<1>2. ASSUME NEW room \in Rooms, Tick(room) PROVE Unopened'
  BY <1>2 DEF Tick
<1>3. CASE ReceiveParts
  BY <1>3 DEF ReceiveParts
<1>4. CASE Broadcast
  BY <1>4 DEF Broadcast
<1>5. CASE Respawn
  BY <1>5 DEF Respawn, NewRun, Begun
<1>6. CASE Restart
  BY <1>6 DEF Restart, NewRun, Begun
<1>7. CASE OpenPage
  <2>1. pageRun' = run /\ run \in 1..MaxRun
    BY <1>7 DEF OpenPage, ProbeInv
  <2> QED BY <2>1, RunIsNot
<1>8. CASE Connect
  BY <1>8 DEF Connect
<1>9. CASE Disconnect
  BY <1>9 DEF Disconnect
<1>10. CASE ForgetRows
  BY <1>10 DEF ForgetRows
<1>11. CASE Apply
  BY <1>11 DEF Apply
<1>12. CASE Select
  BY <1>12 DEF Select
<1>13. CASE Resume
  BY <1>13 DEF Resume
<1>14. CASE ScrollAway
  BY <1>14 DEF ScrollAway
<1>15. CASE ScrollBack
  BY <1>15 DEF ScrollBack
<1>16. CASE CloseRow
  BY <1>16 DEF CloseRow
<1>17. Len(shown) = 0 /\ 1..Len(shown) = {}
  <2>1. Len(shown) = 0
    OBVIOUS
  <2> QED BY <2>1
<1>18. CASE UNCHANGED vars
  BY <1>18 DEF vars
<1> QED
  BY <1>1, <1>2, <1>3, <1>4, <1>5, <1>6, <1>7, <1>8, <1>9, <1>10, <1>11, <1>12, <1>13, <1>14,
     <1>15, <1>16, <1>17, <1>18, Zenon DEF Next

\* Every step keeps what is said of the page as a whole.
LEMMA PageHolds ==
    ASSUME PageInv, ProbeInv, [Next]_vars
    PROVE  PageInv'
<1>1. UNCHANGED PageVars \/ OnPage
  BY StepsTouch DEF Touched
<1>2. UNCHANGED pageRun \/ (pageRun = Nothing /\ pageRun' = run)
  BY <1>1 DEF PageVars, OnPage, OpenPage, Connect, Disconnect, Broadcast, Apply, history
<1>3. run \in 1..MaxRun /\ run' \in 1..MaxRun /\ run <= run'
  <2>1. run \in 1..MaxRun /\ run' \in 1..MaxRun
    BY ProbeHolds DEF ProbeInv
  <2>2. run' = run \/ run' = run + 1
    BY Within
  <2> QED BY <2>1, <2>2
<1>4. CASE pageRun' = Nothing
  <2>1. pageRun = Nothing
    BY <1>2, <1>3, <1>4, RunIsNot
  <2> QED BY <1>4, <2>1, UnopenedHolds DEF PageInv
<1>5. CASE pageRun' # Nothing
  <2>1. pageRun' \in 1..MaxRun /\ pageRun' <= run
    BY <1>2, <1>3, <1>5 DEF PageInv
  <2> QED BY <1>3, <1>5, <2>1 DEF PageInv
<1> QED
  BY <1>4, <1>5

-----------------------------------------------------------------------------
(* The page's log.                                                           *)

\* What opening a page does.
LEMMA OpenFacts ==
    ASSUME OpenPage, PageInv, ServerInv, ProbeInv
    PROVE  /\ Unopened /\ pageRun' = run /\ latest # Nothing
           /\ recent' = Ingested(<<>>, latest.rows) /\ seqCounter' = Len(latest.rows)
           /\ base' = From(latest) /\ followed' = (latest.run = run) /\ droppedRows' = 0
           /\ seqCounter = 0 /\ recent = <<>>
<1>1. pageRun = Nothing /\ pageRun' = run /\ latest # Nothing
  BY DEF OpenPage
<1>2. Unopened
  BY <1>1 DEF PageInv
<1>3. /\ recent' = Ingested(<<>>, latest.rows) /\ seqCounter' = Len(latest.rows)
      /\ base' = latest.upto - Len(latest.rows) - latest.recentDropped
      /\ followed' = (latest.run = run) /\ droppedRows' = droppedRows
  BY DEF OpenPage
<1> QED
  BY <1>1, <1>2, <1>3 DEF From, Unopened

\* What taking in a snapshot does.
LEMMA ApplyFacts ==
    ASSUME Apply, ServerInv, PageInv
    PROVE  /\ wire \in Seq(Snapshots) /\ wire # <<>> /\ wire # Nothing /\ pageRun # Nothing
           /\ wire[1] \in Snapshots /\ wire[1] \in Frames /\ FrameOK(wire[1])
           /\ recent' = Ingested(recent, wire[1].rows)
           /\ seqCounter' = seqCounter + Len(wire[1].rows)
           /\ droppedRows' = droppedRows + wire[1].recentDropped
           /\ wire' = Tail(wire)
           /\ wire[1].rows \in Seq(Rows) /\ wire[1].recentDropped \in Nat
           /\ wire[1].upto \in Nat /\ Len(wire[1].rows) \in Nat
           /\ Len(wire[1].rows) <= DrainMax
<1>1. wire \in Seq(Snapshots) /\ wire # <<>> /\ wire # Nothing /\ pageRun # Nothing
  BY DEF Apply, ServerInv, PageInv, Unopened
<1>2. Head(wire) = wire[1] /\ wire[1] \in Snapshots
  <2> HIDE DEF Snapshots
  <2> QED BY <1>1
<1>3. /\ recent' = Ingested(recent, Head(wire).rows)
      /\ seqCounter' = seqCounter + Len(Head(wire).rows)
      /\ droppedRows' = droppedRows + Head(wire).recentDropped
      /\ wire' = Tail(wire)
  BY DEF Apply, Counted
<1>4. wire[1] \in Frames /\ FrameOK(wire[1])
  BY <1>2 DEF Snapshots
<1>5. wire[1].rows \in Seq(Rows) /\ wire[1].recentDropped \in Nat /\ wire[1].upto \in Nat
  BY <1>4 DEF Frames
<1>6. Len(wire[1].rows) \in Nat /\ Len(wire[1].rows) <= DrainMax
  BY <1>4, <1>5 DEF FrameOK
<1> QED
  BY <1>1, <1>2, <1>3, <1>4, <1>5, <1>6

\* Every step keeps the log's numbering.
LEMMA LogHolds ==
    ASSUME LogInv, PageInv, ServerInv, ProbeInv, [Next]_vars
    PROVE  LogInv'
<1>1. UNCHANGED LogVars \/ OnLog
  BY StepsTouch DEF Touched
<1>2. CASE UNCHANGED LogVars
  BY <1>2 DEF LogInv, LogVars
<1>3. CASE OpenPage
  <2>1. recent' = Ingested(<<>>, latest.rows) /\ seqCounter' = Len(latest.rows) /\ droppedRows' = 0
        /\ seqCounter = 0 /\ latest # Nothing
    BY <1>3, OpenFacts
  <2>2. latest.rows \in Seq(Rows) /\ Len(latest.rows) \in Nat
    BY <2>1, BootFacts
  <2>3. /\ <<>> \in Seq(PageRows) /\ Len(<<>>) <= seqCounter /\ seqCounter \in Nat
        /\ \A j \in 1..Len(<<>>) : <<>>[j].seq = seqCounter - Len(<<>>) + j
    BY <2>1
  <2>4. /\ recent' \in Seq(PageRows) /\ Len(recent') <= RecentMax
        /\ Len(recent') <= seqCounter + Len(latest.rows)
        /\ \A j \in 1..Len(recent') : recent'[j].seq = (seqCounter + Len(latest.rows)) - Len(recent') + j
    BY <2>1, <2>2, <2>3, IngestFacts
  <2>5. seqCounter + Len(latest.rows) = seqCounter'
    BY <2>1, <2>2
  <2>6. seqCounter' \in Nat /\ droppedRows' \in Nat
    BY <2>1, <2>2
  <2>7. Len(recent') <= seqCounter'
    BY <2>4, <2>5
  <2>8. ASSUME NEW j \in 1..Len(recent') PROVE recent'[j].seq = seqCounter' - Len(recent') + j
    BY <2>4, <2>5, Zenon
  <2> QED BY <2>4, <2>6, <2>7, <2>8, Zenon DEF LogInv
<1>4. CASE Apply
  <2>1. /\ recent' = Ingested(recent, wire[1].rows)
        /\ seqCounter' = seqCounter + Len(wire[1].rows)
        /\ droppedRows' = droppedRows + wire[1].recentDropped
        /\ wire[1].rows \in Seq(Rows) /\ wire[1].recentDropped \in Nat
        /\ Len(wire[1].rows) \in Nat
    BY <1>4, ApplyFacts
  <2>2. /\ recent \in Seq(PageRows) /\ seqCounter \in Nat /\ Len(recent) <= seqCounter
        /\ droppedRows \in Nat
        /\ \A j \in 1..Len(recent) : recent[j].seq = seqCounter - Len(recent) + j
    BY DEF LogInv
  <2>3. /\ recent' \in Seq(PageRows) /\ Len(recent') <= RecentMax
        /\ Len(recent') <= seqCounter + Len(wire[1].rows)
        /\ \A j \in 1..Len(recent') :
              recent'[j].seq = (seqCounter + Len(wire[1].rows)) - Len(recent') + j
    BY <2>1, <2>2, IngestFacts
  <2>4. seqCounter' \in Nat /\ droppedRows' \in Nat
    BY <2>1, <2>2
  <2>5. Len(recent') <= seqCounter'
    BY <2>1, <2>3
  <2>6. ASSUME NEW j \in 1..Len(recent') PROVE recent'[j].seq = seqCounter' - Len(recent') + j
    BY <2>1, <2>3, Zenon
  <2> QED BY <2>3, <2>4, <2>5, <2>6, Zenon DEF LogInv
<1>5. CASE ForgetRows
  <2>1. recent' = <<>> /\ UNCHANGED <<seqCounter, droppedRows>>
    BY <1>5 DEF ForgetRows
  <2>2. <<>> \in Seq(PageRows) /\ Len(<<>>) = 0
    OBVIOUS
  <2>3. recent' \in Seq(PageRows) /\ Len(recent') = 0
    BY <2>1, <2>2
  <2> QED BY <2>1, <2>3, Sizes DEF LogInv
<1> QED
  BY <1>1, <1>2, <1>3, <1>4, <1>5 DEF OnLog

-----------------------------------------------------------------------------
(* The stream: what is on screen, and what is held back.                       *)

StreamInv ==
    /\ shown \in Seq(Nat) /\ Len(shown) <= StreamRows
    /\ streamHeld \in Seq(Nat) /\ Len(streamHeld) <= HeldMax
    /\ streamHeldLost \in Nat /\ heldFrom \in Nat
    /\ lastSeq = seqCounter
    /\ openSeq \in Nat \cup {Nothing}
    /\ openSeq # Nothing => openSeq \in In(shown)
    /\ streamHeld = <<>> => streamHeldLost = 0
    /\ (streamHeld # <<>> /\ ~overtaken) =>
          /\ \A j \in 1..Len(streamHeld) : streamHeld[j] = lastSeq - Len(streamHeld) + j
          /\ heldFrom + streamHeldLost + Len(streamHeld) = lastSeq

\* The numbers of the rows of a log.
LEMMA SeqsFacts ==
    ASSUME NEW rows \in Seq(PageRows)
    PROVE  Seqs(rows) \in Seq(Nat) /\ Len(Seqs(rows)) = Len(rows)
           /\ \A j \in 1..Len(rows) : Seqs(rows)[j] = rows[j].seq
<1>1. \A j \in 1..Len(rows) : rows[j] \in PageRows /\ rows[j].seq \in Nat
  <2>1. \A r \in PageRows : r.seq \in Nat
    BY DEF PageRows
  <2>2. \A j \in 1..Len(rows) : rows[j] \in PageRows
    BY ElementOfSeq
  <2> QED BY <2>1, <2>2
<1> QED
  BY <1>1 DEF Seqs

\* What is new in the log after a snapshot is the rows of the snapshot, all of them.
LEMMA FreshFacts ==
    ASSUME Apply, LogInv, LogInv', ServerInv, PageInv, lastSeq = seqCounter
    PROVE  LET fresh == Seqs(At(recent', {j \in 1..Len(recent') : recent'[j].seq > lastSeq}))
           IN /\ fresh \in Seq(Nat) /\ Len(fresh) = Len(wire[1].rows)
              /\ \A j \in 1..Len(fresh) : fresh[j] = seqCounter + j
              /\ seqCounter' = seqCounter + Len(fresh) /\ seqCounter \in Nat /\ Len(fresh) \in Nat
<1> DEFINE n == Len(wire[1].rows)
           new == recent'
           k == Len(new) - n
           J == {j \in 1..Len(new) : new[j].seq > lastSeq}
           fresh == Seqs(At(new, J))
<1>1. /\ new = Ingested(recent, wire[1].rows) /\ seqCounter' = seqCounter + n
      /\ wire[1].rows \in Seq(Rows) /\ n \in Nat /\ n <= DrainMax
  BY ApplyFacts
<1>2. /\ recent \in Seq(PageRows) /\ seqCounter \in Nat /\ Len(recent) <= seqCounter
      /\ \A j \in 1..Len(recent) : recent[j].seq = seqCounter - Len(recent) + j
  BY DEF LogInv
<1>3. Len(new) = IF Len(recent) + n <= RecentMax THEN Len(recent) + n ELSE RecentMax
  BY <1>1, <1>2, IngestFacts
<1>4. RecentMax \in Nat /\ DrainMax \in Nat /\ DrainMax <= RecentMax
  BY Sizes, RowStreamAssumption DEF RowStreamAssumption
<1>5. /\ new \in Seq(PageRows)
      /\ \A j \in 1..Len(new) : new[j].seq = seqCounter' - Len(new) + j
  BY DEF LogInv
<1> HIDE DEF n, new
<1>6. Len(new) \in Nat /\ k \in 0..Len(new) /\ Len(recent) \in Nat
  BY <1>1, <1>2, <1>3, <1>4, <1>5
<1>7. \A j \in 1..Len(new) : new[j].seq > lastSeq <=> j \in (k + 1)..Len(new)
  <2> TAKE j \in 1..Len(new)
  <2>1. new[j].seq = (seqCounter + n) - Len(new) + j
    BY <1>1, <1>5
  <2>2. (seqCounter + n) - Len(new) + j > seqCounter <=> j \in (k + 1)..Len(new)
    BY <1>1, <1>2, <1>6
  <2> QED BY <2>1, <2>2
<1>8. J = (k + 1)..Len(new)
  <2>1. \A j \in (k + 1)..Len(new) : j \in 1..Len(new)
    BY <1>6
  <2> QED BY <1>7, <2>1
<1> HIDE DEF J
<1>9. /\ At(new, J) \in Seq(PageRows) /\ Len(At(new, J)) = Len(new) - k
      /\ \A j \in 1..(Len(new) - k) : At(new, J)[j] = new[k + j]
  <2>1. new \in Seq(PageRows) /\ k \in 0..Len(new)
    BY <1>5, <1>6
  <2> HIDE DEF k
  <2> QED BY <1>8, <2>1, AtEnd
<1>10. Len(new) - k = n
  BY <1>1, <1>6
<1>11. fresh \in Seq(Nat) /\ Len(fresh) = n /\ \A j \in 1..n : fresh[j] = At(new, J)[j].seq
  <2>1. At(new, J) \in Seq(PageRows) /\ Len(At(new, J)) = n
    BY <1>9, <1>10
  <2> QED BY <2>1, SeqsFacts
<1> HIDE DEF fresh
<1>12. ASSUME NEW j \in 1..n PROVE fresh[j] = seqCounter + j
  <2>1. k + j \in 1..Len(new)
    BY <1>1, <1>6
  <2>2. fresh[j] = new[k + j].seq
    BY <1>9, <1>10, <1>11
  <2>3. new[k + j].seq = (seqCounter + n) - Len(new) + (k + j)
    BY <1>1, <1>5, <2>1
  <2>4. (seqCounter + n) - Len(new) + (k + j) = seqCounter + j
    BY <1>1, <1>2, <1>6
  <2> QED BY <2>2, <2>3, <2>4
<1>13. fresh = Seqs(At(recent', {j \in 1..Len(recent') : recent'[j].seq > lastSeq}))
  BY DEF fresh, J, new
<1>14. /\ fresh \in Seq(Nat) /\ Len(fresh) = Len(wire[1].rows)
       /\ \A j \in 1..Len(fresh) : fresh[j] = seqCounter + j
       /\ seqCounter' = seqCounter + Len(fresh) /\ seqCounter \in Nat /\ Len(fresh) \in Nat
  BY <1>1, <1>2, <1>11, <1>12 DEF n
<1> QED
  BY <1>13, <1>14, Zenon

\* What is held back while somebody reads is the end of the log, and what did not fit is
\* counted.
LEMMA HoldFacts ==
    ASSUME StreamInv, NEW fresh \in Seq(Nat), fresh # <<>>, Len(fresh) \in Nat,
           \A j \in 1..Len(fresh) : fresh[j] = lastSeq + j,
           seqCounter \in Nat, lastSeq' = lastSeq + Len(fresh),
           Hold(fresh), heldFrom' = (IF streamHeld = <<>> THEN lastSeq ELSE heldFrom),
           overtaken' = overtaken
    PROVE  /\ streamHeld' \in Seq(Nat) /\ Len(streamHeld') <= HeldMax
           /\ streamHeldLost' \in Nat /\ heldFrom' \in Nat
           /\ streamHeld' # <<>>
           /\ ~overtaken' =>
                 /\ \A j \in 1..Len(streamHeld') : streamHeld'[j] = lastSeq' - Len(streamHeld') + j
                 /\ heldFrom' + streamHeldLost' + Len(streamHeld') = lastSeq'
<1> DEFINE all == streamHeld \o fresh
           new == LastN(all, HeldMax)
           m == Len(streamHeld)
           n == Len(fresh)
<1>1. /\ streamHeld \in Seq(Nat) /\ m \in Nat /\ streamHeldLost \in Nat /\ heldFrom \in Nat
      /\ lastSeq \in Nat /\ HeldMax \in Nat /\ HeldMax > 0 /\ n \in Nat /\ n > 0
  BY Sizes, EmptySeq DEF StreamInv
<1>2. streamHeld' = new /\ streamHeldLost' = streamHeldLost + (Len(all) - Len(new))
  BY DEF Hold
<1>3. /\ all \in Seq(Nat) /\ Len(all) = m + n
      /\ \A j \in 1..(m + n) : all[j] = IF j <= m THEN streamHeld[j] ELSE fresh[j - m]
  <2>1. streamHeld \in Seq(Nat) /\ fresh \in Seq(Nat)
    BY <1>1
  <2> QED BY <2>1, ConcatFacts
<1> HIDE DEF all
<1>4. /\ new \in Seq(Nat)
      /\ Len(new) = (IF Len(all) <= HeldMax THEN Len(all) ELSE HeldMax)
      /\ \A j \in 1..Len(new) : new[j] = all[Len(all) - Len(new) + j]
  <2>1. all \in Seq(Nat) /\ HeldMax \in Nat
    BY <1>1, <1>3
  <2> QED BY <2>1, LastNFacts
<1> HIDE DEF new, m, n
<1>5. Len(new) \in Nat /\ Len(new) <= Len(all) /\ Len(new) <= HeldMax /\ Len(new) > 0
  BY <1>1, <1>3, <1>4
<1>6. streamHeldLost' \in Nat /\ heldFrom' \in Nat
  BY <1>1, <1>2, <1>3, <1>5
<1>7. new # <<>>
  BY <1>4, <1>5
<1>8. ASSUME ~overtaken'
      PROVE  /\ \A j \in 1..Len(new) : new[j] = lastSeq' - Len(new) + j
             /\ heldFrom' + streamHeldLost' + Len(new) = lastSeq'
  <2>1. streamHeld # <<>> => /\ \A j \in 1..m : streamHeld[j] = lastSeq - m + j
                             /\ heldFrom + streamHeldLost + m = lastSeq
    BY <1>8 DEF StreamInv, m
  <2>2. streamHeld = <<>> => m = 0 /\ streamHeldLost = 0
    BY DEF StreamInv, m
  <2>3. \A j \in 1..m : streamHeld[j] = lastSeq - m + j
    BY <2>1, <2>2
  <2>4. heldFrom' + streamHeldLost + m = lastSeq
    BY <1>1, <2>1, <2>2
  <2>5. \A j \in 1..(m + n) : all[j] = lastSeq - m + j
    <3> TAKE j \in 1..(m + n)
    <3>1. CASE j <= m
      <4>1. j \in 1..m
        BY <1>1, <3>1
      <4> QED BY <1>3, <2>3, <3>1, <4>1
    <3>2. CASE ~(j <= m)
      <4> DEFINE i == j - m
      <4>1. i \in 1..Len(fresh)
        BY <1>1, <3>2 DEF n
      <4>2. all[j] = fresh[i] /\ fresh[i] = lastSeq + i
        BY <1>3, <3>2, <4>1
      <4>3. lastSeq + i = lastSeq - m + j
        BY <1>1
      <4> HIDE DEF i
      <4> QED BY <4>2, <4>3
    <3> QED BY <3>1, <3>2
  <2>6. lastSeq' = lastSeq + n
    BY DEF n
  <2>7. ASSUME NEW j \in 1..Len(new) PROVE new[j] = lastSeq' - Len(new) + j
    <3> DEFINE i == Len(all) - Len(new) + j
    <3>1. i \in 1..(m + n)
      BY <1>1, <1>3, <1>5
    <3>2. new[j] = all[i] /\ all[i] = lastSeq - m + i
      BY <1>4, <2>5, <3>1
    <3>3. lastSeq - m + i = lastSeq' - Len(new) + j
      <4> DEFINE k == Len(new)
                 a == lastSeq
      <4>1. i = (m + n) - k + j /\ k \in Nat /\ m \in Nat /\ n \in Nat /\ a \in Nat /\ lastSeq' = a + n
        BY <1>1, <1>3, <1>5, <2>6
      <4> HIDE DEF k, i, a
      <4>2. a - m + i = (a + n) - k + j
        BY <4>1
      <4> QED BY <4>1, <4>2 DEF a, k
    <3> HIDE DEF i
    <3> QED BY <3>2, <3>3
  <2>8. heldFrom' + streamHeldLost' + Len(new) = lastSeq'
    <3>1. streamHeldLost' = streamHeldLost + ((m + n) - Len(new))
      BY <1>2, <1>3
    <3> DEFINE k == Len(new)
               a == lastSeq
               b == streamHeldLost
               h == heldFrom'
    <3>2. /\ k \in Nat /\ m \in Nat /\ n \in Nat /\ a \in Nat /\ b \in Nat /\ h \in Nat
          /\ h + b + m = a /\ lastSeq' = a + n
      BY <1>1, <1>5, <1>6, <2>4, <2>6
    <3> HIDE DEF k, a, b, h
    <3>3. h + (b + ((m + n) - k)) + k = a + n
      BY <3>2
    <3> QED BY <3>1, <3>2, <3>3 DEF k, a, b, h
  <2> QED BY <2>7, <2>8
<1> QED
  BY <1>2, <1>4, <1>5, <1>6, <1>7, <1>8

\* The newest rows of the log, from the top.
Newest == FirstN(Reverse(Seqs(recent)), StreamRows)

\* A stream is cut at its bottom.
LEMMA FirstRows ==
    ASSUME NEW s \in Seq(Nat)
    PROVE  /\ FirstN(s, StreamRows) \in Seq(Nat)
           /\ Len(FirstN(s, StreamRows)) <= StreamRows
<1>1. StreamRows \in Nat
  BY Sizes
<1>2. /\ FirstN(s, StreamRows) \in Seq(Nat)
      /\ Len(FirstN(s, StreamRows)) = (IF Len(s) <= StreamRows THEN Len(s) ELSE StreamRows)
  BY <1>1, FirstNFacts
<1> QED
  BY <1>1, <1>2

\* A stream that is rendered anew is within its bound.
LEMMA NewestFacts ==
    ASSUME NEW rows \in Seq(PageRows)
    PROVE  /\ FirstN(Reverse(Seqs(rows)), StreamRows) \in Seq(Nat)
           /\ Len(FirstN(Reverse(Seqs(rows)), StreamRows)) <= StreamRows
<1>1. Seqs(rows) \in Seq(Nat)
  BY SeqsFacts
<1>2. Reverse(Seqs(rows)) \in Seq(Nat)
  BY <1>1, ReverseFacts
<1> QED
  BY <1>2, FirstRows

\* So is one that got rows on top.
LEMMA PrependFacts ==
    ASSUME NEW rows \in Seq(Nat), shown \in Seq(Nat)
    PROVE  Prepended(rows) \in Seq(Nat) /\ Len(Prepended(rows)) <= StreamRows
<1>1. rows \o shown \in Seq(Nat)
  BY ConcatFacts
<1> QED
  BY <1>1, FirstRows DEF Prepended

\* A stream that is rendered anew: nothing is open, nothing is held back.
Rendered == /\ shown' \in Seq(Nat) /\ Len(shown') <= StreamRows
            /\ streamHeld' = <<>> /\ streamHeldLost' = 0 /\ heldFrom' \in Nat
            /\ lastSeq' = seqCounter' /\ openSeq' = Nothing

\* A stream that is rendered anew is as it must be.
LEMMA RenderedStream ==
    ASSUME Rendered
    PROVE  StreamInv'
<1>1. <<>> \in Seq(Nat) /\ Len(<<>>) = 0
  OBVIOUS
<1>2. streamHeld' \in Seq(Nat) /\ Len(streamHeld') = 0
  BY <1>1 DEF Rendered
<1>3. Len(streamHeld') <= HeldMax
  BY <1>2, Sizes
<1>4. streamHeldLost' \in Nat /\ openSeq' \in Nat \cup {Nothing}
  BY DEF Rendered
<1> QED
  BY <1>2, <1>3, <1>4 DEF StreamInv, Rendered

\* So is one that is resumed.
LEMMA ResumedStream ==
    ASSUME StreamInv, Resumed, UNCHANGED seqCounter
    PROVE  StreamInv'
<1>1. Prepended(streamHeld) \in Seq(Nat) /\ Len(Prepended(streamHeld)) <= StreamRows
  BY PrependFacts DEF StreamInv
<1>2. /\ shown' = Prepended(streamHeld) /\ streamHeld' = <<>> /\ streamHeldLost' = 0
      /\ heldFrom' = 0 /\ lastSeq' = lastSeq /\ openSeq' = Nothing
  BY DEF Resumed
<1>3. lastSeq = seqCounter
  BY DEF StreamInv
<1>4. Rendered
  BY <1>1, <1>2, <1>3 DEF Rendered
<1> QED
  BY <1>4, RenderedStream

\* So is one that took in a snapshot, or held it back.
LEMMA ApplyStream ==
    ASSUME StreamInv, Apply, LogInv, LogInv', ServerInv, PageInv
    PROVE  StreamInv'
<1> DEFINE fresh == Seqs(At(recent', {j \in 1..Len(recent') : recent'[j].seq > lastSeq}))
<1>0. lastSeq = seqCounter
  BY DEF StreamInv
<1>1. /\ fresh \in Seq(Nat) /\ Len(fresh) = Len(wire[1].rows)
      /\ \A j \in 1..Len(fresh) : fresh[j] = seqCounter + j
      /\ seqCounter' = seqCounter + Len(fresh) /\ seqCounter \in Nat /\ Len(fresh) \in Nat
  BY <1>0, FreshFacts, Zenon
<1>2. IF fresh = <<>> THEN UNCHANGED <<stream, order>>
      ELSE /\ lastSeq' = seqCounter'
           /\ UNCHANGED atTop
           /\ IF Paused
              THEN /\ Hold(fresh)
                   /\ heldFrom' = IF streamHeld = <<>> THEN lastSeq ELSE heldFrom
                   /\ UNCHANGED <<shown, overtaken>>
              ELSE /\ shown' = Prepended(fresh)
                   /\ overtaken' = (overtaken \/ streamHeld # <<>>)
                   /\ UNCHANGED <<streamHeld, streamHeldLost, heldFrom>>
  BY Zenon DEF Apply, Refresh
<1>3. openSeq' = openSeq
  BY DEF Apply, viewer
<1> HIDE DEF fresh
<1>4. CASE fresh = <<>>
  <2>1. UNCHANGED <<shown, streamHeld, streamHeldLost, lastSeq, heldFrom, overtaken>>
    BY <1>2, <1>4 DEF stream, order
  <2>2. seqCounter' = seqCounter
    <3>1. Len(fresh) = 0
      BY <1>4
    <3> QED BY <1>1, <3>1
  <2> QED BY <1>3, <2>1, <2>2 DEF StreamInv
<1>5. CASE fresh # <<>> /\ Paused
  <2>1. /\ lastSeq' = seqCounter' /\ Hold(fresh)
        /\ heldFrom' = (IF streamHeld = <<>> THEN lastSeq ELSE heldFrom)
        /\ shown' = shown /\ overtaken' = overtaken
    BY <1>2, <1>5
  <2>2. \A j \in 1..Len(fresh) : fresh[j] = lastSeq + j
    BY <1>0, <1>1
  <2>3. lastSeq' = lastSeq + Len(fresh)
    BY <1>0, <1>1, <2>1
  <2>4. /\ streamHeld' \in Seq(Nat) /\ Len(streamHeld') <= HeldMax
        /\ streamHeldLost' \in Nat /\ heldFrom' \in Nat
        /\ streamHeld' # <<>>
        /\ ~overtaken' =>
              /\ \A j \in 1..Len(streamHeld') : streamHeld'[j] = lastSeq' - Len(streamHeld') + j
              /\ heldFrom' + streamHeldLost' + Len(streamHeld') = lastSeq'
    BY <1>1, <1>5, <2>1, <2>2, <2>3, HoldFacts
  <2>5. /\ shown \in Seq(Nat) /\ Len(shown) <= StreamRows
        /\ openSeq \in Nat \cup {Nothing} /\ (openSeq # Nothing => openSeq \in In(shown))
    BY DEF StreamInv
  <2> QED BY <1>3, <2>1, <2>4, <2>5 DEF StreamInv, In
<1>6. CASE fresh # <<>> /\ ~Paused
  <2>1. /\ lastSeq' = seqCounter'
        /\ shown' = Prepended(fresh)
        /\ overtaken' = (overtaken \/ streamHeld # <<>>)
        /\ UNCHANGED <<streamHeld, streamHeldLost, heldFrom>>
    BY <1>2, <1>6
  <2>2. Prepended(fresh) \in Seq(Nat) /\ Len(Prepended(fresh)) <= StreamRows
    BY <1>1, PrependFacts DEF StreamInv
  <2>3. openSeq' = Nothing
    BY <1>3, <1>6 DEF Paused
  <2>4. ~(streamHeld' # <<>> /\ ~overtaken')
    BY <2>1
  <2>5. /\ streamHeld' \in Seq(Nat) /\ Len(streamHeld') <= HeldMax
        /\ streamHeldLost' \in Nat /\ heldFrom' \in Nat
        /\ (streamHeld' = <<>> => streamHeldLost' = 0)
    BY <2>1 DEF StreamInv
  <2> QED BY <2>1, <2>2, <2>3, <2>4, <2>5 DEF StreamInv
<1> QED
  BY <1>4, <1>5, <1>6

\* Every step keeps the stream as it must be.
LEMMA StreamHolds ==
    ASSUME StreamInv, LogInv, PageInv, ServerInv, ProbeInv, [Next]_vars
    PROVE  StreamInv'
<1>0. LogInv'
  BY LogHolds
<1>1. /\ UNCHANGED StreamVars \/ OnStream
      /\ UNCHANGED LogVars \/ OnLog
      /\ UNCHANGED ViewVars \/ OnView
  BY StepsTouch DEF Touched
<1>2. CASE Apply
  BY <1>0, <1>2, ApplyStream
<1>3. CASE OpenPage
  <2>1. Unopened /\ seqCounter' = Len(latest.rows)
    BY <1>3, OpenFacts
  <2>2. /\ shown' = FirstN(Reverse(Seqs(recent')), StreamRows) /\ lastSeq' = seqCounter'
        /\ UNCHANGED <<streamHeld, streamHeldLost, openSeq, heldFrom>>
    BY <1>3 DEF OpenPage, viewer, order
  <2>3. recent' \in Seq(PageRows)
    BY <1>0 DEF LogInv
  <2>4. /\ FirstN(Reverse(Seqs(recent')), StreamRows) \in Seq(Nat)
        /\ Len(FirstN(Reverse(Seqs(recent')), StreamRows)) <= StreamRows
    BY <2>3, NewestFacts
  <2>5. streamHeld = <<>> /\ openSeq = Nothing /\ heldFrom \in Nat /\ streamHeldLost = 0
    BY <2>1 DEF Unopened, StreamInv
  <2>6. Rendered
    BY <2>2, <2>4, <2>5 DEF Rendered
  <2> QED BY <2>6, RenderedStream
<1>4. CASE Select
  <2>1. /\ shown' = FirstN(Reverse(Seqs(recent)), StreamRows) /\ lastSeq' = seqCounter
        /\ seqCounter' = seqCounter
        /\ streamHeld' = <<>> /\ streamHeldLost' = 0 /\ openSeq' = Nothing /\ heldFrom' = 0
    BY <1>4 DEF Select, rowLog
  <2>2. recent \in Seq(PageRows)
    BY DEF LogInv
  <2>3. /\ FirstN(Reverse(Seqs(recent)), StreamRows) \in Seq(Nat)
        /\ Len(FirstN(Reverse(Seqs(recent)), StreamRows)) <= StreamRows
    BY <2>2, NewestFacts
  <2>4. Rendered
    BY <2>1, <2>3 DEF Rendered
  <2> QED BY <2>4, RenderedStream
<1>5. CASE Resume
  BY <1>5, ResumedStream DEF Resume, rowLog
<1>6. CASE ScrollAway \/ ScrollBack
  <2>1. UNCHANGED <<shown, streamHeld, streamHeldLost, lastSeq, openSeq, heldFrom, overtaken, seqCounter>>
    BY <1>6 DEF ScrollAway, ScrollBack, viewer, order, rowLog
  <2> QED BY <2>1 DEF StreamInv
<1>7. CASE CloseRow
  <2>1. seqCounter' = seqCounter
    BY <1>7 DEF CloseRow, rowLog
  <2>2. CASE Resumed
    BY <2>1, <2>2, ResumedStream
  <2>3. CASE openSeq' = Nothing /\ UNCHANGED <<stream, order>>
    <3>1. UNCHANGED <<shown, streamHeld, streamHeldLost, lastSeq, heldFrom, overtaken>>
      BY <2>3 DEF stream, order
    <3> QED BY <2>1, <2>3, <3>1 DEF StreamInv
  <2> QED BY <1>7, <2>2, <2>3 DEF CloseRow
<1>8. ASSUME NEW j \in 1..Len(shown), ClickForgotten(shown[j])
      PROVE  StreamInv'
  <2>1. /\ openSeq' = Nothing
        /\ UNCHANGED <<shown, streamHeld, streamHeldLost, lastSeq, heldFrom, overtaken, seqCounter>>
    BY <1>8 DEF ClickForgotten, stream, order, rowLog
  <2> QED BY <2>1 DEF StreamInv
<1>9. ASSUME NEW j \in 1..Len(shown), OpenRow(shown[j])
      PROVE  StreamInv'
  <2>1. /\ openSeq' = shown[j]
        /\ UNCHANGED <<shown, streamHeld, streamHeldLost, lastSeq, heldFrom, overtaken, seqCounter>>
    BY <1>9 DEF OpenRow, stream, order, rowLog
  <2>2. shown[j] \in Nat /\ shown[j] \in In(shown)
    <3>1. shown \in Seq(Nat)
      BY DEF StreamInv
    <3> QED BY <3>1, ElementOfSeq DEF In
  <2> QED BY <2>1, <2>2 DEF StreamInv
<1>10. ASSUME NEW f \in fetching, AnswerFetch(f) \/ TakeAnswer(f) \/ FailFetch(f)
       PROVE  StreamInv'
  <2>1. UNCHANGED <<shown, streamHeld, streamHeldLost, lastSeq, openSeq, heldFrom, overtaken, seqCounter>>
    BY <1>10 DEF AnswerFetch, TakeAnswer, FailFetch, stream, order, rowLog
  <2> QED BY <2>1 DEF StreamInv
<1>11. CASE ForgetRows
  <2>1. UNCHANGED <<shown, streamHeld, streamHeldLost, lastSeq, openSeq, heldFrom, overtaken, seqCounter>>
    BY <1>11 DEF ForgetRows, stream, order, viewer
  <2> QED BY <2>1 DEF StreamInv
<1>12. CASE UNCHANGED StreamVars /\ UNCHANGED LogVars /\ UNCHANGED ViewVars
  <2>1. UNCHANGED <<shown, streamHeld, streamHeldLost, lastSeq, openSeq, heldFrom, overtaken, seqCounter>>
    BY <1>12 DEF StreamVars, LogVars, ViewVars, stream, order, viewer
  <2> QED BY <2>1 DEF StreamInv
<1> QED
  BY <1>1, <1>2, <1>3, <1>4, <1>5, <1>6, <1>7, <1>8, <1>9, <1>10, <1>11, <1>12
     DEF OnStream, OnView, OnLog

-----------------------------------------------------------------------------
(* The viewer: the cache, the fetches under way, and what is shown.            *)

Entries == [id : 1..MaxEvents, body : Bodies]
Fetches == [row : PageRows, answered : BOOLEAN, body : Bodies]
ViewInv ==
    /\ bodyCache \in Seq(Entries) /\ Len(bodyCache) <= CacheMax
    /\ fetching \subseteq Fetches
    /\ viewed \in Views \cup {Nothing}
    /\ viewed # Nothing => openSeq = viewed.seq

\* What is fetched is in the cache, and the rest of the cache was there before.
LEMMA CacheFacts ==
    ASSUME bodyCache \in Seq(Entries), Len(bodyCache) <= CacheMax,
           NEW i \in 1..MaxEvents, NEW b \in Bodies
    PROVE  /\ CacheWith(i, b) \in Seq(Entries) /\ Len(CacheWith(i, b)) <= CacheMax
           /\ In(CacheWith(i, b)) \subseteq In(bodyCache) \cup {[id |-> i, body |-> b]}
<1> DEFINE e == [id |-> i, body |-> b]
<1>1. e \in Entries
  BY DEF Entries
<1> HIDE DEF e
<1>2. CASE Cached(i)
  <2> DEFINE new == [j \in 1..Len(bodyCache) |-> IF bodyCache[j].id = i THEN e ELSE bodyCache[j]]
  <2>1. CacheWith(i, b) = new
    BY <1>2 DEF CacheWith, e
  <2>2. \A j \in 1..Len(bodyCache) : new[j] \in Entries /\ (new[j] = e \/ new[j] = bodyCache[j])
    BY <1>1
  <2>3. new \in Seq(Entries) /\ Len(new) = Len(bodyCache)
    BY <2>2
  <2> HIDE DEF new
  <2>4. In(new) \subseteq In(bodyCache) \cup {e}
    BY <2>2, <2>3 DEF In
  <2> QED BY <2>1, <2>3, <2>4 DEF e
<1>3. CASE ~Cached(i)
  <2> DEFINE all == Append(bodyCache, e)
             new == LastN(all, CacheMax)
  <2>1. CacheWith(i, b) = new
    BY <1>3 DEF CacheWith, e
  <2>2. /\ all \in Seq(Entries) /\ Len(all) = Len(bodyCache) + 1
        /\ \A j \in 1..Len(bodyCache) : all[j] = bodyCache[j]
        /\ all[Len(bodyCache) + 1] = e
    BY <1>1, AppendFacts
  <2> HIDE DEF all
  <2>3. CacheMax \in Nat /\ Len(bodyCache) \in Nat
    BY Sizes
  <2>4. /\ new \in Seq(Entries)
        /\ Len(new) = (IF Len(all) <= CacheMax THEN Len(all) ELSE CacheMax)
        /\ \A j \in 1..Len(new) : new[j] = all[Len(all) - Len(new) + j]
    <3>1. all \in Seq(Entries) /\ CacheMax \in Nat
      BY <2>2, <2>3
    <3> QED BY <3>1, LastNFacts
  <2> HIDE DEF new
  <2>5. ASSUME NEW j \in 1..Len(new) PROVE new[j] \in In(bodyCache) \cup {e}
    <3> DEFINE k == Len(all) - Len(new) + j
    <3>1. k \in 1..Len(bodyCache) \/ k = Len(bodyCache) + 1
      <4>1. k \in 1..Len(all)
        BY <2>2, <2>3, <2>4
      <4> HIDE DEF k
      <4> QED BY <2>2, <2>3, <4>1
    <3>2. new[j] = all[k]
      BY <2>4
    <3> HIDE DEF k
    <3> QED BY <2>2, <3>1, <3>2 DEF In
  <2>6. Len(new) <= CacheMax
    BY <2>2, <2>3, <2>4
  <2>7. In(new) \subseteq In(bodyCache) \cup {e}
    BY <2>5 DEF In
  <2> QED BY <2>1, <2>4, <2>6, <2>7 DEF e
<1> QED
  BY <1>2, <1>3

\* A body that is found in the cache is that of an entry.
LEMMA CachedFacts ==
    ASSUME NEW i, Cached(i)
    PROVE  \E c \in In(bodyCache) : c.id = i /\ CachedBody(i) = c.body
<1>1. \E j \in 1..Len(bodyCache) : bodyCache[j].id = i
  BY DEF Cached
<1> DEFINE j == CHOOSE j \in 1..Len(bodyCache) : bodyCache[j].id = i
<1>2. j \in 1..Len(bodyCache) /\ bodyCache[j].id = i
  BY <1>1
<1>3. CachedBody(i) = bodyCache[j].body
  BY DEF CachedBody
<1> HIDE DEF j
<1> QED
  BY <1>2, <1>3 DEF In

\* What a row that is opened shows or waits for.
LEMMA OpenedFacts ==
    ASSUME NEW s, OpenRow(s), recent \in Seq(PageRows), bodyCache \in Seq(Entries)
    PROVE  \E row \in In(recent) :
              /\ row \in PageRows /\ openSeq' = s /\ row.seq = s
              /\ \/ viewed' = Nothing /\ fetching' = fetching
                 \/ /\ fetching' = fetching
                    /\ \E c \in In(bodyCache) : c.id = row.id /\ viewed' = Showing(row, c.body)
                 \/ /\ viewed' = Nothing
                    /\ fetching' = fetching \cup {[row |-> row, answered |-> FALSE, body |-> Nothing]}
<1>1. PICK j \in 1..Len(recent) :
         LET row == recent[j]
         IN /\ row.seq = s
            /\ openSeq' = s
            /\ IF ~row.captured
               THEN viewed' = Nothing /\ UNCHANGED fetching
               ELSE IF Cached(row.id)
               THEN viewed' = Showing(row, CachedBody(row.id)) /\ UNCHANGED fetching
               ELSE /\ Cardinality(fetching) < MaxFetches
                    /\ viewed' = Nothing
                    /\ fetching' = fetching \cup {[row |-> row, answered |-> FALSE,
                                                   body |-> Nothing]}
  BY DEF OpenRow
<1> DEFINE row == recent[j]
<1>2. row \in PageRows /\ row \in In(recent)
  BY ElementOfSeq DEF In
<1>3. row.seq = s /\ openSeq' = s
  BY <1>1
<1>4. \/ viewed' = Nothing /\ fetching' = fetching
      \/ Cached(row.id) /\ viewed' = Showing(row, CachedBody(row.id)) /\ fetching' = fetching
      \/ /\ viewed' = Nothing
         /\ fetching' = fetching \cup {[row |-> row, answered |-> FALSE, body |-> Nothing]}
  BY <1>1, Zenon
<1> HIDE DEF row
<1>5. ASSUME Cached(row.id), viewed' = Showing(row, CachedBody(row.id))
      PROVE  \E c \in In(bodyCache) : c.id = row.id /\ viewed' = Showing(row, c.body)
  <2>1. PICK c \in In(bodyCache) : c.id = row.id /\ CachedBody(row.id) = c.body
    BY <1>5, CachedFacts
  <2> QED BY <1>5, <2>1
<1> QED
  BY <1>2, <1>3, <1>4, <1>5, Zenon

\* What the server answers: the body that it holds under the id, if it holds one.
LEMMA AnswerFacts ==
    ASSUME NEW f \in fetching, fetching \subseteq Fetches, AnswerFetch(f), store \in Stores
    PROVE  \E b \in Bodies :
              /\ fetching' = (fetching \ {f}) \cup {[row |-> f.row, answered |-> TRUE, body |-> b]}
              /\ b = Nothing => \A c \in In(store) : c.id # f.row.id
              /\ b # Nothing => \E c \in In(store) : c.run = b
<1> DEFINE held == {j \in 1..Len(store) : store[j].id = f.row.id}
           b == IF held = {} THEN Nothing ELSE store[CHOOSE j \in held : TRUE].run
<1>1. fetching' = (fetching \ {f}) \cup {[row |-> f.row, answered |-> TRUE, body |-> b]}
  BY Zenon DEF AnswerFetch
<1>2. CASE held = {}
  <2>1. b = Nothing
    BY <1>2
  <2>2. \A c \in In(store) : c.id # f.row.id
    BY <1>2 DEF In
  <2>3. b \in Bodies
    BY <2>1 DEF Bodies
  <2> HIDE DEF held, b
  <2> QED BY <1>1, <2>1, <2>2, <2>3
<1>3. CASE held # {}
  <2> DEFINE j == CHOOSE j \in held : TRUE
  <2>1. j \in held
    BY <1>3
  <2>2. j \in 1..Len(store) /\ b = store[j].run
    BY <1>3, <2>1
  <2> HIDE DEF held, b, j
  <2>3. store[j] \in Held /\ store[j] \in In(store)
    <3>1. store \in Seq(Held)
      BY DEF Stores
    <3> QED BY <2>2, <3>1, ElementOfSeq DEF In
  <2>4. b \in 1..MaxRun
    BY <2>2, <2>3 DEF Held
  <2>5. b # Nothing /\ b \in Bodies
    BY <2>4, RunIsNot DEF Bodies
  <2> QED BY <1>1, <2>2, <2>3, <2>5
<1> QED
  BY <1>2, <1>3

\* What the viewer shows of a row.
LEMMA ShowingFacts ==
    ASSUME NEW row \in PageRows, NEW b \in Bodies
    PROVE  /\ Showing(row, b) \in Views /\ Showing(row, b).seq = row.seq
           /\ Showing(row, b).run = row.run /\ Showing(row, b).body = b
           /\ Showing(row, b) # Nothing
<1>1. Showing(row, b) \in Views
  BY DEF Showing, Views, PageRows
<1> QED
  BY <1>1, FramesAreNot DEF Showing

\* Every step keeps the types of the viewer.
LEMMA ViewHolds ==
    ASSUME ViewInv, LogInv, PageInv, ServerInv, ProbeInv, [Next]_vars
    PROVE  ViewInv'
<1>0. UNCHANGED ViewVars \/ OnView
  BY StepsTouch DEF Touched
<1> DEFINE Cleared == openSeq' = Nothing /\ viewed' = Nothing /\ UNCHANGED <<bodyCache, fetching>>
<1>1. ASSUME Cleared PROVE ViewInv'
  BY <1>1 DEF ViewInv
<1>2. CASE Select \/ Resume
  BY <1>1, <1>2 DEF Select, Resume, Resumed
<1>3. CASE CloseRow
  BY <1>1, <1>3 DEF CloseRow, Resumed
<1>4. ASSUME NEW j \in 1..Len(shown), ClickForgotten(shown[j]) PROVE ViewInv'
  BY <1>1, <1>4 DEF ClickForgotten
<1>5. ASSUME NEW j \in 1..Len(shown), OpenRow(shown[j]) PROVE ViewInv'
  <2> DEFINE s == shown[j]
  <2> HIDE DEF s
  <2>1. bodyCache \in Seq(Entries) /\ recent \in Seq(PageRows) /\ bodyCache' = bodyCache
    BY <1>5 DEF ViewInv, LogInv, OpenRow
  <2>2. PICK row \in In(recent) :
              /\ row \in PageRows /\ openSeq' = s /\ row.seq = s
              /\ \/ viewed' = Nothing /\ fetching' = fetching
                 \/ /\ fetching' = fetching
                    /\ \E c \in In(bodyCache) : c.id = row.id /\ viewed' = Showing(row, c.body)
                 \/ /\ viewed' = Nothing
                    /\ fetching' = fetching \cup {[row |-> row, answered |-> FALSE, body |-> Nothing]}
    BY <1>5, <2>1, OpenedFacts DEF s
  <2>3. fetching' \subseteq Fetches
    <3>1. [row |-> row, answered |-> FALSE, body |-> Nothing] \in Fetches
      BY <2>2 DEF Fetches, Bodies
    <3> QED BY <2>2, <3>1 DEF ViewInv
  <2>4. /\ viewed' \in Views \cup {Nothing}
        /\ viewed' # Nothing => openSeq' = viewed'.seq
    <3>1. ASSUME NEW c \in In(bodyCache), viewed' = Showing(row, c.body)
          PROVE  viewed' \in Views /\ openSeq' = viewed'.seq
      <4>1. c \in Entries
        BY <2>1, ElementOfSeq DEF In
      <4>2. c.body \in Bodies
        BY <4>1 DEF Entries
      <4> QED BY <2>2, <3>1, <4>2, ShowingFacts
    <3> QED BY <2>2, <3>1
  <2> QED BY <2>1, <2>3, <2>4 DEF ViewInv
<1>6. ASSUME NEW f \in fetching, AnswerFetch(f) PROVE ViewInv'
  <2>1. UNCHANGED <<openSeq, bodyCache, viewed>> /\ f \in Fetches /\ fetching \subseteq Fetches
    BY <1>6 DEF AnswerFetch, ViewInv
  <2>2. PICK b \in Bodies :
            fetching' = (fetching \ {f}) \cup {[row |-> f.row, answered |-> TRUE, body |-> b]}
    BY <1>6, <2>1, AnswerFacts DEF ServerInv
  <2>3. [row |-> f.row, answered |-> TRUE, body |-> b] \in Fetches
    BY <2>1 DEF Fetches
  <2> QED BY <2>1, <2>2, <2>3 DEF ViewInv
<1>7. ASSUME NEW f \in fetching, TakeAnswer(f) PROVE ViewInv'
  <2>1. /\ f \in Fetches /\ fetching' = fetching \ {f} /\ bodyCache' = CacheWith(f.row.id, f.body)
        /\ viewed' = (IF openSeq = f.row.seq THEN Showing(f.row, f.body) ELSE viewed)
        /\ openSeq' = openSeq
    BY <1>7 DEF TakeAnswer, ViewInv
  <2>2. f.row \in PageRows /\ f.body \in Bodies
    BY <2>1 DEF Fetches
  <2>3. f.row.id \in 1..MaxEvents
    BY <2>2 DEF PageRows
  <2>4. bodyCache' \in Seq(Entries) /\ Len(bodyCache') <= CacheMax
    BY <2>1, <2>2, <2>3, CacheFacts DEF ViewInv
  <2>5. viewed' \in Views \cup {Nothing} /\ (viewed' # Nothing => openSeq' = viewed'.seq)
    BY <2>1, <2>2, ShowingFacts DEF ViewInv
  <2>6. fetching' \subseteq Fetches
    BY <2>1 DEF ViewInv
  <2> QED BY <2>4, <2>5, <2>6 DEF ViewInv
<1>8. ASSUME NEW f \in fetching, FailFetch(f) PROVE ViewInv'
  <2>1. fetching' = fetching \ {f} /\ UNCHANGED <<openSeq, bodyCache, viewed>>
    BY <1>8 DEF FailFetch
  <2> QED BY <2>1 DEF ViewInv
<1>9. CASE UNCHANGED ViewVars
  BY <1>9 DEF ViewVars, viewer, ViewInv
<1> QED
  BY <1>0, <1>2, <1>3, <1>4, <1>5, <1>6, <1>7, <1>8, <1>9 DEF OnView

-----------------------------------------------------------------------------
Types == ProbeInv /\ LaneInv /\ ServerInv /\ PageInv /\ LogInv /\ StreamInv /\ ViewInv

\* The elements of a sequence, as the community modules write them.
LEMMA InSet ==
    ASSUME NEW S, NEW s \in Seq(S)
    PROVE  ToSet(s) = In(s)
BY DEF ToSet, In

\* The invariant holds at first,
LEMMA TypesInit ==
    ASSUME Init
    PROVE  Types
<1> USE DEF Init
<1>1. \A S : <<>> \in Seq(S)
  BY EmptySeq
<1>2. Len(<<>>) = 0
  BY EmptySeq
<1>3. ProbeInv
  <2>1. waiting = <<>> /\ lastId = 0 /\ run = 1 /\ before = 0 /\ respawned = FALSE /\ cut = {}
    OBVIOUS
  <2>11. waiting \in Seq(Drained) /\ Len(waiting) = 0
    BY <1>1, <1>2, <2>1
  <2>2. waiting \in Seq(Drained) /\ Len(waiting) = 0 /\ Settled = 0
    <3>1. Settled = lastId - Len(waiting)
      BY DEF Settled
    <3>2. lastId = 0
      OBVIOUS
    <3> QED BY <2>11, <3>1, <3>2
  <2>3. run \in 1..MaxRun /\ lastId \in 0..MaxEvents /\ Len(waiting) <= RecentCap
    BY <2>1, <2>2, Sizes
  <2>4. \A j \in 1..Len(waiting) : waiting[j].id = Settled + j
    BY <2>2
  <2>5. Len(waiting) <= lastId /\ cut \in SUBSET (1..Settled) /\ before \in Nat
    BY <2>1, <2>2
  <2>6. respawned \in BOOLEAN
    OBVIOUS
  <2> QED BY <2>2, <2>3, <2>4, <2>5, <2>6 DEF ProbeInv
<1>4. LaneInv
  BY DEF LaneInv
<1>5. ServerInv
  <2>1. store \in Seq(Held) /\ Len(store) <= MaxHeld
    BY <1>1, <1>2, Sizes
  <2> QED BY <2>1 DEF ServerInv, Stores
<1>6. PageInv
  BY DEF PageInv, Unopened
<1>7. LogInv
  <2>1. recent \in Seq(PageRows) /\ Len(recent) = 0
    BY <1>1, <1>2
  <2>2. seqCounter = 0 /\ droppedRows = 0
    OBVIOUS
  <2> QED BY <2>1, <2>2, Sizes DEF LogInv
<1>8. StreamInv
  <2>1. /\ shown \in Seq(Nat) /\ Len(shown) = 0 /\ streamHeld \in Seq(Nat) /\ Len(streamHeld) = 0
    BY <1>1, <1>2
  <2>2. streamHeldLost = 0 /\ heldFrom = 0 /\ lastSeq = seqCounter /\ openSeq = Nothing
        /\ streamHeld = <<>>
    OBVIOUS
  <2> QED BY <2>1, <2>2, Sizes DEF StreamInv
<1>9. ViewInv
  <2>1. bodyCache \in Seq(Entries) /\ Len(bodyCache) = 0
    BY <1>1, <1>2
  <2> QED BY <2>1, Sizes DEF ViewInv
<1> QED
  BY <1>3, <1>4, <1>5, <1>6, <1>7, <1>8, <1>9 DEF Types

\* every step keeps it,
LEMMA TypesStep ==
    ASSUME Types, [Next]_vars
    PROVE  Types'
BY ProbeHolds, LaneHolds, ServerHolds, PageHolds, LogHolds, StreamHolds, ViewHolds DEF Types

\* and so it always holds.
LEMMA TypesAlways == Spec => []Types
<1>1. Init => Types
  BY TypesInit
<1>2. Types /\ [Next]_vars => Types'
  BY TypesStep
<1> QED
  BY <1>1, <1>2, PTL DEF Spec

\* It says all that the two properties below ask for.
LEMMA TypesGive ==
    ASSUME Types
    PROVE  TypeOK /\ HeldIsAccounted
<1>1. latest \in Frames \cup {Nothing} /\ (wire # Nothing => wire \in Seq(Frames))
  <2>1. latest \in Snapshots \cup {Nothing} /\ wire \in Seq(Snapshots) \cup {Nothing}
    BY DEF Types, ServerInv
  <2>2. Snapshots \subseteq Frames
    BY DEF Snapshots
  <2>3. wire # Nothing => wire \in Seq(Snapshots)
    BY <2>1
  <2> QED BY <2>1, <2>2, <2>3, FramesAreNot
<1>2. store \in Seq([id : 1..MaxEvents, run : 1..MaxRun]) /\ Len(store) <= MaxHeld
  BY DEF Types, ServerInv, Stores, Held
<1>3. bodyCache \in Seq([id : 1..MaxEvents, body : Bodies]) /\ Len(bodyCache) <= CacheMax
  BY DEF Types, ViewInv, Entries
<1>4. TypeOK
  BY <1>1, <1>2, <1>3 DEF Types, LogInv, StreamInv, ViewInv, TypeOK
<1>5. ToSet(shown) = In(shown)
  BY InSet DEF Types, StreamInv
<1>6. HeldIsAccounted
  BY <1>5 DEF Types, StreamInv, HeldIsAccounted
<1> QED
  BY <1>4, <1>6

\* All is of its type, and what the store and the page keep stays within its bounds.
THEOREM RowStreamTypes == Spec => []TypeOK
BY TypesAlways, TypesGive, PTL

\* What is held back from a reader is accounted for, and the open row stays on screen.
THEOREM HeldAccounted == Spec => []HeldIsAccounted
BY TypesAlways, TypesGive, PTL

-----------------------------------------------------------------------------
(* What the page may know of.                                                 *)

\* The bodies that still have to come have ids above this one, and all that the page can
\* know of has an id up to it.
Bound == IF Len(lane) = 2 THEN From(lane[2]) ELSE Settled

\* A snapshot on the lane is of the run, and accounts for what is settled.
LEMMA OnTheWayFacts ==
    ASSUME NEW f \in Frames, OnTheWay(f)
    PROVE  /\ From(f) \in Nat /\ f.upto \in Nat /\ From(f) <= f.upto /\ f.upto <= Settled
           /\ f \in Snapshots /\ f.run = run
<1>1. f \in Snapshots /\ f.run = run /\ f.upto <= Settled /\ From(f) \in Nat
  BY DEF OnTheWay, Snapshots, FrameOK
<1>2. f.rows \in Seq(Rows) /\ f.recentDropped \in Nat /\ f.upto \in Nat
  BY DEF Frames
<1>3. Len(f.rows) \in Nat
  BY <1>2, LenProperties
<1>4. From(f) = f.upto - Len(f.rows) - f.recentDropped
  BY DEF From
<1>5. From(f) <= f.upto
  BY <1>2, <1>3, <1>4
<1> QED
  BY <1>1, <1>2, <1>5

\* The bound by what is on the lane.
LEMMA BoundOf ==
    ASSUME NEW p, NEW f
    PROVE  /\ lane = <<>> => Bound = Settled
           /\ lane = <<f>> => Bound = Settled
           /\ lane = <<p, f>> => Bound = From(f)
<1>1. Len(<<>>) = 0 /\ Len(<<f>>) = 1 /\ Len(<<p, f>>) = 2 /\ <<p, f>>[2] = f
  BY EmptySeq, PairFacts
<1> QED
  BY <1>1 DEF Bound

\* Nothing beyond what is settled can be known.
LEMMA BoundFacts ==
    ASSUME ProbeInv, LaneInv
    PROVE  Bound \in Nat /\ Bound <= Settled /\ Settled \in Nat
<1>1. Settled \in Nat
  <2>1. lastId \in Nat /\ Len(waiting) \in Nat /\ Len(waiting) <= lastId
    BY DEF ProbeInv
  <2> QED BY <2>1 DEF Settled
<1>2. CASE lane = <<>>
  BY <1>1, <1>2, BoundOf
<1>3. ASSUME NEW f \in Frames, lane = <<f>> PROVE Bound = Settled
  BY <1>3, BoundOf
<1>4. ASSUME NEW p \in Bundles, NEW f \in Frames, lane = <<p, f>>, OnTheWay(f)
      PROVE  Bound \in Nat /\ Bound <= Settled
  <2>1. Bound = From(f)
    BY <1>4, BoundOf
  <2>2. From(f) \in Nat /\ f.upto \in Nat /\ From(f) <= f.upto /\ f.upto <= Settled
    BY <1>4, OnTheWayFacts
  <2> QED BY <1>1, <2>1, <2>2
<1> QED
  BY <1>1, <1>2, <1>3, <1>4 DEF LaneInv

\* Within a run the bound only grows; a snapshot that arrives stays within it, and bodies
\* that arrive are beyond it.
LEMMA BoundSteps ==
    ASSUME ProbeInv, LaneInv, [Next]_vars, ~(Respawn \/ Restart)
    PROVE  /\ Bound \in Nat /\ Bound' \in Nat /\ Bound <= Bound'
           /\ Broadcast => latest' \in Snapshots /\ latest'.run = run /\ latest'.upto <= Bound'
                           /\ latest' = lane[1]
           /\ ReceiveParts => /\ lane[1].rows \in Seq(Rows)
                              /\ \A r \in In(lane[1].rows) : r.run = run /\ Bound < r.id
<1>1. LaneInv' /\ ProbeInv'
  BY LaneHolds, ProbeHolds
<1>2. run' = run /\ Settled \in Nat /\ Settled' \in Nat /\ Settled <= Settled'
  BY Within
<1>3. Bound \in Nat /\ Bound <= Settled
  BY BoundFacts
<1>4. Bound' \in Nat
  <2>2. CASE lane' = <<>>
    <3>1. Len(lane') = 0
      BY <2>2, EmptySeq
    <3> QED BY <1>2, <3>1 DEF Bound
  <2>3. ASSUME NEW f \in Frames, lane' = <<f>> PROVE Bound' \in Nat
    <3>1. Len(lane') = 1
      BY <2>3, PairFacts
    <3> QED BY <1>2, <3>1 DEF Bound
  <2>4. ASSUME NEW p \in Bundles, NEW f \in Frames, lane' = <<p, f>>, OnTheWay(f)'
        PROVE  Bound' \in Nat
    <3>1. Len(lane') = 2 /\ lane'[2] = f
      BY <2>4, PairFacts
    <3>2. f \in Snapshots
      BY <2>4 DEF OnTheWay
    <3> QED BY <3>1, <3>2 DEF Bound, Snapshots, FrameOK, From
  <2> QED BY <1>1, <2>2, <2>3, <2>4 DEF LaneInv
<1>5. UNCHANGED LaneVars \/ OnLane
  BY StepsTouch DEF Touched
<1>6. CASE UNCHANGED LaneVars
  <2>1. lane' = lane
    BY <1>6 DEF LaneVars
  <2>2. Bound <= Bound'
    <3>1. CASE Len(lane) = 2
      <4>1. Bound' = Bound
        BY <2>1, <3>1 DEF Bound, From
      <4> QED BY <1>3, <4>1
    <3>2. CASE Len(lane) # 2
      <4>1. Bound' = Settled' /\ Bound = Settled
        BY <2>1, <3>2 DEF Bound
      <4> QED BY <1>2, <4>1
    <3> QED BY <3>1, <3>2
  <2>3. ~Broadcast /\ ~ReceiveParts
    <3>1. ASSUME Broadcast PROVE FALSE
      <4>1. lane = <<lane[1]>> /\ lane' = <<>>
        BY <3>1, Received
      <4> QED BY <2>1, <4>1, PairFacts
    <3>2. ASSUME ReceiveParts PROVE FALSE
      <4>1. PICK f \in Frames : lane = <<lane[1], f>> /\ lane' = <<f>>
        BY <3>2, Received
      <4>2. Len(<<lane[1], f>>) = 2 /\ Len(<<f>>) = 1
        BY PairFacts
      <4> QED BY <2>1, <4>1, <4>2
    <3> QED BY <3>1, <3>2
  <2> QED BY <1>3, <1>4, <2>2, <2>3
<1>7. ASSUME NEW room \in Rooms, Tick(room)
      PROVE  Bound <= Bound' /\ ~Broadcast /\ ~ReceiveParts
  <2>1. lane = <<>> /\ Bound = Settled
    BY <1>7, BoundOf DEF Tick
  <2>2. PICK f \in Frames : Printed(f, room)
    BY <1>7, TickPrints
  <2>3. /\ From(f) = lastId - Len(DrainedNow)
        /\ lane' = <<f>> \/ \E p \in Bundles : lane' = <<p, f>>
    BY <2>2 DEF Printed
  <2>4. Settled <= From(f)
    <3>1. Len(DrainedNow) \in Nat /\ Len(DrainedNow) <= lastId - Settled /\ lastId \in Nat
      BY DrainedFacts DEF ProbeInv
    <3> QED BY <1>2, <2>3, <3>1
  <2>5. Bound' = Settled' \/ Bound' = From(f)
    <3>1. CASE lane' = <<f>>
      <4>1. Len(lane') = 1
        BY <3>1, PairFacts
      <4> QED BY <4>1 DEF Bound
    <3>2. ASSUME NEW p, lane' = <<p, f>> PROVE Bound' = From(f)
      <4>1. Len(lane') = 2 /\ lane'[2] = f
        BY <3>2, PairFacts
      <4> QED BY <4>1 DEF Bound, From
    <3> QED BY <2>3, <3>1, <3>2
  <2>6. Bound <= Bound'
    BY <1>2, <2>1, <2>4, <2>5
  <2>7. ~Broadcast /\ ~ReceiveParts
    BY <2>1 DEF Broadcast, ReceiveParts
  <2> QED BY <2>6, <2>7
<1>8. CASE ReceiveParts
  <2>1. PICK f \in Frames :
            /\ lane = <<lane[1], f>> /\ lane' = <<f>> /\ OnTheWay(f)
            /\ lane[1] \in Bundles /\ BodiesFor(lane[1], f)
    BY <1>8, Received
  <2>2. Bound = From(f)
    BY <2>1, BoundOf
  <2>3. Bound' = Settled'
    <3>1. Len(lane') = 1
      BY <2>1, PairFacts
    <3> QED BY <3>1 DEF Bound
  <2>4. lane[1].rows \in Seq(Rows)
    BY <2>1 DEF Bundles
  <2>5. \A r \in In(lane[1].rows) : r.run = run /\ Bound < r.id
    BY <2>1, <2>2 DEF BodiesFor
  <2>6. ~Broadcast
    <3>1. lane[1].t = "parts"
      BY <1>8 DEF ReceiveParts
    <3> QED BY <3>1 DEF Broadcast
  <2> QED BY <1>2, <1>3, <1>4, <2>3, <2>4, <2>5, <2>6
<1>9. CASE Broadcast
  <2>1. /\ lane = <<lane[1]>> /\ lane' = <<>> /\ OnTheWay(lane[1])
        /\ lane[1] \in Frames /\ latest' = lane[1]
    BY <1>9, Received
  <2>2. Bound = Settled
    BY <2>1, BoundOf
  <2>3. Bound' = Settled'
    <3>1. Len(lane') = 0
      BY <2>1, EmptySeq
    <3> QED BY <3>1 DEF Bound
  <2>4. lane[1].upto \in Nat /\ lane[1].upto <= Settled /\ lane[1].run = run
        /\ lane[1] \in Snapshots
    BY <2>1, OnTheWayFacts
  <2>5. lane[1].upto <= Bound'
    BY <1>2, <2>3, <2>4
  <2>6. ~ReceiveParts
    <3>1. lane[1].t = "snapshot"
      BY <1>9 DEF Broadcast
    <3> QED BY <3>1 DEF ReceiveParts
  <2> QED BY <1>2, <1>3, <1>4, <2>1, <2>2, <2>3, <2>4, <2>5, <2>6
<1> QED
  BY <1>3, <1>4, <1>5, <1>6, <1>7, <1>8, <1>9 DEF OnLane

-----------------------------------------------------------------------------
(* A page that is of the probe's run, whose store was reset when that began.   *)

Own == pageRun = run /\ ~respawned
\* A row, or the snapshot's last, that is of this run and not later than what was received.
Known(n, r) == r = run /\ n <= Bound
Missed(i) == \A b \in In(store) : b.id # i

OwnServer ==
    ~respawned => /\ latest # Nothing => Known(latest.upto, latest.run)
                  /\ \A b \in In(store) : b.run = run
OwnPage ==
    Own => /\ wire # Nothing => \A k \in 1..Len(wire) : Known(wire[k].upto, wire[k].run)
           /\ \A r \in In(recent) : Known(r.id, r.run)
OwnView ==
    Own => /\ \A f \in fetching : /\ Known(f.row.id, f.row.run) /\ f.body \in {Nothing, run}
                                  /\ f.answered /\ f.body = Nothing => Missed(f.row.id)
           /\ \A c \in In(bodyCache) : /\ c.id <= Bound /\ c.body \in {Nothing, run}
                                       /\ c.body = Nothing => Missed(c.id)
           /\ viewed # Nothing => viewed.run = run /\ viewed.body \in {Nothing, run}

\* The elements of a sequence are at its positions.
LEMMA InFacts ==
    ASSUME NEW S, NEW s \in Seq(S)
    PROVE  In(s) \subseteq S /\ \A j \in 1..Len(s) : s[j] \in In(s)
BY ElementOfSeq DEF In

\* Each row of the log is one that was there, or one of those that came.
LEMMA InIngested ==
    ASSUME NEW kept \in Seq(PageRows), NEW rows \in Seq(Rows), seqCounter \in Nat,
           Len(kept) <= seqCounter,
           \A j \in 1..Len(kept) : kept[j].seq = seqCounter - Len(kept) + j
    PROVE  \A r \in In(Ingested(kept, rows)) :
              \/ \E k \in In(kept) : r.id = k.id /\ r.run = k.run
              \/ \E q \in In(rows) : r.id = q.id /\ r.run = q.run
<1> DEFINE all == kept \o Numbered(rows, seqCounter)
           new == Ingested(kept, rows)
<1>1. /\ Len(new) \in Nat
      /\ Len(new) = (IF Len(kept) + Len(rows) <= RecentMax THEN Len(kept) + Len(rows) ELSE RecentMax)
      /\ Len(all) = Len(kept) + Len(rows)
      /\ \A j \in 1..Len(new) : new[j] = all[Len(all) - Len(new) + j]
      /\ \A j \in 1..Len(kept) : all[j] = kept[j]
      /\ \A j \in 1..Len(rows) : all[Len(kept) + j].id = rows[j].id /\ all[Len(kept) + j].run = rows[j].run
  BY IngestFacts, Zenon
<1>2. Len(kept) \in Nat /\ Len(rows) \in Nat /\ RecentMax \in Nat
  BY Sizes
<1> HIDE DEF all, new
<1>3. ASSUME NEW j \in 1..Len(new)
      PROVE  \/ \E k \in In(kept) : new[j].id = k.id /\ new[j].run = k.run
             \/ \E q \in In(rows) : new[j].id = q.id /\ new[j].run = q.run
  <2> DEFINE i == Len(all) - Len(new) + j
  <2>0. new[j] = all[i]
    BY <1>1, Zenon
  <2>01. Len(new) <= Len(all) /\ Len(all) \in Nat
    BY <1>1, <1>2
  <2>1. i \in 1..(Len(kept) + Len(rows)) /\ new[j] = all[i]
    <3>1. Len(all) = Len(kept) + Len(rows) /\ Len(new) \in Nat
      BY <1>1
    <3>2. i \in 1..Len(all)
      BY <2>01, <3>1
    <3> QED BY <2>0, <3>1, <3>2
  <2> HIDE DEF i
  <2>2. CASE i <= Len(kept)
    <3>1. i \in 1..Len(kept)
      BY <1>2, <2>1, <2>2
    <3>2. new[j] = kept[i]
      BY <1>1, <2>1, <3>1
    <3> QED BY <3>1, <3>2 DEF In
  <2>3. CASE ~(i <= Len(kept))
    <3> DEFINE m == i - Len(kept)
    <3>1. m \in 1..Len(rows) /\ i = Len(kept) + m
      BY <1>2, <2>1, <2>3
    <3> HIDE DEF m
    <3>2. new[j].id = rows[m].id /\ new[j].run = rows[m].run
      BY <1>1, <2>1, <3>1
    <3> QED BY <3>1, <3>2 DEF In
  <2> QED BY <2>2, <2>3
<1>4. \A r \in In(new) : \/ \E k \in In(kept) : r.id = k.id /\ r.run = k.run
                         \/ \E q \in In(rows) : r.id = q.id /\ r.run = q.run
  BY <1>3, Zenon DEF In
<1> QED
  BY <1>4 DEF new

\* The rows of a snapshot are of its run, and none is later than the snapshot.
LEMMA SnapshotRows ==
    ASSUME NEW f, f.rows \in Seq(Rows), f.upto \in Nat,
           \A j \in 1..Len(f.rows) : f.rows[j].id = f.upto - Len(f.rows) + j /\ f.rows[j].run = f.run
    PROVE  \A q \in In(f.rows) : q.run = f.run /\ q.id \in Nat /\ q.id <= f.upto
<1>1. Len(f.rows) \in Nat
  BY LenProperties
<1>2. ASSUME NEW j \in 1..Len(f.rows)
      PROVE  f.rows[j].run = f.run /\ f.rows[j].id \in Nat /\ f.rows[j].id <= f.upto
  <2>1. f.rows[j] \in Rows
    BY ElementOfSeq
  <2>2. f.rows[j].id \in Nat
    BY <2>1 DEF Rows
  <2>3. f.rows[j].id = f.upto - Len(f.rows) + j /\ f.rows[j].run = f.run
    OBVIOUS
  <2> QED BY <1>1, <2>2, <2>3
<1> QED
  BY <1>2 DEF In

\* What was known stays known within a run.
LEMMA StaysKnown ==
    ASSUME Types, [Next]_vars, ~(Respawn \/ Restart), NEW n \in Nat, NEW r, Known(n, r)
    PROVE  n <= Bound' /\ r = run'
<1>1. Bound \in Nat /\ Bound' \in Nat /\ Bound <= Bound' /\ run' = run
  BY BoundSteps, Within DEF Types
<1> QED
  BY <1>1 DEF Known

\* What the page was served with, or got since, is of the run.
LEMMA OwnSince ==
    ASSUME Types, [Next]_vars, Own'
    PROVE  /\ ~(Respawn \/ Restart)
           /\ run' = run /\ ~respawned
           /\ OpenPage \/ (Own /\ ~OpenPage)
<1>1. Types'
  BY TypesStep
<1>2. pageRun' = pageRun \/ OpenPage
  <2>1. UNCHANGED PageVars \/ OnPage
    BY StepsTouch DEF Touched
  <2> QED BY <2>1 DEF PageVars, OnPage, Connect, Disconnect, Broadcast, Apply, history
<1>3. ~(Respawn \/ Restart)
  <2> SUFFICES ASSUME Respawn \/ Restart PROVE FALSE
    OBVIOUS
  <2>1. run' = run + 1 /\ pageRun' = pageRun /\ pageRun' = run'
    BY BegunProbe DEF Respawn, Restart, Own, Types
  <2>2. run \in 1..MaxRun
    BY DEF Types, ProbeInv
  <2>3. pageRun # Nothing
    BY <1>1, <2>1, RunIsNot DEF Types, ProbeInv
  <2>4. pageRun \in 1..MaxRun /\ pageRun <= run
    BY <2>3 DEF Types, PageInv
  <2> QED BY <2>1, <2>2, <2>4
<1>4. run' = run /\ respawned' = respawned
  BY <1>3, Within DEF Types
<1> QED
  BY <1>2, <1>3, <1>4 DEF Own

\* A body that comes in is of this run, and its id is above all that the page knows of.
LEMMA StoreSteps ==
    ASSUME Types, [Next]_vars, ~(Respawn \/ Restart)
    PROVE  \A b \in In(store') : b \in In(store) \/ (b.run = run /\ Bound < b.id)
<1>1. UNCHANGED ServerVars \/ OnServer
  BY StepsTouch DEF Touched
<1>2. CASE ReceiveParts
  <2>1. /\ lane[1].rows \in Seq(Rows)
        /\ \A r \in In(lane[1].rows) : r.run = run /\ Bound < r.id
    BY <1>2, BoundSteps DEF Types
  <2>2. store' = Stored(lane[1].rows)
    BY <1>2 DEF ReceiveParts
  <2>3. In(Stored(lane[1].rows)) \subseteq In(store) \cup {BodyOf(r) : r \in In(lane[1].rows)}
    BY <2>1, StoredFacts DEF Types, ServerInv
  <2>4. \A r \in In(lane[1].rows) : BodyOf(r).run = run /\ Bound < BodyOf(r).id
    BY <2>1 DEF BodyOf
  <2> QED BY <2>2, <2>3, <2>4
<1>3. CASE store' = store
  BY <1>3
<1> QED
  BY <1>1, <1>2, <1>3 DEF ServerVars, OnServer, Broadcast

\* Every step keeps the server to the run,
LEMMA OwnServerHolds ==
    ASSUME Types, OwnServer, [Next]_vars
    PROVE  OwnServer'
<1>1. CASE Respawn
  BY <1>1 DEF Respawn, OwnServer
<1>2. CASE Restart
  <2>1. latest' = Nothing /\ store' = <<>>
    BY <1>2 DEF Restart
  <2>2. In(store') = {}
    <3>1. Len(<<>>) = 0
      BY EmptySeq
    <3> QED BY <2>1, <3>1 DEF In
  <2> QED BY <2>1, <2>2 DEF OwnServer
<1>3. CASE ~(Respawn \/ Restart)
  <2> SUFFICES ASSUME ~respawned'
               PROVE  /\ latest' # Nothing => (latest'.upto <= Bound' /\ latest'.run = run')
                      /\ \A b \in In(store') : b.run = run'
    BY DEF OwnServer, Known
  <2>1. run' = run /\ ~respawned
    BY <1>3, Within DEF Types
  <2>2. \A b \in In(store') : b.run = run'
    BY <1>3, <2>1, StoreSteps DEF OwnServer
  <2>3. ASSUME latest' # Nothing PROVE latest'.upto <= Bound' /\ latest'.run = run'
    <3>1. UNCHANGED ServerVars \/ OnServer
      BY StepsTouch DEF Touched
    <3>2. CASE Broadcast
      BY <1>3, <2>1, <3>2, BoundSteps DEF Types
    <3>3. CASE latest' = latest
      <4>1. Known(latest.upto, latest.run)
        BY <2>1, <2>3, <3>3 DEF OwnServer
      <4>2. latest \in Snapshots
        BY <2>3, <3>3 DEF Types, ServerInv
      <4>3. latest.upto \in Nat
        BY <4>2 DEF Snapshots, Frames
      <4> QED BY <1>3, <3>3, <4>1, <4>3, StaysKnown
    <3> QED BY <1>3, <3>1, <3>2, <3>3 DEF ServerVars, OnServer, ReceiveParts
  <2> QED BY <2>2, <2>3
<1> QED
  BY <1>1, <1>2, <1>3

\* and the page and its connection,
LEMMA OwnPageHolds ==
    ASSUME Types, OwnServer, OwnPage, [Next]_vars
    PROVE  OwnPage'
<1> SUFFICES ASSUME Own'
             PROVE  /\ wire' # Nothing => \A k \in 1..Len(wire') : (wire'[k].upto <= Bound' /\ wire'[k].run = run')
                    /\ \A r \in In(recent') : (r.id <= Bound' /\ r.run = run')
  BY DEF OwnPage, Known
<1>1. ~(Respawn \/ Restart) /\ run' = run /\ ~respawned /\ (OpenPage \/ (Own /\ ~OpenPage))
  BY OwnSince
<1>2. Bound \in Nat /\ Bound' \in Nat /\ Bound <= Bound'
  BY <1>1, BoundSteps DEF Types
<1>3. latest # Nothing => Known(latest.upto, latest.run) /\ latest.upto \in Nat
  <2>1. latest # Nothing => latest \in Snapshots
    BY DEF Types, ServerInv
  <2>2. latest # Nothing => latest.upto \in Nat
    BY <2>1 DEF Snapshots, Frames
  <2> QED BY <1>1, <2>2 DEF OwnServer
<1>4. CASE OpenPage
  <2>1. wire' = Nothing
    BY <1>4, OpenFacts DEF OpenPage, Unopened, Types
  <2>2. recent' = Ingested(<<>>, latest.rows) /\ seqCounter = 0 /\ latest # Nothing
    BY <1>4, OpenFacts DEF Types
  <2>3. /\ latest.rows \in Seq(Rows) /\ latest.upto \in Nat
        /\ \A j \in 1..Len(latest.rows) : /\ latest.rows[j].id = latest.upto - Len(latest.rows) + j
                                        /\ latest.rows[j].run = latest.run
    BY <2>2, BootFacts DEF Types
  <2>4. latest.run = run /\ latest.upto <= Bound
    BY <1>3, <2>2 DEF Known
  <2>5. \A q \in In(latest.rows) : q.run = latest.run /\ q.id \in Nat /\ q.id <= latest.upto
    BY <2>3, SnapshotRows
  <2>6. /\ <<>> \in Seq(PageRows) /\ Len(<<>>) <= seqCounter /\ seqCounter \in Nat
        /\ \A j \in 1..Len(<<>>) : <<>>[j].seq = seqCounter - Len(<<>>) + j
        /\ In(<<>>) = {}
    BY <2>2 DEF In
  <2>7. \A r \in In(recent') : \E q \in In(latest.rows) : r.id = q.id /\ r.run = q.run
    <3> DEFINE kept == <<>>
    <3>1. /\ kept \in Seq(PageRows) /\ Len(kept) <= seqCounter /\ seqCounter \in Nat
          /\ \A j \in 1..Len(kept) : kept[j].seq = seqCounter - Len(kept) + j
      BY <2>6
    <3>2. latest.rows \in Seq(Rows)
      BY <2>3
    <3>3. In(kept) = {} /\ recent' = Ingested(kept, latest.rows)
      BY <2>2, <2>6
    <3> HIDE DEF kept
    <3>4. \A r \in In(Ingested(kept, latest.rows)) :
              \/ \E k \in In(kept) : r.id = k.id /\ r.run = k.run
              \/ \E q \in In(latest.rows) : r.id = q.id /\ r.run = q.run
      BY <3>1, <3>2, InIngested
    <3> QED BY <3>3, <3>4
  <2>8. \A r \in In(recent') : r.id <= Bound' /\ r.run = run'
    BY <1>1, <1>2, <2>3, <2>4, <2>5, <2>7
  <2> QED BY <2>1, <2>8
<1>5. CASE Own /\ ~OpenPage
  <2>1. ASSUME wire' # Nothing
        PROVE  \A k \in 1..Len(wire') : wire'[k].upto <= Bound' /\ wire'[k].run = run'
    <3>0. wire' \in Seq(Snapshots)
      <4>1. Types'
        BY TypesStep
      <4> QED BY <2>1, <4>1 DEF Types, ServerInv
    <3>1. ASSUME wire # Nothing, NEW k \in 1..Len(wire)
          PROVE  wire[k].upto <= Bound' /\ wire[k].run = run' /\ wire \in Seq(Snapshots)
      <4>1. wire \in Seq(Snapshots)
        BY <3>1 DEF Types, ServerInv
      <4>2. wire[k] \in Snapshots
        BY <4>1, ElementOfSeq
      <4>3. wire[k].upto \in Nat /\ Known(wire[k].upto, wire[k].run)
        BY <1>5, <3>1, <4>2 DEF OwnPage, Snapshots, Frames
      <4> QED BY <1>1, <4>1, <4>3, StaysKnown
    <3>2. UNCHANGED PageVars \/ OnPage
      BY StepsTouch DEF Touched
    <3>3. CASE Connect
      <4>1. wire' = (IF latest = Nothing THEN <<>> ELSE <<latest>>)
        BY <3>3 DEF Connect
      <4>2. CASE latest = Nothing
        <5>1. Len(wire') = 0
          BY <4>1, <4>2, EmptySeq
        <5> QED BY <5>1
      <4>3. CASE latest # Nothing
        <5>1. Len(wire') = 1 /\ wire'[1] = latest
          BY <4>1, <4>3, PairFacts
        <5>2. \A k \in 1..Len(wire') : k = 1
          BY <5>1
        <5>3. latest.upto <= Bound' /\ latest.run = run'
          BY <1>1, <1>3, <4>3, StaysKnown
        <5> QED BY <5>1, <5>2, <5>3
      <4> QED BY <4>2, <4>3
    <3>4. CASE Broadcast
      <4>1. wire # Nothing /\ wire' = Append(wire, lane[1])
        BY <2>1, <3>4 DEF Broadcast
      <4>2. lane[1].run = run' /\ lane[1].upto <= Bound' /\ lane[1] \in Snapshots
        BY <1>1, <3>4, BoundSteps DEF Types
      <4>3. wire \in Seq(Snapshots)
        BY <4>1 DEF Types, ServerInv
      <4>4. /\ Len(wire') = Len(wire) + 1 /\ Len(wire) \in Nat
            /\ \A k \in 1..Len(wire) : wire'[k] = wire[k]
            /\ wire'[Len(wire) + 1] = lane[1]
        BY <4>1, <4>2, <4>3, AppendFacts, LenProperties
      <4>5. \A k \in 1..Len(wire') : k \in 1..Len(wire) \/ k = Len(wire) + 1
        BY <4>4
      <4> QED BY <3>1, <4>1, <4>2, <4>4, <4>5
    <3>5. CASE Apply
      <4>1. wire \in Seq(Snapshots) /\ wire # <<>> /\ wire # Nothing /\ wire' = Tail(wire)
        BY <3>5, ApplyFacts DEF Types
      <4>2. /\ Len(wire') = Len(wire) - 1 /\ Len(wire) \in Nat
            /\ \A j \in 1..(Len(wire) - 1) : wire'[j] = wire[j + 1]
        BY <4>1, TailFacts, LenProperties
      <4>3. \A k \in 1..Len(wire') : k + 1 \in 1..Len(wire) /\ wire'[k] = wire[k + 1]
        BY <4>2
      <4> QED BY <3>1, <4>1, <4>3
    <3>6. CASE wire' = wire
      BY <2>1, <3>1, <3>6
    <3> QED BY <1>5, <2>1, <3>2, <3>3, <3>4, <3>5, <3>6 DEF PageVars, OnPage, Disconnect
  <2>2. \A r \in In(recent') : r.id <= Bound' /\ r.run = run'
    <3>1. ASSUME NEW r \in In(recent) PROVE r.id \in Nat /\ r.id <= Bound' /\ r.run = run'
      <4>1. r \in PageRows
        BY InFacts DEF Types, LogInv
      <4>2. r.id \in Nat /\ Known(r.id, r.run)
        BY <1>5, <4>1 DEF PageRows, OwnPage
      <4> QED BY <1>1, <4>2, StaysKnown
    <3>2. UNCHANGED LogVars \/ OnLog
      BY StepsTouch DEF Touched
    <3>3. CASE ForgetRows
      <4>1. In(recent') = {}
        <5>1. recent' = <<>> /\ Len(<<>>) = 0
          BY <3>3, EmptySeq DEF ForgetRows
        <5> QED BY <5>1 DEF In
      <4> QED BY <4>1
    <3>4. CASE Apply
      <4>1. /\ wire \in Seq(Snapshots) /\ wire # <<>> /\ wire # Nothing
            /\ wire[1] \in Snapshots
            /\ recent' = Ingested(recent, wire[1].rows)
            /\ wire[1].rows \in Seq(Rows) /\ wire[1].upto \in Nat /\ FrameOK(wire[1])
        BY <3>4, ApplyFacts DEF Types
      <4>2. 1 \in 1..Len(wire)
        BY <4>1, TailFacts
      <4>3. Known(wire[1].upto, wire[1].run)
        BY <1>5, <4>1, <4>2 DEF OwnPage
      <4>4. wire[1].upto <= Bound' /\ wire[1].run = run'
        BY <1>1, <4>1, <4>3, StaysKnown
      <4>5. \A q \in In(wire[1].rows) : q.run = wire[1].run /\ q.id \in Nat /\ q.id <= wire[1].upto
        BY <4>1, SnapshotRows DEF FrameOK
      <4>6. /\ recent \in Seq(PageRows) /\ seqCounter \in Nat /\ Len(recent) <= seqCounter
            /\ \A j \in 1..Len(recent) : recent[j].seq = seqCounter - Len(recent) + j
        BY DEF Types, LogInv
      <4>7. \A r \in In(recent') : \/ \E k \in In(recent) : r.id = k.id /\ r.run = k.run
                                   \/ \E q \in In(wire[1].rows) : r.id = q.id /\ r.run = q.run
        BY <4>1, <4>6, InIngested
      <4> QED BY <1>2, <3>1, <4>1, <4>4, <4>5, <4>7
    <3>5. CASE UNCHANGED LogVars
      BY <3>1, <3>5 DEF LogVars
    <3> QED BY <1>5, <3>2, <3>3, <3>4, <3>5 DEF OnLog
  <2> QED BY <2>1, <2>2
<1> QED
  BY <1>1, <1>4, <1>5

\* A fetch and an entry of the cache as they must be.
FetchOK(f) == /\ Known(f.row.id, f.row.run) /\ f.body \in {Nothing, run}
              /\ f.answered /\ f.body = Nothing => Missed(f.row.id)
EntryOK(c) == /\ c.id <= Bound /\ c.body \in {Nothing, run}
              /\ c.body = Nothing => Missed(c.id)
ViewOK(v) == v # Nothing => v.run = run /\ v.body \in {Nothing, run}

\* The viewer's part, by fetch, by entry and by what is shown.
LEMMA OwnViewIs ==
    OwnView <=> (Own => /\ \A f \in fetching : FetchOK(f)
                        /\ \A c \in In(bodyCache) : EntryOK(c)
                        /\ ViewOK(viewed))
BY Zenon DEF OwnView, FetchOK, EntryOK, ViewOK

\* Within a run what is missed stays missed, and so fetches and entries stay as they must be.
LEMMA StaysMissed ==
    ASSUME Types, [Next]_vars, ~(Respawn \/ Restart), NEW i \in Nat, i <= Bound, Missed(i)
    PROVE  \A b \in In(store') : b.id # i
<1>1. Bound \in Nat
  BY BoundSteps DEF Types
<1>2. \A b \in In(store') : b \in In(store) \/ Bound < b.id
  BY StoreSteps
<1>3. \A b \in In(store') : b.id \in Nat
  <2>1. Types'
    BY TypesStep
  <2>2. store' \in Seq(Held)
    BY <2>1 DEF Types, ServerInv, Stores
  <2>3. \A b \in In(store') : b \in Held
    BY <2>2, InFacts
  <2> QED BY <2>3 DEF Held
<1> QED
  BY <1>1, <1>2, <1>3 DEF Missed

\* A fetch stays as it must be,
LEMMA FetchStays ==
    ASSUME Types, [Next]_vars, ~(Respawn \/ Restart), NEW f \in Fetches, FetchOK(f)
    PROVE  /\ f.row.id <= Bound' /\ f.row.run = run' /\ f.body \in {Nothing, run'}
           /\ f.answered /\ f.body = Nothing => \A b \in In(store') : b.id # f.row.id
<1>1. f.row.id \in Nat
  <2>1. f.row \in PageRows
    BY DEF Fetches
  <2> QED BY <2>1 DEF PageRows
<1>2. Known(f.row.id, f.row.run) /\ f.row.id <= Bound
  BY DEF FetchOK, Known
<1>3. f.row.id <= Bound' /\ f.row.run = run'
  BY <1>1, <1>2, StaysKnown
<1>4. run' = run
  BY Within DEF Types
<1>5. f.answered /\ f.body = Nothing => \A b \in In(store') : b.id # f.row.id
  BY <1>1, <1>2, StaysMissed DEF FetchOK
<1> QED
  BY <1>3, <1>4, <1>5 DEF FetchOK

\* and so does an entry of the cache.
LEMMA EntryStays ==
    ASSUME Types, [Next]_vars, ~(Respawn \/ Restart), NEW c \in Entries, EntryOK(c)
    PROVE  /\ c.id <= Bound' /\ c.body \in {Nothing, run'}
           /\ c.body = Nothing => \A b \in In(store') : b.id # c.id
<1>1. c.id \in Nat
  BY DEF Entries
<1>2. run' = run /\ Bound \in Nat /\ Bound' \in Nat /\ Bound <= Bound'
  BY Within, BoundSteps DEF Types
<1>3. c.body = Nothing => \A b \in In(store') : b.id # c.id
  BY <1>1, StaysMissed DEF EntryOK
<1> QED
  BY <1>1, <1>2, <1>3 DEF EntryOK

\* Every step keeps the viewer to the run.
LEMMA OwnViewHolds ==
    ASSUME Types, OwnServer, OwnPage, OwnView, [Next]_vars
    PROVE  OwnView'
<1> DEFINE FetchNow(f) == /\ f.row.id <= Bound' /\ f.row.run = run' /\ f.body \in {Nothing, run'}
                          /\ f.answered /\ f.body = Nothing => \A b \in In(store') : b.id # f.row.id
           EntryNow(c) == /\ c.id <= Bound' /\ c.body \in {Nothing, run'}
                          /\ c.body = Nothing => \A b \in In(store') : b.id # c.id
           ViewNow(v) == v # Nothing => v.run = run' /\ v.body \in {Nothing, run'}
<1> SUFFICES ASSUME Own'
             PROVE  /\ \A f \in fetching' : FetchNow(f)
                    /\ \A c \in In(bodyCache') : EntryNow(c)
                    /\ ViewNow(viewed')
  BY DEF OwnView, Known, Missed
<1>1. ~(Respawn \/ Restart) /\ run' = run /\ ~respawned /\ (OpenPage \/ (Own /\ ~OpenPage))
  BY OwnSince
<1>2. CASE OpenPage
  <2>1. fetching' = {} /\ bodyCache' = <<>> /\ viewed' = Nothing
    BY <1>2, OpenFacts DEF OpenPage, Unopened, viewer, Types
  <2>2. In(bodyCache') = {}
    <3>1. Len(<<>>) = 0
      BY EmptySeq
    <3> QED BY <2>1, <3>1 DEF In
  <2> QED BY <2>1, <2>2
<1>3. CASE Own /\ ~OpenPage
  <2>1. /\ \A f \in fetching : FetchOK(f) /\ f \in Fetches
        /\ \A c \in In(bodyCache) : EntryOK(c) /\ c \in Entries
        /\ ViewOK(viewed)
    <3>1. \A f \in fetching : f \in Fetches
      BY DEF Types, ViewInv
    <3>2. \A c \in In(bodyCache) : c \in Entries
      BY InFacts DEF Types, ViewInv
    <3>3. /\ \A f \in fetching : FetchOK(f)
          /\ \A c \in In(bodyCache) : EntryOK(c)
          /\ ViewOK(viewed)
      BY <1>3, OwnViewIs
    <3> QED BY <3>1, <3>2, <3>3
  <2>2. \A f \in fetching : FetchNow(f)
    <3> TAKE f \in fetching
    <3>1. FetchOK(f) /\ f \in Fetches
      BY <2>1
    <3> QED BY <1>1, <3>1, FetchStays
  <2>3. \A c \in In(bodyCache) : EntryNow(c)
    <3> TAKE c \in In(bodyCache)
    <3>1. EntryOK(c) /\ c \in Entries
      BY <2>1
    <3> QED BY <1>1, <3>1, EntryStays
  <2>4. ViewNow(viewed)
    BY <1>1, <2>1 DEF ViewOK
  <2> HIDE DEF FetchNow, EntryNow, ViewNow
  <2>5. ViewNow(Nothing)
    BY DEF ViewNow
  <2>6. UNCHANGED ViewVars \/ OnView
    BY StepsTouch DEF Touched
  <2>7. CASE Select \/ Resume \/ CloseRow
    <3>1. fetching' = fetching /\ bodyCache' = bodyCache /\ (viewed' = Nothing)
      BY <2>7 DEF Select, Resume, CloseRow, Resumed
    <3> QED BY <2>2, <2>3, <2>5, <3>1
  <2>8. ASSUME NEW j \in 1..Len(shown), ClickForgotten(shown[j])
        PROVE  fetching' = fetching /\ bodyCache' = bodyCache /\ viewed' = Nothing
    BY <2>8 DEF ClickForgotten
  <2>9. ASSUME NEW j \in 1..Len(shown), OpenRow(shown[j])
        PROVE  /\ \A f \in fetching' : FetchNow(f)
               /\ bodyCache' = bodyCache
               /\ ViewNow(viewed')
    <3> DEFINE s == shown[j]
    <3>1. OpenRow(s) /\ bodyCache' = bodyCache
      BY <2>9 DEF OpenRow
    <3> HIDE DEF s
    <3>2. recent \in Seq(PageRows) /\ bodyCache \in Seq(Entries)
      BY DEF Types, LogInv, ViewInv
    <3>3. PICK row \in In(recent) :
              /\ row \in PageRows /\ openSeq' = s /\ row.seq = s
              /\ \/ viewed' = Nothing /\ fetching' = fetching
                 \/ /\ fetching' = fetching
                    /\ \E c \in In(bodyCache) : c.id = row.id /\ viewed' = Showing(row, c.body)
                 \/ /\ viewed' = Nothing
                    /\ fetching' = fetching \cup {[row |-> row, answered |-> FALSE, body |-> Nothing]}
      BY <3>1, <3>2, OpenedFacts
    <3>4. Known(row.id, row.run) /\ row.id \in Nat
      BY <1>3, <3>3 DEF OwnPage, PageRows
    <3>5. row.id <= Bound' /\ row.run = run'
      BY <1>1, <3>4, StaysKnown
    <3>6. ASSUME NEW c \in In(bodyCache), viewed' = Showing(row, c.body) PROVE ViewNow(viewed')
      <4>1. c.body \in {Nothing, run'} /\ c.body \in Bodies
        BY <2>1, <2>3 DEF EntryNow, Entries
      <4>2. Showing(row, c.body).run = row.run /\ Showing(row, c.body).body = c.body
        BY <3>3, <4>1, ShowingFacts
      <4> QED BY <3>5, <3>6, <4>1, <4>2 DEF ViewNow
    <3>7. FetchNow([row |-> row, answered |-> FALSE, body |-> Nothing])
      BY <3>5 DEF FetchNow
    <3> QED BY <2>2, <2>5, <3>1, <3>3, <3>6, <3>7
  <2>10. ASSUME NEW f \in fetching, AnswerFetch(f)
         PROVE  (\A g \in fetching' : FetchNow(g)) /\ bodyCache' = bodyCache /\ viewed' = viewed
    <3>1. bodyCache' = bodyCache /\ viewed' = viewed /\ store' = store
      BY <2>10 DEF AnswerFetch, server
    <3>2. fetching \subseteq Fetches /\ store \in Stores
      BY DEF Types, ViewInv, ServerInv
    <3>3. PICK b \in Bodies :
              /\ fetching' = (fetching \ {f}) \cup {[row |-> f.row, answered |-> TRUE, body |-> b]}
              /\ b = Nothing => \A c \in In(store) : c.id # f.row.id
              /\ b # Nothing => \E c \in In(store) : c.run = b
      BY <2>10, <3>2, AnswerFacts
    <3>4. b \in {Nothing, run'}
      BY <1>1, <3>3 DEF OwnServer
    <3> DEFINE g == [row |-> f.row, answered |-> TRUE, body |-> b]
    <3>5. g.row = f.row /\ g.body = b
      OBVIOUS
    <3> HIDE DEF g
    <3>6. FetchNow(f)
      BY <2>2
    <3>7. FetchNow(g)
      BY <3>1, <3>3, <3>4, <3>5, <3>6 DEF FetchNow
    <3> QED BY <2>2, <3>1, <3>3, <3>7 DEF g
  <2>11. ASSUME NEW f \in fetching, TakeAnswer(f)
         PROVE  /\ \A g \in fetching' : FetchNow(g)
                /\ \A c \in In(bodyCache') : EntryNow(c)
                /\ ViewNow(viewed')
    <3>1. /\ fetching' = fetching \ {f} /\ bodyCache' = CacheWith(f.row.id, f.body)
          /\ viewed' = (IF openSeq = f.row.seq THEN Showing(f.row, f.body) ELSE viewed)
          /\ f.answered
      BY <2>11 DEF TakeAnswer
    <3>2. f \in Fetches /\ FetchNow(f)
      BY <2>1, <2>2
    <3>3. f.row \in PageRows /\ f.body \in Bodies /\ f.row.id \in 1..MaxEvents
      BY <3>2 DEF Fetches, PageRows
    <3> DEFINE e == [id |-> f.row.id, body |-> f.body]
    <3>4. In(CacheWith(f.row.id, f.body)) \subseteq In(bodyCache) \cup {e}
      BY <3>3, CacheFacts DEF Types, ViewInv
    <3>5. e.id = f.row.id /\ e.body = f.body
      OBVIOUS
    <3> HIDE DEF e
    <3>6. EntryNow(e)
      BY <3>1, <3>2, <3>5 DEF FetchNow, EntryNow
    <3>7. Showing(f.row, f.body).run = f.row.run /\ Showing(f.row, f.body).body = f.body
      BY <3>3, ShowingFacts
    <3>8. ViewNow(viewed')
      BY <2>4, <3>1, <3>2, <3>7 DEF FetchNow, ViewNow
    <3> QED BY <2>2, <2>3, <3>1, <3>4, <3>6, <3>8
  <2>12. ASSUME NEW f \in fetching, FailFetch(f)
         PROVE  fetching' = fetching \ {f} /\ bodyCache' = bodyCache /\ viewed' = viewed
    BY <2>12 DEF FailFetch
  <2>13. CASE UNCHANGED ViewVars
    <3>1. fetching' = fetching /\ bodyCache' = bodyCache /\ viewed' = viewed
      BY <2>13 DEF ViewVars, viewer
    <3> QED BY <2>2, <2>3, <2>4, <3>1
  <2> QED BY <2>2, <2>3, <2>4, <2>5, <2>6, <2>7, <2>8, <2>9, <2>10, <2>11, <2>12, <2>13 DEF OnView
<1> QED
  BY <1>1, <1>2, <1>3

-----------------------------------------------------------------------------
OwnInv == Types /\ OwnServer /\ OwnPage /\ OwnView

\* The invariant always holds.
LEMMA OwnAlways == Spec => []OwnInv
<1>1. Init => OwnInv
  <2> SUFFICES ASSUME Init PROVE OwnInv
    OBVIOUS
  <2>1. Types
    BY TypesInit
  <2>2. pageRun = Nothing /\ run = 1 /\ latest = Nothing /\ store = <<>>
    BY DEF Init
  <2>3. run \in 1..MaxRun
    BY <2>1 DEF Types, ProbeInv
  <2>4. ~Own
    BY <2>2, <2>3, RunIsNot DEF Own
  <2>5. In(store) = {}
    <3>1. Len(<<>>) = 0
      BY EmptySeq
    <3> QED BY <2>2, <3>1 DEF In
  <2>6. OwnServer
    BY <2>2, <2>5 DEF OwnServer
  <2> QED BY <2>1, <2>4, <2>6 DEF OwnInv, OwnPage, OwnView
<1>2. OwnInv /\ [Next]_vars => OwnInv'
  BY TypesStep, OwnServerHolds, OwnPageHolds, OwnViewHolds DEF OwnInv
<1> QED
  BY <1>1, <1>2, PTL DEF Spec

\* The reader sees the body of the open row or none, never another run's.
THEOREM OwnBody == Spec => []OwnBodyInView
<1>1. OwnInv => OwnBodyInView
  BY DEF OwnInv, OwnView, Own, OwnBodyInView
<1> QED
  BY <1>1, OwnAlways, PTL

\* What the server once did not know never gets a body: a miss may be cached for good.
THEOREM MissesStay == Spec => []MissIsForGood
<1>1. OwnInv => MissIsForGood
  <2> SUFFICES ASSUME OwnInv PROVE MissIsForGood
    OBVIOUS
  <2>1. ToSet(bodyCache) = In(bodyCache)
    BY InSet DEF OwnInv, Types, ViewInv
  <2>2. ToSet(store) = In(store)
    BY InSet DEF OwnInv, Types, ServerInv, Stores
  <2>3. Own => \A c \in In(bodyCache) : c.body = Nothing => Missed(c.id)
    BY DEF OwnInv, OwnView
  <2> QED BY <2>1, <2>2, <2>3 DEF Own, Missed, MissIsForGood
<1> QED
  BY <1>1, OwnAlways, PTL

-----------------------------------------------------------------------------
(* What lies between the snapshots was forgotten, and nothing of what a        *)
(* snapshot accounts for was.                                                  *)

Gap(c, a, b) == a <= b /\ (a + 1)..b \subseteq c
Clear(c, a, b) == \A i \in c : ~(a < i /\ i <= b)
\* Of this run, the server received all up to here.
ReceivedTo == IF latest # Nothing /\ latest.run = run THEN latest.upto ELSE 0
Coming == lane[Len(lane)]
ChainInv ==
    /\ latest # Nothing => latest.run <= run
    /\ lane = <<>> => Gap(cut, ReceivedTo, Settled)
    /\ lane # <<>> => /\ Gap(cut, ReceivedTo, From(Coming))
                      /\ Clear(cut, From(Coming), Coming.upto)
                      /\ Gap(cut, Coming.upto, Settled)
    /\ (latest # Nothing /\ latest.run = run) => Clear(cut, From(latest), latest.upto)

\* The snapshot on the lane.
LEMMA ComingIs ==
    ASSUME NEW p, NEW f
    PROVE  /\ lane = <<f>> => lane # <<>> /\ Coming = f
           /\ lane = <<p, f>> => lane # <<>> /\ Coming = f
<1>1. Len(<<f>>) = 1 /\ Len(<<p, f>>) = 2 /\ <<p, f>>[2] = f /\ <<f>>[1] = f
      /\ <<f>> # <<>> /\ <<p, f>> # <<>>
  BY PairFacts
<1> QED
  BY <1>1 DEF Coming

\* What is forgotten is what was not settled before, and it is settled by it.
LEMMA CutSteps ==
    ASSUME ProbeInv, [Next]_vars, ~(Respawn \/ Restart)
    PROVE  /\ cut \subseteq cut'
           /\ \A i \in cut' : i \in cut \/ Settled < i
           /\ (\E room \in Rooms : Tick(room)) \/ Gap(cut', Settled, Settled')
           /\ cut \subseteq Int /\ cut' \subseteq Int
<1>1. UNCHANGED ProbeVars \/ OnProbe
  BY StepsTouch DEF Touched
<1>2. Settled \in Nat /\ Settled' \in Nat /\ Settled <= Settled'
  BY Within
<1>3. cut \subseteq Int /\ cut' \subseteq Int
  BY ProbeHolds DEF ProbeInv
<1>4. CASE UNCHANGED ProbeVars
  <2>1. cut' = cut /\ Settled' = Settled
    BY <1>4 DEF ProbeVars, Settled
  <2>2. Gap(cut', Settled, Settled')
    BY <1>2, <2>1 DEF Gap
  <2> QED BY <1>3, <2>1, <2>2
<1>5. ASSUME NEW x \in Exchanges, Complete(x)
      PROVE  /\ cut \subseteq cut'
             /\ \A i \in cut' : i \in cut \/ Settled < i
             /\ Gap(cut', Settled, Settled')
  <2>1. \/ Settled' = Settled /\ cut' = cut
        \/ Settled' = Settled + 1 /\ cut' = cut \cup {Settled + 1}
    BY <1>5, CompleteProbe
  <2> QED BY <1>2, <2>1 DEF Gap
<1>6. ASSUME NEW room \in Rooms, Tick(room)
      PROVE  /\ cut \subseteq cut'
             /\ \A i \in cut' : i \in cut \/ Settled < i
  <2>1. cut' = cut \cup {waiting[j].id : j \in 1..(Len(waiting) - DrainMax)}
    BY <1>6 DEF Tick
  <2>2. \A j \in 1..Len(waiting) : waiting[j].id = Settled + j
    BY DEF ProbeInv
  <2>3. Len(waiting) \in Nat /\ DrainMax \in Nat
    BY Sizes DEF ProbeInv
  <2>4. \A j \in 1..(Len(waiting) - DrainMax) : j \in 1..Len(waiting) /\ waiting[j].id = Settled + j
    BY <2>2, <2>3
  <2>5. \A j \in 1..(Len(waiting) - DrainMax) : Settled < waiting[j].id
    BY <1>2, <2>3, <2>4
  <2> QED BY <2>1, <2>5
<1> QED
  BY <1>1, <1>3, <1>4, <1>5, <1>6 DEF OnProbe

\* A tick forgets all between what was settled and what it drains.
LEMMA TickCut ==
    ASSUME ProbeInv, NEW room \in Rooms, Tick(room), NEW f, From(f) = lastId - Len(DrainedNow)
    PROVE  Gap(cut', Settled, From(f)) /\ \A i \in cut' : i <= From(f)
<1>1. cut' = cut \cup {waiting[j].id : j \in 1..(Len(waiting) - DrainMax)}
  BY DEF Tick
<1>2. /\ \A j \in 1..Len(waiting) : waiting[j].id = Settled + j
      /\ cut \subseteq 1..Settled /\ lastId \in Nat /\ Len(waiting) \in Nat
      /\ Len(waiting) <= lastId
  BY DEF ProbeInv
<1>3. DrainMax \in Nat
  BY Sizes
<1> DEFINE k == IF Len(waiting) <= DrainMax THEN 0 ELSE Len(waiting) - DrainMax
           e == Settled
<1>4. k \in Nat /\ k <= Len(waiting) /\ e \in Nat /\ 1..(Len(waiting) - DrainMax) = 1..k
  BY <1>2, <1>3 DEF Settled
<1>5. From(f) = e + k
  <2>1. Len(DrainedNow) = (IF Len(waiting) <= DrainMax THEN Len(waiting) ELSE DrainMax)
    BY DrainedFacts
  <2>2. e = lastId - Len(waiting)
    BY DEF Settled
  <2> QED BY <1>2, <1>3, <2>1, <2>2
<1> HIDE DEF k, e
<1>6. \A j \in 1..k : waiting[j].id = e + j
  <2>1. \A j \in 1..k : j \in 1..Len(waiting)
    BY <1>2, <1>4
  <2> QED BY <1>2, <2>1 DEF e
<1>7. cut' = cut \cup {waiting[j].id : j \in 1..k}
  BY <1>1, <1>4
<1>8. cut \subseteq 1..e
  BY <1>2 DEF e
<1>9. \A i \in cut' : i <= e + k
  <2>1. \A j \in 1..k : e + j <= e + k
    BY <1>4
  <2>2. \A i \in 1..e : i <= e + k
    BY <1>4
  <2> QED BY <1>6, <1>7, <1>8, <2>1, <2>2
<1>10. (e + 1)..(e + k) \subseteq cut'
  <2> SUFFICES ASSUME NEW i \in (e + 1)..(e + k) PROVE i \in cut'
    OBVIOUS
  <2> DEFINE j == i - e
  <2>1. j \in 1..k /\ e + j = i
    BY <1>4
  <2> HIDE DEF j
  <2>2. waiting[j].id = i
    BY <1>6, <2>1
  <2> QED BY <1>7, <2>1, <2>2
<1>11. e <= e + k
  BY <1>4
<1> QED
  BY <1>5, <1>9, <1>10, <1>11 DEF Gap, e

\* Two gaps in a row are one; there is none between an id and itself.
LEMMA GapFacts ==
    ASSUME NEW c, NEW a \in Int, NEW b \in Int, NEW d \in Int
    PROVE  /\ Gap(c, a, b) /\ Gap(c, b, d) => Gap(c, a, d)
           /\ Gap(c, a, a)
<1>1. Gap(c, a, a)
  BY DEF Gap
<1>2. ASSUME Gap(c, a, b), Gap(c, b, d) PROVE Gap(c, a, d)
  <2>1. a <= b /\ b <= d /\ (a + 1)..b \subseteq c /\ (b + 1)..d \subseteq c
    BY <1>2 DEF Gap
  <2>2. \A i \in (a + 1)..d : i \in (a + 1)..b \/ i \in (b + 1)..d
    BY <2>1
  <2>3. a <= d
    BY <2>1
  <2> QED BY <2>1, <2>2, <2>3 DEF Gap
<1> QED
  BY <1>1, <1>2

\* What the server received is a number of ids.
LEMMA ReceivedToFacts ==
    ASSUME ServerInv
    PROVE  ReceivedTo \in Nat /\ (latest # Nothing => latest.upto \in Nat /\ From(latest) \in Nat
                                                /\ From(latest) <= latest.upto)
<1>1. CASE latest = Nothing
  BY <1>1 DEF ReceivedTo
<1>2. CASE latest # Nothing
  <2>1. latest \in Frames /\ FrameOK(latest)
    BY <1>2 DEF ServerInv, Snapshots
  <2>2. latest.upto \in Nat /\ latest.rows \in Seq(Rows) /\ latest.recentDropped \in Nat
    BY <2>1 DEF Frames
  <2>3. Len(latest.rows) \in Nat
    BY <2>2, LenProperties
  <2>4. From(latest) \in Nat /\ From(latest) = latest.upto - Len(latest.rows) - latest.recentDropped
    BY <2>1 DEF FrameOK, From
  <2>5. From(latest) <= latest.upto
    BY <2>2, <2>3, <2>4
  <2> QED BY <2>2, <2>4, <2>5 DEF ReceivedTo
<1> QED
  BY <1>1, <1>2

\* The snapshot on the lane is of the run and accounts for what is settled.
LEMMA ComingFacts ==
    ASSUME LaneInv, lane # <<>>
    PROVE  /\ Coming \in Frames /\ OnTheWay(Coming) /\ From(Coming) \in Nat /\ Coming.upto \in Nat
           /\ From(Coming) <= Coming.upto /\ Coming.upto <= Settled /\ Coming.run = run
<1>1. ASSUME NEW f \in Frames, lane = <<f>>, OnTheWay(f) PROVE Coming \in Frames /\ OnTheWay(Coming)
  BY <1>1, ComingIs
<1>2. ASSUME NEW p \in Bundles, NEW f \in Frames, lane = <<p, f>>, OnTheWay(f)
      PROVE  Coming \in Frames /\ OnTheWay(Coming)
  BY <1>2, ComingIs
<1>3. Coming \in Frames /\ OnTheWay(Coming)
  BY <1>1, <1>2 DEF LaneInv
<1> QED
  BY <1>3, OnTheWayFacts

\* The gap to what is settled grows with what is forgotten.
LEMMA Grows ==
    ASSUME ProbeInv, [Next]_vars, ~(Respawn \/ Restart), NEW a \in Int, NEW b \in Int
    PROVE  /\ Gap(cut, a, b) => Gap(cut', a, b)
           /\ b <= Settled /\ Clear(cut, a, b) => Clear(cut', a, b)
<1>1. /\ cut \subseteq cut' /\ \A i \in cut' : i \in cut \/ Settled < i
      /\ cut' \subseteq Int
  BY CutSteps
<1>2. Settled \in Nat
  BY Within
<1> QED
  BY <1>1, <1>2 DEF Gap, Clear

\* Every step keeps the chain.
LEMMA ChainHolds ==
    ASSUME Types, ChainInv, [Next]_vars
    PROVE  ChainInv'
<1>0. Types'
  BY TypesStep
<1>1. CASE Respawn \/ Restart
  <2>1. run' = run + 1 /\ lane' = <<>> /\ waiting' = <<>> /\ lastId' = 0
    BY <1>1, BegunProbe DEF Types, Respawn, Restart, NewRun, Begun
  <2>2. run \in 1..MaxRun
    BY DEF Types, ProbeInv
  <2>3. latest' = latest \/ latest' = Nothing
    BY <1>1 DEF Respawn, Restart, server
  <2>4. latest # Nothing => latest.run \in Int /\ latest.run <= run
    <3>1. latest # Nothing => latest \in Frames
      BY DEF Types, ServerInv, Snapshots
    <3> QED BY <3>1 DEF ChainInv, Frames
  <2>5. latest' # Nothing => latest'.run <= run' /\ latest'.run # run'
    BY <2>1, <2>2, <2>3, <2>4
  <2>6. ReceivedTo' = 0
    BY <2>5 DEF ReceivedTo
  <2>7. Settled' = 0
    <3>1. Len(waiting') = 0
      BY <2>1, EmptySeq
    <3>2. Settled' = lastId' - Len(waiting')
      BY DEF Settled
    <3>3. lastId' = 0
      BY <2>1
    <3> QED BY <3>1, <3>2, <3>3
  <2>8. Gap(cut', ReceivedTo', Settled')
    BY <2>6, <2>7 DEF Gap
  <2> QED BY <2>1, <2>5, <2>8 DEF ChainInv, Gap, Clear, From, Coming
<1>2. CASE ~(Respawn \/ Restart)
  <2>1. run' = run /\ Settled \in Nat /\ Settled' \in Nat /\ Settled <= Settled'
    BY <1>2, Within DEF Types
  <2>2. UNCHANGED LaneVars \/ OnLane
    BY StepsTouch DEF Touched
  <2>3. UNCHANGED ServerVars \/ OnServer
    BY StepsTouch DEF Touched
  <2>4. ~Broadcast => latest' = latest
    BY <1>2, <2>3 DEF ServerVars, OnServer, ReceiveParts
  <2>5. ~Broadcast => ReceivedTo' = ReceivedTo
    BY <2>1, <2>4 DEF ReceivedTo
  <2>6. ReceivedTo \in Nat /\ ReceivedTo' \in Nat
    <3>1. latest' # Nothing => latest' \in Frames
      BY <1>0 DEF Types, ServerInv, Snapshots
    <3>2. latest' # Nothing => latest'.upto \in Nat
      BY <3>1 DEF Frames
    <3>3. ReceivedTo \in Nat
      BY ReceivedToFacts DEF Types
    <3> QED BY <3>2, <3>3 DEF ReceivedTo
  <2>7. ASSUME ~Broadcast, latest' # Nothing /\ latest'.run = run'
        PROVE  Clear(cut', From(latest'), latest'.upto)
    <3>1. latest' = latest /\ latest # Nothing /\ latest.run = run
      BY <2>1, <2>4, <2>7
    <3>2. Clear(cut, From(latest), latest.upto) /\ From(latest) \in Int /\ latest.upto \in Int
      BY <3>1, ReceivedToFacts DEF ChainInv, Types
    <3>3. latest.upto <= Settled
      <4>1. ReceivedTo = latest.upto
        BY <3>1 DEF ReceivedTo
      <4>2. CASE lane = <<>>
        BY <4>1, <4>2 DEF ChainInv, Gap
      <4>3. CASE lane # <<>>
        <5>1. ReceivedTo <= From(Coming)
          BY <4>3 DEF ChainInv, Gap
        <5>2. From(Coming) \in Nat /\ Coming.upto \in Nat /\ From(Coming) <= Coming.upto
              /\ Coming.upto <= Settled
          BY <4>3, ComingFacts DEF Types
        <5> QED BY <2>1, <2>6, <4>1, <5>1, <5>2
      <4> QED BY <4>2, <4>3
    <3> QED BY <1>2, <3>1, <3>2, <3>3, Grows DEF Types
  <2>8. ASSUME NEW room \in Rooms, Tick(room)
        PROVE  ChainInv'
    <3>1. lane = <<>> /\ ~Broadcast
      BY <2>8 DEF Tick, Broadcast
    <3>2. PICK f \in Frames : Printed(f, room)
      BY <2>8, TickPrints DEF Types
    <3>3. /\ From(f) = lastId - Len(DrainedNow) /\ f.upto = lastId /\ f \in Snapshots
          /\ lane' = <<f>> \/ \E p \in Bundles : lane' = <<p, f>>
      BY <3>2 DEF Printed
    <3>4. lane' # <<>> /\ Coming' = f
      <4>1. ASSUME NEW p, lane' = <<f>> \/ lane' = <<p, f>> PROVE lane' # <<>> /\ lane'[Len(lane')] = f
        BY <4>1, PairFacts
      <4> QED BY <3>3, <4>1 DEF Coming
    <3>5. Gap(cut', Settled, From(f)) /\ \A i \in cut' : i <= From(f)
      BY <2>8, <3>3, TickCut DEF Types
    <3>6. Gap(cut', ReceivedTo, Settled)
      BY <1>2, <2>1, <2>6, <3>1, Grows DEF Types, ChainInv
    <3>7. From(f) \in Int
      BY <3>3 DEF Snapshots, FrameOK
    <3>8. Gap(cut', ReceivedTo', From(f))
      BY <2>1, <2>5, <2>6, <3>1, <3>5, <3>6, <3>7, GapFacts
    <3>9. Clear(cut', From(f), f.upto)
      <4>1. cut' \subseteq Int
        BY <1>2, CutSteps DEF Types
      <4> QED BY <3>5, <3>7, <4>1 DEF Clear
    <3>10. Gap(cut', f.upto, Settled')
      <4>1. Settled' = lastId
        BY <2>8, TickProbe DEF Types
      <4> QED BY <2>1, <3>3, <4>1, GapFacts
    <3>11. From(f)' = From(f)
      BY DEF From
    <3>12. latest' # Nothing => latest'.run <= run'
      BY <2>1, <2>4, <3>1 DEF ChainInv
    <3> QED BY <2>7, <3>1, <3>4, <3>8, <3>9, <3>10, <3>12 DEF ChainInv, From
  <2>9. CASE ~Broadcast /\ ~(\E room \in Rooms : Tick(room))
    <3>1. Gap(cut', Settled, Settled')
      BY <1>2, <2>9, CutSteps DEF Types
    <3>2. latest' # Nothing => latest'.run <= run'
      BY <2>1, <2>4, <2>9 DEF ChainInv
    <3>3. CASE lane = <<>>
      <4>1. lane' = <<>>
        BY <1>2, <2>2, <2>9, <3>3 DEF LaneVars, OnLane, ReceiveParts
      <4>2. Gap(cut', ReceivedTo, Settled)
        BY <1>2, <2>1, <2>6, <3>3, Grows DEF Types, ChainInv
      <4>3. Gap(cut', ReceivedTo', Settled')
        BY <2>1, <2>5, <2>6, <2>9, <3>1, <4>2, GapFacts
      <4> QED BY <2>7, <2>9, <3>2, <4>1, <4>3 DEF ChainInv, From
    <3>4. CASE lane # <<>>
      <4>1. lane' # <<>> /\ Coming' = Coming
        <5>1. CASE UNCHANGED LaneVars
          <6>1. lane' = lane
            BY <5>1 DEF LaneVars
          <6> QED BY <3>4, <6>1 DEF Coming
        <5>2. CASE ReceiveParts
          <6>1. PICK f \in Frames : lane = <<lane[1], f>> /\ lane' = <<f>>
            BY <5>2, Received DEF Types
          <6>2. Coming = f
            BY <6>1, ComingIs
          <6>3. lane' # <<>> /\ lane'[Len(lane')] = f
            BY <6>1, PairFacts
          <6> QED BY <6>2, <6>3 DEF Coming
        <5> QED BY <1>2, <2>2, <2>9, <5>1, <5>2 DEF OnLane
      <4>2. /\ From(Coming) \in Nat /\ Coming.upto \in Nat /\ Coming.upto <= Settled
        BY <3>4, ComingFacts DEF Types
      <4>3. /\ Gap(cut, ReceivedTo, From(Coming)) /\ Clear(cut, From(Coming), Coming.upto)
            /\ Gap(cut, Coming.upto, Settled)
        BY <3>4 DEF ChainInv
      <4>4. /\ Gap(cut', ReceivedTo, From(Coming)) /\ Clear(cut', From(Coming), Coming.upto)
            /\ Gap(cut', Coming.upto, Settled)
        BY <1>2, <2>1, <2>6, <4>2, <4>3, Grows DEF Types
      <4>5. Gap(cut', Coming.upto, Settled')
        BY <2>1, <3>1, <4>2, <4>4, GapFacts
      <4>6. From(Coming)' = From(Coming)
        BY <4>1 DEF From
      <4> QED BY <2>5, <2>7, <2>9, <3>2, <4>1, <4>4, <4>5, <4>6 DEF ChainInv, From
    <3> QED BY <3>3, <3>4
  <2>10. CASE Broadcast
    <3>1. /\ lane = <<lane[1]>> /\ lane' = <<>> /\ OnTheWay(lane[1])
          /\ lane[1] \in Frames /\ latest' = lane[1]
      BY <2>10, Received DEF Types
    <3>2. Coming = lane[1] /\ lane # <<>>
      BY <3>1, ComingIs
    <3>3. /\ From(Coming) \in Nat /\ Coming.upto \in Nat /\ Coming.upto <= Settled /\ Coming.run = run
          /\ Coming \in Frames
      BY <3>2, ComingFacts DEF Types
    <3>4. latest' # Nothing /\ latest' = Coming
      BY <3>1, <3>2, FramesAreNot
    <3>5. ReceivedTo' = Coming.upto
      BY <2>1, <3>3, <3>4 DEF ReceivedTo
    <3>6. cut' = cut /\ Settled' = Settled
      BY <2>10 DEF Broadcast, probe, Settled
    <3>7. Gap(cut, Coming.upto, Settled) /\ Clear(cut, From(Coming), Coming.upto)
      BY <3>2 DEF ChainInv
    <3>8. Gap(cut', ReceivedTo', Settled') /\ Clear(cut', From(latest'), latest'.upto)
      BY <3>4, <3>5, <3>6, <3>7
    <3>9. latest'.run <= run'
      BY <1>0, <2>1, <3>3, <3>4 DEF Types, ProbeInv
    <3> QED BY <3>1, <3>8, <3>9 DEF ChainInv, From
  <2> QED BY <2>8, <2>9, <2>10
<1> QED
  BY <1>1, <1>2

-----------------------------------------------------------------------------
(* The ledger of a page that has missed nothing.                               *)

Ids(s) == {s[j].id : j \in 1..Len(s)}
Behind(x) == {i \in Ids(recent) : i <= x}
Forgotten(c, a, b) == {i \in c : a < i /\ i <= b}
\* From x on, the snapshots w that are under way lead to what the server received last.
Chain(w, c, x, last, top) ==
    IF w = <<>> THEN x = last
    ELSE /\ Gap(c, x, From(w[1]))
         /\ \A k \in 1..Len(w) : Clear(c, From(w[k]), w[k].upto) /\ w[k].upto <= top
         /\ \A k \in 1..(Len(w) - 1) : Gap(c, w[k].upto, From(w[k + 1]))
         /\ w[Len(w)].upto = last
\* Up to x, all is in the log, or counted, or forgotten.
Tally(x) ==
    Len(recent) < RecentMax =>
        Cardinality(Behind(x)) + droppedRows + Cardinality(Forgotten(cut, base, x)) = x - base
\* The page has taken in all up to x; beyond it, it was served with what will be primed again.
Reached(x) ==
    /\ base <= x /\ x <= Settled
    /\ Chain(wire, cut, x, ReceivedTo, Settled)
    /\ \A i \in Ids(recent) : i <= x \/ (wire # <<>> /\ i \in Ids(wire[1].rows))
    /\ Tally(x)
FollowInv ==
    followed =>
        /\ pageRun # Nothing
        /\ latest # Nothing => latest.run = run
        /\ base \in Nat
        /\ wire = Nothing => /\ droppedRows = 0
                             /\ base = IF latest = Nothing THEN 0 ELSE From(latest)
                             /\ Ids(recent) \subseteq IF latest = Nothing THEN {}
                                                      ELSE Ids(latest.rows)
        /\ wire # Nothing => \E x \in Nat : Reached(x)

\* The rows of a snapshot are the last of what it accounts for.
LEMMA SnapshotIds ==
    ASSUME NEW f \in Snapshots
    PROVE  /\ From(f) \in Nat /\ f.upto \in Nat /\ f.recentDropped \in Nat /\ Len(f.rows) \in Nat
           /\ f.upto = From(f) + Len(f.rows) + f.recentDropped
           /\ \A i \in Ids(f.rows) : i \in Int /\ From(f) < i /\ i <= f.upto
           /\ IsFiniteSet(Ids(f.rows)) /\ Cardinality(Ids(f.rows)) = Len(f.rows)
           /\ f \in Frames /\ f.rows \in Seq(Rows)
<1>1. f \in Frames /\ FrameOK(f)
  BY DEF Snapshots
<1>2. f.upto \in Nat /\ f.rows \in Seq(Rows) /\ f.recentDropped \in Nat
  BY <1>1 DEF Frames
<1> DEFINE n == Len(f.rows)
           u == f.upto
           d == f.recentDropped
<1>3. n \in Nat
  BY <1>2, LenProperties
<1>4. From(f) \in Nat /\ From(f) = u - n - d
  BY <1>1 DEF FrameOK, From
<1>5. \A j \in 1..n : f.rows[j].id = u - n + j
  BY <1>1 DEF FrameOK
<1>6. u \in Nat /\ d \in Nat
  BY <1>2
<1>7. Ids(f.rows) = {f.rows[j].id : j \in 1..n}
  BY DEF Ids
<1> HIDE DEF n, u, d
<1>8. u = From(f) + n + d /\ u - n + 1 \in Int /\ u - n >= From(f)
  BY <1>3, <1>4, <1>6
<1>9. Ids(f.rows) = (u - n + 1)..u
  <2>1. \A j \in 1..n : u - n + j \in (u - n + 1)..u
    BY <1>3, <1>6
  <2>2. \A i \in (u - n + 1)..u : \E j \in 1..n : i = u - n + j
    <3> TAKE i \in (u - n + 1)..u
    <3> DEFINE j == i - (u - n)
    <3>1. j \in 1..n /\ i = u - n + j
      BY <1>3, <1>6
    <3> QED BY <3>1
  <2> QED BY <1>5, <1>7, <2>1, <2>2
<1>10. IsFiniteSet((u - n + 1)..u)
       /\ Cardinality((u - n + 1)..u) = IF u - n + 1 > u THEN 0 ELSE u - (u - n + 1) + 1
  <2>1. u - n + 1 \in Int /\ u \in Int
    BY <1>6, <1>8
  <2> QED BY <2>1, FS_Interval
<1>11. (IF u - n + 1 > u THEN 0 ELSE u - (u - n + 1) + 1) = n
  BY <1>3, <1>6
<1>12. \A i \in (u - n + 1)..u : i \in Int /\ From(f) < i /\ i <= u
  BY <1>3, <1>4, <1>6, <1>8
<1> QED
  BY <1>1, <1>2, <1>3, <1>4, <1>6, <1>8, <1>9, <1>10, <1>11, <1>12 DEF n, u, d

\* The ids in a log are finitely many.
LEMMA IdsFinite ==
    ASSUME NEW s \in Seq(PageRows)
    PROVE  IsFiniteSet(Ids(s)) /\ Ids(s) \subseteq Nat
<1>1. \A j \in 1..Len(s) : s[j].id \in 1..MaxEvents
  <2>1. \A r \in PageRows : r.id \in 1..MaxEvents
    BY DEF PageRows
  <2>2. \A j \in 1..Len(s) : s[j] \in PageRows
    BY ElementOfSeq
  <2> QED BY <2>1, <2>2
<1>2. Ids(s) \in SUBSET (1..MaxEvents)
  BY <1>1 DEF Ids
<1>3. MaxEvents \in Int
  BY Sizes
<1>4. IsFiniteSet(1..MaxEvents)
  BY <1>3, FS_Interval
<1>5. 1..MaxEvents \subseteq Nat
  BY <1>3
<1> QED
  BY <1>2, <1>4, <1>5, FS_Subset

\* The log has the ids that it had and those that came; if it is not full, all of them.
LEMMA IdsIngested ==
    ASSUME NEW kept \in Seq(PageRows), NEW rows \in Seq(Rows), seqCounter \in Nat,
           Len(kept) <= seqCounter,
           \A j \in 1..Len(kept) : kept[j].seq = seqCounter - Len(kept) + j
    PROVE  /\ Ids(Ingested(kept, rows)) \subseteq Ids(kept) \cup Ids(rows)
           /\ Len(Ingested(kept, rows)) < RecentMax =>
                 /\ Len(kept) < RecentMax
                 /\ Ids(Ingested(kept, rows)) = Ids(kept) \cup Ids(rows)
<1> DEFINE all == kept \o Numbered(rows, seqCounter)
           new == Ingested(kept, rows)
<1>1. /\ Len(new) \in Nat
      /\ Len(new) = (IF Len(kept) + Len(rows) <= RecentMax THEN Len(kept) + Len(rows) ELSE RecentMax)
      /\ Len(all) = Len(kept) + Len(rows)
      /\ \A j \in 1..Len(new) : new[j] = all[Len(all) - Len(new) + j]
      /\ \A j \in 1..Len(kept) : all[j] = kept[j]
      /\ \A j \in 1..Len(rows) : all[Len(kept) + j].id = rows[j].id /\ all[Len(kept) + j].run = rows[j].run
  BY IngestFacts, Zenon
<1>2. Len(kept) \in Nat /\ Len(rows) \in Nat /\ RecentMax \in Nat
  BY Sizes
<1>3. \A r \in In(new) : \/ \E k \in In(kept) : r.id = k.id /\ r.run = k.run
                         \/ \E q \in In(rows) : r.id = q.id /\ r.run = q.run
  BY InIngested
<1> HIDE DEF all, new
<1>4. Ids(new) \subseteq Ids(kept) \cup Ids(rows)
  <2> SUFFICES ASSUME NEW j \in 1..Len(new) PROVE new[j].id \in Ids(kept) \cup Ids(rows)
    BY DEF Ids
  <2>1. new[j] \in In(new)
    BY DEF In
  <2>2. (\E k \in In(kept) : new[j].id = k.id) \/ (\E q \in In(rows) : new[j].id = q.id)
    BY <1>3, <2>1
  <2> QED BY <2>2 DEF In, Ids
<1>5. ASSUME Len(new) < RecentMax
      PROVE  Len(kept) < RecentMax /\ Ids(kept) \cup Ids(rows) \subseteq Ids(new)
  <2>1. Len(new) = Len(kept) + Len(rows)
    BY <1>1, <1>2, <1>5
  <2>2. \A j \in 1..Len(new) : new[j] = all[j]
    <3> TAKE j \in 1..Len(new)
    <3>1. new[j] = all[Len(all) - Len(new) + j]
      BY <1>1
    <3>2. Len(all) - Len(new) + j = j
      <4>1. Len(all) = Len(kept) + Len(rows)
        BY <1>1
      <4> QED BY <1>2, <2>1, <4>1
    <3> QED BY <3>1, <3>2
  <2>3. \A j \in 1..Len(kept) : j \in 1..Len(new) /\ new[j] = kept[j]
    <3>1. \A j \in 1..Len(kept) : j \in 1..Len(new)
      BY <1>2, <2>1
    <3>2. \A j \in 1..Len(kept) : all[j] = kept[j]
      BY <1>1
    <3> QED BY <2>2, <3>1, <3>2
  <2>4. \A j \in 1..Len(rows) : Len(kept) + j \in 1..Len(new) /\ new[Len(kept) + j].id = rows[j].id
    <3>1. \A j \in 1..Len(rows) : Len(kept) + j \in 1..Len(new)
      BY <1>2, <2>1
    <3>2. \A j \in 1..Len(rows) : all[Len(kept) + j].id = rows[j].id
      BY <1>1
    <3> QED BY <2>2, <3>1, <3>2
  <2>5. Ids(kept) \subseteq Ids(new)
    BY <2>3 DEF Ids
  <2>6. Ids(rows) \subseteq Ids(new)
    BY <2>4 DEF Ids
  <2>7. Len(kept) < RecentMax
    BY <1>2, <1>5, <2>1
  <2> QED BY <2>5, <2>6, <2>7
<1> QED
  BY <1>4, <1>5 DEF new

\* What is forgotten between two ids, when all of a gap is and nothing else.
LEMMA ForgottenSplit ==
    ASSUME NEW c \in SUBSET Nat, NEW a \in Nat, NEW x \in Nat, NEW y \in Nat, NEW z \in Nat,
           a <= x, Gap(c, x, y), y <= z, Clear(c, y, z), IsFiniteSet(c)
    PROVE  /\ Cardinality(Forgotten(c, a, z)) = Cardinality(Forgotten(c, a, x)) + (y - x)
           /\ Cardinality(Forgotten(c, a, x)) \in Nat
<1>1. x <= y /\ (x + 1)..y \subseteq c
  BY DEF Gap
<1>2. Forgotten(c, a, z) = Forgotten(c, a, x) \cup ((x + 1)..y)
  <2>1. ASSUME NEW i \in c, a < i, i <= z PROVE i <= x \/ i \in (x + 1)..y
    <3>1. ~(y < i /\ i <= z)
      BY DEF Clear
    <3> QED BY <2>1, <3>1
  <2>2. \A i \in (x + 1)..y : i \in c /\ a < i /\ i <= z
    BY <1>1
  <2>3. \A i \in c : i <= x => i <= z
    BY <1>1
  <2> QED BY <2>1, <2>2, <2>3 DEF Forgotten
<1>3. Forgotten(c, a, x) \cap ((x + 1)..y) = {}
  <2>1. \A i \in (x + 1)..y : ~(i <= x)
    OBVIOUS
  <2> QED BY <2>1 DEF Forgotten
<1>4. IsFiniteSet((x + 1)..y) /\ Cardinality((x + 1)..y) = y - x
  <2>1. /\ IsFiniteSet((x + 1)..y)
        /\ Cardinality((x + 1)..y) = IF x + 1 > y THEN 0 ELSE y - (x + 1) + 1
    <3>1. x + 1 \in Int /\ y \in Int
      OBVIOUS
    <3> QED BY <3>1, FS_Interval
  <2>2. (IF x + 1 > y THEN 0 ELSE y - (x + 1) + 1) = y - x
    BY <1>1
  <2> QED BY <2>1, <2>2
<1>5. IsFiniteSet(Forgotten(c, a, x))
  <2>1. Forgotten(c, a, x) \in SUBSET c
    BY DEF Forgotten
  <2> QED BY <2>1, FS_Subset
<1>6. Cardinality(Forgotten(c, a, x)) \in Nat
  BY <1>5, FS_CardinalityType
<1>7. Cardinality(Forgotten(c, a, x) \cup ((x + 1)..y))
        = Cardinality(Forgotten(c, a, x)) + Cardinality((x + 1)..y)
            - Cardinality(Forgotten(c, a, x) \cap ((x + 1)..y))
  BY <1>4, <1>5, FS_Union
<1>8. Cardinality({}) = 0
  BY FS_EmptySet
<1> DEFINE m == Cardinality(Forgotten(c, a, x))
<1>9. m \in Nat
  BY <1>6
<1>10. Cardinality(Forgotten(c, a, z)) = m + Cardinality((x + 1)..y) - 0
  BY <1>2, <1>3, <1>7, <1>8
<1>11. m + Cardinality((x + 1)..y) - 0 = m + (y - x)
  <2> HIDE DEF m
  <2> QED BY <1>4, <1>9
<1> QED
  BY <1>6, <1>10, <1>11

\* What was received was settled before.
LEMMA ReceivedSettled ==
    ASSUME Types, ChainInv
    PROVE  ReceivedTo \in Nat /\ Settled \in Nat /\ ReceivedTo <= Settled
<1>1. ReceivedTo \in Nat /\ Settled \in Nat
  BY ReceivedToFacts, BoundFacts DEF Types
<1>2. CASE lane = <<>>
  BY <1>1, <1>2 DEF ChainInv, Gap
<1>3. CASE lane # <<>>
  <2>1. ReceivedTo <= From(Coming)
    BY <1>3 DEF ChainInv, Gap
  <2>2. From(Coming) \in Nat /\ Coming.upto \in Nat /\ From(Coming) <= Coming.upto /\ Coming.upto <= Settled
    BY <1>3, ComingFacts DEF Types
  <2> QED BY <1>1, <2>1, <2>2
<1> QED
  BY <1>1, <1>2, <1>3

\* A chain of one snapshot, and a chain that grows at its end or is taken in from its head.
LEMMA ChainOne ==
    ASSUME NEW c, NEW f \in Snapshots, NEW top \in Nat,
           Clear(c, From(f), f.upto), f.upto <= top
    PROVE  Chain(<<f>>, c, From(f), f.upto, top)
<1> DEFINE w == <<f>>
<1>1. Len(w) = 1 /\ w[1] = f /\ w # <<>>
  BY PairFacts
<1>2. From(f) \in Nat
  BY SnapshotIds
<1>3. Gap(c, From(f), From(f))
  BY <1>2, GapFacts
<1> HIDE DEF w
<1>4. \A k \in 1..Len(w) : w[k] = f
  BY <1>1
<1>5. 1..(Len(w) - 1) = {}
  BY <1>1
<1>6. w[Len(w)] = f
  BY <1>1
<1>7. Chain(w, c, From(f), f.upto, top)
  BY <1>1, <1>3, <1>4, <1>5, <1>6, Zenon DEF Chain
<1> QED
  BY <1>7 DEF w

\* It grows at its end.
LEMMA ChainAppend ==
    ASSUME NEW w \in Seq(Snapshots), NEW c, NEW x \in Nat, NEW last \in Nat, NEW top \in Nat,
           NEW f \in Snapshots, Chain(w, c, x, last, top),
           Gap(c, last, From(f)), Clear(c, From(f), f.upto), f.upto <= top
    PROVE  Chain(Append(w, f), c, x, f.upto, top)
<1> DEFINE v == Append(w, f)
           n == Len(w)
<1>1. /\ v \in Seq(Snapshots) /\ Len(v) = n + 1 /\ v[n + 1] = f /\ n \in Nat
      /\ \A j \in 1..n : v[j] = w[j]
  <2> HIDE DEF Snapshots
  <2> QED BY AppendProperties, LenProperties
<1>2. v # <<>>
  BY <1>1
<1>3. CASE w = <<>>
  <2>1. n = 0 /\ x = last
    BY <1>3 DEF Chain
  <2>2. Len(v) = 1 /\ v[1] = f
    BY <1>1, <2>1
  <2>3. \A k \in 1..Len(v) : v[k] = f
    BY <2>2
  <2>4. 1..(Len(v) - 1) = {} /\ v[Len(v)] = f
    BY <2>2
  <2> HIDE DEF v
  <2>5. Chain(v, c, x, f.upto, top)
    BY <1>2, <2>1, <2>2, <2>3, <2>4, Zenon DEF Chain
  <2> QED BY <2>5 DEF v
<1>4. CASE w # <<>>
  <2>1. n > 0
    BY <1>1, <1>4, EmptySeq
  <2>2. /\ Gap(c, x, From(w[1]))
        /\ \A k \in 1..n : Clear(c, From(w[k]), w[k].upto) /\ w[k].upto <= top
        /\ \A k \in 1..(n - 1) : Gap(c, w[k].upto, From(w[k + 1]))
        /\ w[n].upto = last
    BY <1>4 DEF Chain
  <2> HIDE DEF v, n
  <2>3. Gap(c, x, From(v[1]))
    <3>1. v[1] = w[1]
      BY <1>1, <2>1
    <3> QED BY <2>2, <3>1
  <2>4. ASSUME NEW k \in 1..Len(v) PROVE Clear(c, From(v[k]), v[k].upto) /\ v[k].upto <= top
    <3>1. CASE k = n + 1
      BY <1>1, <3>1
    <3>2. CASE k # n + 1
      <4>1. k \in 1..n /\ v[k] = w[k]
        BY <1>1, <3>2
      <4> QED BY <2>2, <4>1
    <3> QED BY <3>1, <3>2
  <2>5. ASSUME NEW k \in 1..(Len(v) - 1) PROVE Gap(c, v[k].upto, From(v[k + 1]))
    <3>1. k \in 1..n /\ v[k] = w[k]
      BY <1>1
    <3>2. CASE k = n
      <4>1. v[k + 1] = f /\ w[k].upto = last
        BY <1>1, <2>2, <3>2
      <4> QED BY <3>1, <4>1
    <3>3. CASE k # n
      <4>1. k \in 1..(n - 1) /\ k + 1 \in 1..n
        BY <1>1, <3>1, <3>3
      <4>2. v[k + 1] = w[k + 1]
        BY <1>1, <4>1
      <4> QED BY <2>2, <3>1, <4>1, <4>2
    <3> QED BY <3>2, <3>3
  <2>6. v[Len(v)].upto = f.upto
    BY <1>1
  <2>7. Chain(v, c, x, f.upto, top)
    BY <1>2, <2>3, <2>4, <2>5, <2>6, Zenon DEF Chain
  <2> QED BY <2>7 DEF v
<1> QED
  BY <1>3, <1>4

\* It is taken in from its head.
LEMMA ChainTail ==
    ASSUME NEW w \in Seq(Snapshots), w # <<>>, NEW c, NEW x, NEW last, NEW top,
           Chain(w, c, x, last, top)
    PROVE  Chain(Tail(w), c, w[1].upto, last, top)
<1> DEFINE v == Tail(w)
           n == Len(w)
<1>1. /\ n \in Nat /\ n > 0 /\ Len(v) = n - 1 /\ v \in Seq(Snapshots)
      /\ \A j \in 1..(n - 1) : v[j] = w[j + 1]
  <2> HIDE DEF Snapshots
  <2>1. n \in Nat /\ n > 0
    BY EmptySeq, LenProperties
  <2> QED BY <2>1, HeadTailProperties
<1>2. /\ \A k \in 1..n : Clear(c, From(w[k]), w[k].upto) /\ w[k].upto <= top
      /\ \A k \in 1..(n - 1) : Gap(c, w[k].upto, From(w[k + 1]))
      /\ w[n].upto = last
  BY DEF Chain
<1>3. CASE v = <<>>
  <2>1. n = 1
    <3> HIDE DEF v, n
    <3>1. Len(v) = 0
      BY <1>3
    <3> QED BY <1>1, <3>1
  <2> QED BY <1>2, <1>3, <2>1 DEF Chain
<1>4. CASE v # <<>>
  <2>1. n > 1
    <3>1. Len(v) # 0
      BY <1>1, <1>4, EmptySeq
    <3> QED BY <1>1, <3>1
  <2> HIDE DEF v, n
  <2>2. Gap(c, w[1].upto, From(v[1]))
    <3>1. 1 \in 1..(n - 1) /\ 1 + 1 = 2
      BY <1>1, <2>1
    <3>2. v[1] = w[1 + 1]
      BY <1>1, <3>1
    <3> QED BY <1>2, <3>1, <3>2
  <2>3. \A k \in 1..Len(v) : Clear(c, From(v[k]), v[k].upto) /\ v[k].upto <= top
    <3> TAKE k \in 1..Len(v)
    <3>1. k + 1 \in 1..n /\ v[k] = w[k + 1]
      BY <1>1
    <3> QED BY <1>2, <3>1
  <2>4. \A k \in 1..(Len(v) - 1) : Gap(c, v[k].upto, From(v[k + 1]))
    <3> TAKE k \in 1..(Len(v) - 1)
    <3>1. k + 1 \in 1..(n - 1) /\ v[k] = w[k + 1] /\ v[k + 1] = w[(k + 1) + 1]
      BY <1>1
    <3> QED BY <1>2, <3>1
  <2>5. v[Len(v)].upto = last
    <3>1. Len(v) \in 1..(n - 1) /\ Len(v) + 1 = n
      BY <1>1, <2>1
    <3>2. v[Len(v)] = w[n]
      BY <1>1, <3>1
    <3> QED BY <1>2, <3>2
  <2>6. Chain(v, c, w[1].upto, last, top)
    BY <1>4, <2>2, <2>3, <2>4, <2>5, Zenon DEF Chain
  <2> QED BY <2>6 DEF v
<1> QED
  BY <1>3, <1>4

\* The chain's gaps grow with what is forgotten.
LEMMA ChainGrows ==
    ASSUME Types, [Next]_vars, ~(Respawn \/ Restart), NEW w \in Seq(Snapshots), NEW x \in Nat,
           NEW last, Chain(w, cut, x, last, Settled)
    PROVE  Chain(w, cut', x, last, Settled')
<1>1. Settled \in Nat /\ Settled' \in Nat /\ Settled <= Settled'
  BY Within DEF Types
<1>2. CASE w = <<>>
  BY <1>2 DEF Chain
<1>3. CASE w # <<>>
  <2>1. \A k \in 1..Len(w) : From(w[k]) \in Int /\ w[k].upto \in Int
    <3>1. \A k \in 1..Len(w) : w[k] \in Snapshots
      <4> HIDE DEF Snapshots
      <4> QED BY ElementOfSeq
    <3>2. \A f \in Snapshots : From(f) \in Int /\ f.upto \in Int
      BY SnapshotIds
    <3> QED BY <3>1, <3>2
  <2>2. Len(w) \in Nat /\ Len(w) > 0
    <3> HIDE DEF Snapshots
    <3> QED BY <1>3, EmptySeq, LenProperties
  <2>3. /\ Gap(cut, x, From(w[1]))
        /\ \A k \in 1..Len(w) : Clear(cut, From(w[k]), w[k].upto) /\ w[k].upto <= Settled
        /\ \A k \in 1..(Len(w) - 1) : Gap(cut, w[k].upto, From(w[k + 1]))
        /\ w[Len(w)].upto = last
    BY <1>3 DEF Chain
  <2>4. Gap(cut', x, From(w[1]))
    <3>1. 1 \in 1..Len(w)
      BY <2>2
    <3>2. From(w[1]) \in Int
      BY <2>1, <3>1
    <3> QED BY <2>3, <3>2, Grows DEF Types
  <2>5. ASSUME NEW k \in 1..Len(w) PROVE Clear(cut', From(w[k]), w[k].upto) /\ w[k].upto <= Settled'
    <3>1. From(w[k]) \in Int /\ w[k].upto \in Int
      BY <2>1
    <3>2. Clear(cut, From(w[k]), w[k].upto) /\ w[k].upto <= Settled
      BY <2>3
    <3>3. Clear(cut', From(w[k]), w[k].upto)
      BY <3>1, <3>2, Grows DEF Types
    <3> QED BY <1>1, <3>1, <3>2, <3>3
  <2>6. ASSUME NEW k \in 1..(Len(w) - 1) PROVE Gap(cut', w[k].upto, From(w[k + 1]))
    <3>1. k \in 1..Len(w) /\ k + 1 \in 1..Len(w)
      BY <2>2
    <3>2. w[k].upto \in Int /\ From(w[k + 1]) \in Int
      BY <2>1, <3>1
    <3> QED BY <2>3, <3>2, Grows DEF Types
  <2> QED BY <1>3, <2>3, <2>4, <2>5, <2>6, Zenon DEF Chain
<1> QED
  BY <1>2, <1>3

\* A page that was just served follows if it was served with this run's snapshot.
LEMMA FollowOpen ==
    ASSUME Types, ChainInv, OpenPage, [Next]_vars
    PROVE  FollowInv'
<1>1. /\ Unopened /\ pageRun' = run /\ base' = From(latest) /\ followed' = (latest.run = run)
      /\ droppedRows' = 0 /\ recent' = Ingested(<<>>, latest.rows) /\ seqCounter = 0
      /\ latest # Nothing
  BY OpenFacts DEF Types
<1>2. latest.rows \in Seq(Rows) /\ From(latest) \in Nat
  BY <1>1, BootFacts DEF Types
<1>3. latest' = latest /\ run' = run /\ wire' = wire /\ wire = Nothing
  BY <1>1 DEF OpenPage, Unopened, server, probe
<1>4. pageRun' # Nothing
  BY <1>1, RunIsNot DEF Types, ProbeInv
<1>5. Ids(recent') \subseteq Ids(latest.rows)
  <2> DEFINE kept == <<>>
  <2>1. kept \in Seq(PageRows) /\ Len(kept) = 0 /\ Ids(kept) = {}
    BY DEF Ids
  <2>2. \A j \in 1..Len(kept) : kept[j].seq = seqCounter - Len(kept) + j
    BY <2>1
  <2>3. recent' = Ingested(kept, latest.rows)
    BY <1>1
  <2> HIDE DEF kept
  <2>4. seqCounter \in Nat /\ Len(kept) <= seqCounter
    BY <1>1, <2>1
  <2>5. Ids(Ingested(kept, latest.rows)) \subseteq Ids(kept) \cup Ids(latest.rows)
    BY <1>2, <2>1, <2>2, <2>4, IdsIngested
  <2> QED BY <2>1, <2>3, <2>5
<1>6. ASSUME followed'
      PROVE  /\ latest' # Nothing => latest'.run = run'
             /\ base' = IF latest' = Nothing THEN 0 ELSE From(latest')
             /\ Ids(recent') \subseteq IF latest' = Nothing THEN {} ELSE Ids(latest'.rows)
  BY <1>1, <1>3, <1>5, <1>6
<1>7. base' \in Nat
  BY <1>1, <1>2
<1>8. Ids(recent)' = Ids(recent')
  BY DEF Ids
<1>9. Ids(latest.rows)' = Ids(latest'.rows) /\ From(latest)' = From(latest')
  BY DEF Ids, From
<1> QED
  BY <1>1, <1>3, <1>4, <1>6, <1>7, <1>8, <1>9, Zenon DEF FollowInv

\* A page that connects is primed with what it was served with.
LEMMA FollowConnect ==
    ASSUME Types, ChainInv, FollowInv, Connect, [Next]_vars
    PROVE  FollowInv'
<1> SUFFICES ASSUME followed' PROVE FollowInv'
  BY DEF FollowInv
<1>1. /\ UNCHANGED <<run, lastId, waiting, lane, latest, recent, droppedRows, cut, base, followed, pageRun>>
      /\ wire = Nothing /\ pageRun # Nothing
      /\ wire' = IF latest = Nothing THEN <<>> ELSE <<latest>>
  BY DEF Connect, probe, server, rowLog
<1>2. /\ latest # Nothing => latest.run = run
      /\ base \in Nat /\ droppedRows = 0
      /\ base = IF latest = Nothing THEN 0 ELSE From(latest)
      /\ Ids(recent) \subseteq IF latest = Nothing THEN {} ELSE Ids(latest.rows)
  BY <1>1 DEF FollowInv
<1>3. wire' # Nothing
  <2>1. wire' \in Seq(Snapshots)
    <3>1. latest # Nothing => latest \in Snapshots
      BY DEF Types, ServerInv
    <3> HIDE DEF Snapshots
    <3> QED BY <1>1, <3>1
  <2> QED BY <2>1, FramesAreNot
<1>4. ReceivedTo \in Nat /\ Settled \in Nat /\ ReceivedTo <= Settled
  BY ReceivedSettled
<1>5. ReceivedTo' = ReceivedTo /\ Settled' = Settled
  BY <1>1 DEF ReceivedTo, Settled
<1>6. /\ base <= Settled /\ Chain(wire', cut, base, ReceivedTo, Settled)
      /\ \A i \in Ids(recent) : base < i /\ wire' # <<>> /\ i \in Ids(wire'[1].rows)
  <2>1. CASE latest = Nothing
    <3>1. wire' = <<>> /\ base = 0 /\ ReceivedTo = 0 /\ Ids(recent) = {}
      BY <1>1, <1>2, <2>1 DEF ReceivedTo
    <3>2. Chain(<<>>, cut, 0, 0, Settled)
      BY DEF Chain
    <3> QED BY <1>4, <3>1, <3>2
  <2>2. CASE latest # Nothing
    <3>1. wire' = <<latest>> /\ base = From(latest) /\ ReceivedTo = latest.upto /\ latest.run = run
      BY <1>1, <1>2, <2>2 DEF ReceivedTo
    <3>2. latest \in Snapshots
      BY <2>2 DEF Types, ServerInv
    <3>3. Clear(cut, From(latest), latest.upto)
      BY <2>2, <3>1 DEF ChainInv
    <3>4. /\ From(latest) \in Nat /\ latest.upto \in Nat /\ From(latest) <= latest.upto
          /\ \A i \in Ids(latest.rows) : From(latest) < i
      BY <2>2, <3>2, SnapshotIds, ReceivedToFacts DEF Types
    <3>5. latest.upto <= Settled
      BY <1>4, <3>1
    <3>6. Chain(<<latest>>, cut, From(latest), latest.upto, Settled)
      BY <1>4, <3>2, <3>3, <3>5, ChainOne
    <3>7. base <= Settled
      BY <1>4, <3>1, <3>4, <3>5
    <3>8. <<latest>> # <<>> /\ <<latest>>[1] = latest
      BY PairFacts
    <3>9. wire' # <<>> /\ wire'[1] = latest
      BY <3>1, <3>8
    <3>10. Ids(recent) \subseteq Ids(latest.rows)
      BY <1>2, <2>2
    <3>11. ASSUME NEW i \in Ids(recent) PROVE base < i /\ i \in Ids(wire'[1].rows)
      <4>1. i \in Ids(latest.rows)
        BY <3>10
      <4> QED BY <3>1, <3>4, <3>9, <4>1
    <3>12. Chain(wire', cut, base, ReceivedTo, Settled)
      BY <3>1, <3>6, Zenon
    <3> QED BY <3>7, <3>9, <3>11, <3>12
  <2> QED BY <2>1, <2>2
<1>7. Cardinality(Behind(base)) = 0 /\ Cardinality(Forgotten(cut, base, base)) = 0
  <2>1. \A i \in Ids(recent) : ~(i <= base)
    <3>1. Ids(recent) \subseteq Nat
      BY IdsFinite DEF Types, LogInv
    <3> QED BY <1>2, <1>6, <3>1
  <2>2. Behind(base) = {}
    BY <2>1 DEF Behind
  <2>3. cut \subseteq Nat
    <3>1. cut \subseteq 1..Settled
      BY DEF Types, ProbeInv
    <3> QED BY <1>4, <3>1
  <2>4. \A i \in cut : ~(base < i /\ i <= base)
    BY <1>2, <2>3
  <2>5. Forgotten(cut, base, base) = {}
    BY <2>4 DEF Forgotten
  <2> QED BY <2>2, <2>5, FS_EmptySet
<1>8. Tally(base)'
  <2>1. 0 + 0 + 0 = base - base
    BY <1>2
  <2>2. Behind(base)' = Behind(base) /\ Forgotten(cut, base, base)' = Forgotten(cut, base, base)
    BY <1>1 DEF Behind, Forgotten, Ids
  <2>3. Cardinality(Behind(base)') + droppedRows' + Cardinality(Forgotten(cut, base, base)')
          = base' - base'
    BY <1>1, <1>2, <1>7, <2>1, <2>2
  <2> QED BY <2>3 DEF Tally
<1>9. \E x \in Nat : Reached(x)'
  <2>1. Ids(recent)' = Ids(recent)
    BY <1>1 DEF Ids
  <2> SUFFICES Reached(base)'
    BY <1>1, <1>2
  <2>2. Ids(wire[1].rows)' = Ids(wire'[1].rows)
    BY DEF Ids
  <2>3. Chain(wire, cut, base, ReceivedTo, Settled)' = Chain(wire', cut', base', ReceivedTo', Settled')
    BY DEF Chain, From
  <2>4. base' <= base' /\ base' <= Settled'
    BY <1>1, <1>2, <1>5, <1>6
  <2>5. Chain(wire', cut', base', ReceivedTo', Settled')
    BY <1>1, <1>5, <1>6
  <2>6. \A i \in Ids(recent)' : wire' # <<>> /\ i \in Ids(wire'[1].rows)
    BY <1>6, <2>1
  <2> QED BY <1>8, <2>2, <2>3, <2>4, <2>5, <2>6, Zenon DEF Reached
<1>10. (latest' # Nothing => latest'.run = run') /\ base' \in Nat /\ pageRun' # Nothing
  BY <1>1, <1>2
<1> QED
  BY <1>3, <1>9, <1>10 DEF FollowInv

\* A snapshot that is taken in brings the page as far as the snapshot goes.
LEMMA FollowApply ==
    ASSUME Types, ChainInv, FollowInv, Apply, [Next]_vars
    PROVE  FollowInv'
<1> SUFFICES ASSUME followed' PROVE FollowInv'
  BY DEF FollowInv
<1> DEFINE f == wire[1]
           u == f.upto
<1>0. Types'
  BY TypesStep
<1>1. /\ UNCHANGED <<run, lastId, waiting, lane, latest, cut, base, followed, pageRun>>
      /\ wire' = Tail(wire)
  BY DEF Apply, probe, server, history
<1>2. /\ wire \in Seq(Snapshots) /\ wire # <<>> /\ wire # Nothing /\ pageRun # Nothing
      /\ f \in Snapshots /\ f.rows \in Seq(Rows)
      /\ recent' = Ingested(recent, f.rows)
      /\ droppedRows' = droppedRows + f.recentDropped
  BY ApplyFacts DEF Types
<1>3. PICK x \in Nat : Reached(x)
  BY <1>1, <1>2 DEF FollowInv
<1>4. /\ base <= x /\ x <= Settled /\ Chain(wire, cut, x, ReceivedTo, Settled)
      /\ \A i \in Ids(recent) : i <= x \/ i \in Ids(f.rows)
  BY <1>3 DEF Reached
<1>5. base \in Nat /\ (latest # Nothing => latest.run = run)
  BY <1>1 DEF FollowInv
<1>6. ReceivedTo' = ReceivedTo /\ Settled' = Settled /\ ReceivedTo \in Nat /\ Settled \in Nat
  <2>1. ReceivedTo' = ReceivedTo /\ Settled' = Settled
    BY <1>1 DEF ReceivedTo, Settled
  <2> QED BY <2>1, ReceivedSettled
<1>7. /\ From(f) \in Nat /\ u \in Nat /\ f.recentDropped \in Nat /\ Len(f.rows) \in Nat
      /\ u = From(f) + Len(f.rows) + f.recentDropped
      /\ \A i \in Ids(f.rows) : i \in Int /\ From(f) < i /\ i <= u
      /\ IsFiniteSet(Ids(f.rows)) /\ Cardinality(Ids(f.rows)) = Len(f.rows)
  BY <1>2, SnapshotIds
<1>8. Gap(cut, x, From(f)) /\ Clear(cut, From(f), u) /\ u <= Settled
  <2>1. 1 \in 1..Len(wire)
    <3>1. Len(wire) \in Nat /\ Len(wire) # 0
      <4> HIDE DEF Snapshots
      <4> QED BY <1>2, EmptySeq, LenProperties
    <3> QED BY <3>1
  <2> QED BY <1>2, <1>4, <2>1 DEF Chain
<1>9. x <= From(f) /\ From(f) <= u
  BY <1>7, <1>8 DEF Gap
<1>10. Chain(wire', cut, u, ReceivedTo, Settled)
  BY <1>1, <1>2, <1>4, ChainTail
<1>11. wire' # Nothing
  <2>1. wire' \in Seq(Snapshots)
    <3> HIDE DEF Snapshots
    <3> QED BY <1>1, <1>2, EmptySeq, HeadTailProperties
  <2> QED BY <2>1, FramesAreNot
<1>12. /\ recent \in Seq(PageRows) /\ seqCounter \in Nat /\ Len(recent) <= seqCounter
       /\ \A j \in 1..Len(recent) : recent[j].seq = seqCounter - Len(recent) + j
       /\ droppedRows \in Nat
  BY DEF Types, LogInv
<1> HIDE DEF f, u
<1>13. /\ Ids(recent') \subseteq Ids(recent) \cup Ids(f.rows)
       /\ Len(recent') < RecentMax => /\ Len(recent) < RecentMax
                                      /\ Ids(recent') = Ids(recent) \cup Ids(f.rows)
  BY <1>2, <1>12, IdsIngested, Zenon
<1>14. IsFiniteSet(Ids(recent)) /\ Ids(recent) \subseteq Nat
  BY <1>12, IdsFinite
<1>15. \A i \in Ids(recent') : i <= u
  <2> TAKE i \in Ids(recent')
  <2>1. CASE i \in Ids(f.rows)
    BY <1>7, <2>1
  <2>2. CASE i \notin Ids(f.rows)
    <3>1. i \in Ids(recent) /\ i <= x
      BY <1>4, <1>13, <2>2
    <3>2. i \in Nat
      BY <1>14, <3>1
    <3> QED BY <1>7, <1>9, <3>1, <3>2
  <2> QED BY <2>1, <2>2
<1>16. ASSUME Len(recent') < RecentMax
       PROVE  Cardinality(Ids(recent')) + droppedRows' + Cardinality(Forgotten(cut, base, u)) = u - base
  <2> DEFINE A == Behind(x)
             B == Ids(f.rows)
  <2>1. Ids(recent') = A \cup B
    <3>1. Ids(recent') = Ids(recent) \cup B
      BY <1>13, <1>16
    <3>2. \A i \in Ids(recent) : i \in A \/ i \in B
      BY <1>4 DEF Behind
    <3>3. A \subseteq Ids(recent)
      BY DEF Behind
    <3> QED BY <3>1, <3>2, <3>3
  <2>2. A \cap B = {}
    <3>1. \A i \in B : ~(i <= x)
      BY <1>7, <1>9
    <3> QED BY <3>1 DEF Behind
  <2>3. IsFiniteSet(A)
    <3>1. A \in SUBSET Ids(recent)
      BY DEF Behind
    <3> QED BY <1>14, <3>1, FS_Subset
  <2>4. Cardinality(A \cup B) = Cardinality(A) + Cardinality(B) - Cardinality(A \cap B)
    BY <1>7, <2>3, FS_Union
  <2>5. Cardinality(A) \in Nat /\ Cardinality({}) = 0
    BY <2>3, FS_CardinalityType, FS_EmptySet
  <2>6. Cardinality(A) + droppedRows + Cardinality(Forgotten(cut, base, x)) = x - base
    BY <1>3, <1>13, <1>16 DEF Reached, Tally
  <2>7. /\ Cardinality(Forgotten(cut, base, u)) = Cardinality(Forgotten(cut, base, x)) + (From(f) - x)
        /\ Cardinality(Forgotten(cut, base, x)) \in Nat
    <3>1. cut \in SUBSET Nat /\ IsFiniteSet(cut)
      <4>1. cut \subseteq 1..Settled
        BY DEF Types, ProbeInv
      <4>2. IsFiniteSet(1..Settled)
        BY <1>6, FS_Interval
      <4>3. 1..Settled \subseteq Nat
        OBVIOUS
      <4> QED BY <4>1, <4>2, <4>3, FS_Subset
    <3> QED BY <1>3, <1>4, <1>5, <1>7, <1>8, <1>9, <3>1, ForgottenSplit
  <2> DEFINE a == Cardinality(A)
             b == Cardinality(Forgotten(cut, base, x))
             n == Len(f.rows)
             d == f.recentDropped
             g == From(f)
             r == droppedRows
  <2>8. Cardinality(Ids(recent')) = a + n - 0
    BY <1>7, <2>1, <2>2, <2>4, <2>5
  <2>9. a \in Nat /\ b \in Nat /\ n \in Nat /\ d \in Nat /\ a + droppedRows + b = x - base
        /\ u = From(f) + n + d /\ droppedRows' = droppedRows + d
        /\ Cardinality(Forgotten(cut, base, u)) = b + (From(f) - x)
    BY <1>2, <1>7, <2>5, <2>6, <2>7 DEF f
  <2>10. /\ a \in Nat /\ b \in Nat /\ n \in Nat /\ d \in Nat /\ g \in Nat /\ r \in Nat
         /\ x \in Nat /\ base \in Nat /\ a + r + b = x - base /\ u = g + n + d
    BY <1>3, <1>5, <1>7, <1>12, <2>9
  <2> HIDE DEF a, b, n, d, g, r
  <2>11. (a + n - 0) + (r + d) + (b + (g - x)) = u - base
    BY <2>10
  <2> QED BY <2>8, <2>9, <2>11 DEF g, r
<1>17. PICK y \in Nat : y = u
  BY <1>7
<1>18. Tally(y)'
  <2>1. Behind(y)' = Ids(recent')
    <3>1. Behind(y)' = {i \in Ids(recent') : i <= y}
      BY DEF Behind, Ids
    <3> QED BY <1>15, <1>17, <3>1
  <2>2. Forgotten(cut, base, y)' = Forgotten(cut, base, u)
    BY <1>1, <1>17 DEF Forgotten
  <2>3. Len(recent') < RecentMax =>
          Cardinality(Behind(y)') + droppedRows' + Cardinality(Forgotten(cut, base, y)') = y - base'
    BY <1>1, <1>16, <1>17, <2>1, <2>2
  <2> QED BY <2>3 DEF Tally
<1>19. Reached(y)'
  <2>1. Ids(recent)' = Ids(recent')
    BY DEF Ids
  <2>2. base' <= y /\ y <= Settled'
    BY <1>1, <1>3, <1>4, <1>5, <1>6, <1>7, <1>8, <1>9, <1>17
  <2>3. Chain(wire, cut, y, ReceivedTo, Settled)'
    <3>1. Chain(wire, cut, y, ReceivedTo, Settled)' = Chain(wire', cut', y, ReceivedTo', Settled')
      BY DEF Chain, From
    <3> QED BY <1>1, <1>6, <1>10, <1>17, <3>1
  <2>4. \A i \in Ids(recent)' : i <= y
    BY <1>15, <1>17, <2>1
  <2> QED BY <1>18, <2>2, <2>3, <2>4, Zenon DEF Reached
<1>20. (latest' # Nothing => latest'.run = run') /\ base' \in Nat /\ pageRun' # Nothing
  BY <1>1, <1>2, <1>5
<1> QED
  BY <1>11, <1>17, <1>19, <1>20, Zenon DEF FollowInv

\* What is sent to a page that is connected goes to the end of its chain.
LEMMA FollowBroadcast ==
    ASSUME Types, ChainInv, FollowInv, Broadcast, [Next]_vars
    PROVE  FollowInv'
<1> SUFFICES ASSUME followed' PROVE FollowInv'
  BY DEF FollowInv
<1> DEFINE f == lane[1]
<1>1. /\ UNCHANGED <<run, lastId, waiting, recent, droppedRows, cut, base, pageRun>>
      /\ followed /\ wire # Nothing /\ wire' = Append(wire, f)
  BY DEF Broadcast, probe, rowLog
<1>2. lane = <<f>> /\ f \in Frames /\ latest' = f
  BY Received DEF Types
<1>3. Coming = f /\ lane # <<>>
  BY <1>2, ComingIs
<1>4. /\ f \in Snapshots /\ From(f) \in Nat /\ f.upto \in Nat /\ f.upto <= Settled /\ f.run = run
      /\ Gap(cut, ReceivedTo, From(f)) /\ Clear(cut, From(f), f.upto)
  <2>1. OnTheWay(Coming) /\ Coming \in Frames
    BY <1>3, ComingFacts DEF Types
  <2>2. Gap(cut, ReceivedTo, From(Coming)) /\ Clear(cut, From(Coming), Coming.upto)
    BY <1>3 DEF ChainInv
  <2> HIDE DEF f
  <2> QED BY <1>3, <2>1, <2>2, OnTheWayFacts
<1>5. /\ pageRun # Nothing /\ base \in Nat /\ \E x \in Nat : Reached(x)
  BY <1>1 DEF FollowInv
<1>6. PICK x \in Nat : Reached(x)
  BY <1>5
<1>7. ReceivedTo \in Nat /\ Settled \in Nat
  BY ReceivedSettled
<1>8. /\ latest' # Nothing /\ latest'.run = run' /\ ReceivedTo' = f.upto /\ Settled' = Settled
  <2>1. f # Nothing
    BY <1>2, FramesAreNot
  <2>2. latest' # Nothing /\ latest'.run = run' /\ latest'.upto = f.upto
    BY <1>1, <1>2, <1>4, <2>1
  <2>3. ReceivedTo' = f.upto
    BY <2>2 DEF ReceivedTo
  <2> QED BY <1>1, <2>2, <2>3 DEF Settled
<1>9. wire \in Seq(Snapshots)
  BY <1>1 DEF Types, ServerInv
<1>10. wire' \in Seq(Snapshots) /\ wire' # <<>> /\ (wire # <<>> => wire'[1] = wire[1])
  <2>1. /\ Len(wire) \in Nat /\ Len(wire') = Len(wire) + 1 /\ wire' \in Seq(Snapshots)
        /\ \A j \in 1..Len(wire) : wire'[j] = wire[j]
    <3> HIDE DEF Snapshots, f
    <3> QED BY <1>1, <1>4, <1>9, AppendProperties, LenProperties
  <2>2. wire # <<>> => 1 \in 1..Len(wire)
    <3>1. wire # <<>> => Len(wire) # 0
      <4> HIDE DEF Snapshots
      <4> QED BY <1>9, EmptySeq
    <3> QED BY <2>1, <3>1
  <2>3. wire' # <<>>
    BY <2>1
  <2> QED BY <2>1, <2>2, <2>3
<1>11. Chain(wire', cut, x, f.upto, Settled)
  <2>1. Chain(wire, cut, x, ReceivedTo, Settled)
    BY <1>6 DEF Reached
  <2> HIDE DEF f
  <2> QED BY <1>1, <1>4, <1>6, <1>7, <1>9, <2>1, ChainAppend
<1>12. wire' # Nothing
  BY <1>10, FramesAreNot
<1> HIDE DEF f
<1>13. Tally(x)'
  <2>1. Behind(x)' = Behind(x) /\ Forgotten(cut, base, x)' = Forgotten(cut, base, x)
    BY <1>1 DEF Behind, Ids, Forgotten
  <2>2. Tally(x)
    BY <1>6 DEF Reached
  <2> QED BY <1>1, <2>1, <2>2, Zenon DEF Tally
<1>14. Reached(x)'
  <2>1. Ids(recent)' = Ids(recent) /\ Ids(wire[1].rows)' = Ids(wire'[1].rows)
    BY <1>1 DEF Ids
  <2>2. Chain(wire, cut, x, ReceivedTo, Settled)'
    <3>1. Chain(wire, cut, x, ReceivedTo, Settled)' = Chain(wire', cut', x, ReceivedTo', Settled')
      BY DEF Chain, From
    <3> QED BY <1>1, <1>8, <1>11, <3>1
  <2>3. base' <= x /\ x <= Settled'
    BY <1>1, <1>6, <1>8 DEF Reached
  <2>4. \A i \in Ids(recent)' : i <= x \/ (wire' # <<>> /\ i \in Ids(wire[1].rows)')
    <3>1. \A i \in Ids(recent) : i <= x \/ (wire # <<>> /\ i \in Ids(wire[1].rows))
      BY <1>6 DEF Reached
    <3> QED BY <1>10, <2>1, <3>1, Zenon
  <2> QED BY <1>13, <2>2, <2>3, <2>4, Zenon DEF Reached
<1>15. base' \in Nat /\ pageRun' # Nothing
  BY <1>1, <1>5
<1> QED
  BY <1>6, <1>8, <1>12, <1>14, <1>15 DEF FollowInv

\* No other step touches the ledger, and what is forgotten later lies beyond it.
LEMMA FollowStays ==
    ASSUME Types, ChainInv, FollowInv, [Next]_vars, ~OpenPage, ~Connect, ~Apply, ~Broadcast
    PROVE  FollowInv'
<1> SUFFICES ASSUME followed' PROVE FollowInv'
  BY DEF FollowInv
<1>1. followed
  BY StepsTouch DEF Touched
<1>2. ~(Respawn \/ Restart)
  BY BegunProbe DEF Types
<1>3. run' = run /\ Settled \in Nat /\ Settled' \in Nat /\ Settled <= Settled'
  BY <1>2, Within DEF Types
<1>4. UNCHANGED <<wire, base, pageRun>>
  <2>1. ~Disconnect
    BY DEF Disconnect
  <2>2. UNCHANGED PageVars
    BY <2>1, StepsTouch DEF Touched, OnPage
  <2> QED BY <2>2 DEF PageVars
<1>5. UNCHANGED <<recent, droppedRows>>
  <2>1. ~ForgetRows
    BY DEF ForgetRows
  <2>2. UNCHANGED LogVars
    BY <2>1, StepsTouch DEF Touched, OnLog
  <2> QED BY <2>2 DEF LogVars
<1>6. latest' = latest
  <2>1. UNCHANGED ServerVars \/ ReceiveParts
    BY <1>2, StepsTouch DEF Touched, OnServer
  <2> QED BY <2>1 DEF ServerVars, ReceiveParts
<1>7. ReceivedTo' = ReceivedTo
  BY <1>3, <1>6 DEF ReceivedTo
<1>8. CASE wire = Nothing
  <2>1. Ids(recent)' = Ids(recent) /\ Ids(latest.rows)' = Ids(latest.rows) /\ From(latest)' = From(latest)
    BY <1>5, <1>6 DEF Ids, From
  <2>2. /\ pageRun # Nothing
        /\ latest # Nothing => latest.run = run
        /\ base \in Nat
        /\ droppedRows = 0
        /\ base = IF latest = Nothing THEN 0 ELSE From(latest)
        /\ Ids(recent) \subseteq IF latest = Nothing THEN {} ELSE Ids(latest.rows)
    BY <1>1, <1>8 DEF FollowInv
  <2> QED BY <1>3, <1>4, <1>5, <1>6, <1>8, <2>1, <2>2, Zenon DEF FollowInv
<1>9. CASE wire # Nothing
  <2>1. /\ pageRun # Nothing
        /\ latest # Nothing => latest.run = run
        /\ base \in Nat
        /\ \E x \in Nat : Reached(x)
    BY <1>1, <1>9 DEF FollowInv
  <2>2. PICK x \in Nat : Reached(x)
    BY <2>1
  <2>3. /\ base <= x /\ x <= Settled /\ Chain(wire, cut, x, ReceivedTo, Settled) /\ Tally(x)
        /\ \A i \in Ids(recent) : i <= x \/ (wire # <<>> /\ i \in Ids(wire[1].rows))
    BY <2>2 DEF Reached
  <2>4. wire \in Seq(Snapshots)
    BY <1>9 DEF Types, ServerInv
  <2>5. Chain(wire, cut', x, ReceivedTo, Settled')
    BY <1>2, <2>2, <2>3, <2>4, ChainGrows
  <2>6. Forgotten(cut', base, x) = Forgotten(cut, base, x)
    <3>1. cut \subseteq cut' /\ \A i \in cut' : i \in cut \/ Settled < i
      BY <1>2, CutSteps DEF Types
    <3>2. cut' \subseteq Int
      BY <1>2, CutSteps DEF Types
    <3>3. \A i \in cut' : i \in cut \/ ~(i <= x)
      BY <1>3, <2>2, <2>3, <3>1, <3>2
    <3> QED BY <3>1, <3>3 DEF Forgotten
  <2>7. Tally(x)'
    <3>1. Behind(x)' = Behind(x)
      BY <1>5 DEF Behind, Ids
    <3>2. Forgotten(cut, base, x)' = Forgotten(cut', base, x)
      BY <1>4 DEF Forgotten
    <3> QED BY <1>4, <1>5, <2>3, <2>6, <3>1, <3>2, Zenon DEF Tally
  <2>8. Reached(x)'
    <3>1. Ids(recent)' = Ids(recent) /\ Ids(wire[1].rows)' = Ids(wire[1].rows)
      BY <1>4, <1>5 DEF Ids
    <3>2. Chain(wire, cut, x, ReceivedTo, Settled)'
      <4>1. Chain(wire, cut, x, ReceivedTo, Settled)' = Chain(wire', cut', x, ReceivedTo', Settled')
        BY DEF Chain, From
      <4> QED BY <1>4, <1>7, <2>5, <4>1
    <3>3. base' <= x /\ x <= Settled'
      BY <1>3, <1>4, <2>1, <2>2, <2>3
    <3>4. \A i \in Ids(recent)' : i <= x \/ (wire' # <<>> /\ i \in Ids(wire[1].rows)')
      BY <1>4, <2>3, <3>1, Zenon
    <3> QED BY <2>7, <3>2, <3>3, <3>4, Zenon DEF Reached
  <2> QED BY <1>3, <1>4, <1>6, <1>9, <2>1, <2>2, <2>8, Zenon DEF FollowInv
<1> QED
  BY <1>8, <1>9

\* Every step keeps the ledger.
LEMMA FollowHolds ==
    ASSUME Types, ChainInv, FollowInv, [Next]_vars
    PROVE  FollowInv'
BY FollowOpen, FollowConnect, FollowApply, FollowBroadcast, FollowStays

\* The chain and the ledger are right at first.
LEMMA FollowInit ==
    ASSUME Init
    PROVE  ChainInv /\ FollowInv
<1>1. latest = Nothing /\ lane = <<>> /\ lastId = 0 /\ waiting = <<>> /\ cut = {} /\ followed = FALSE
  BY DEF Init
<1>2. ReceivedTo = 0 /\ Settled = 0
  <2>1. Len(waiting) = 0
    BY <1>1, EmptySeq
  <2>2. Settled = lastId - Len(waiting)
    BY DEF Settled
  <2> QED BY <1>1, <2>1, <2>2 DEF ReceivedTo
<1>3. Gap(cut, ReceivedTo, Settled)
  BY <1>2, GapFacts
<1> QED
  BY <1>1, <1>3 DEF ChainInv, FollowInv

-----------------------------------------------------------------------------
\* They always are.
LEMMA FollowAlways == Spec => [](Types /\ ChainInv /\ FollowInv)
<1>1. Init => Types /\ ChainInv /\ FollowInv
  BY TypesInit, FollowInit
<1>2. Types /\ ChainInv /\ FollowInv /\ [Next]_vars => (Types /\ ChainInv /\ FollowInv)'
  BY TypesStep, ChainHolds, FollowHolds
<1> QED
  BY <1>1, <1>2, PTL DEF Spec

\* When all has arrived, the ledger is what the heading says.
LEMMA FollowGives ==
    ASSUME Types, ChainInv, FollowInv
    PROVE  TailExplained
<1> SUFFICES ASSUME followed, wire = <<>>, lane = <<>>, Len(recent) < RecentMax
             PROVE  Cardinality({r.id : r \in ToSet(recent)}) + droppedRows
                       + Cardinality({i \in cut : i > base}) = lastId - Len(waiting) - base
  BY DEF TailExplained
<1>1. wire # Nothing
  <2>1. wire \in Seq(Snapshots)
    <3> HIDE DEF Snapshots
    <3> QED OBVIOUS
  <2> QED BY <2>1, FramesAreNot
<1>2. PICK x \in Nat : Reached(x)
  BY <1>1 DEF FollowInv
<1>3. base \in Nat
  BY DEF FollowInv
<1>4. /\ base <= x /\ x <= Settled /\ x = ReceivedTo /\ \A i \in Ids(recent) : i <= x
      /\ Cardinality(Behind(x)) + droppedRows + Cardinality(Forgotten(cut, base, x)) = x - base
  BY <1>2 DEF Reached, Chain, Tally
<1>5. Gap(cut, ReceivedTo, Settled) /\ Settled \in Nat
  BY ReceivedSettled DEF ChainInv
<1>6. cut \subseteq 1..Settled /\ recent \in Seq(PageRows) /\ droppedRows \in Nat
  BY DEF Types, ProbeInv, LogInv
<1>7. {r.id : r \in ToSet(recent)} = Behind(x)
  <2>1. ToSet(recent) = In(recent)
    BY <1>6, InSet
  <2>2. {r.id : r \in In(recent)} = Ids(recent)
    BY DEF In, Ids
  <2>3. Behind(x) = Ids(recent)
    BY <1>4 DEF Behind
  <2> QED BY <2>1, <2>2, <2>3
<1>8. {i \in cut : i > base} = Forgotten(cut, base, Settled)
  <2>1. \A i \in cut : i \in Int /\ i <= Settled
    BY <1>5, <1>6
  <2>2. \A i \in cut : i > base <=> (base < i /\ i <= Settled)
    BY <1>3, <2>1
  <2> QED BY <2>2 DEF Forgotten
<1>9. /\ Cardinality(Forgotten(cut, base, Settled)) = Cardinality(Forgotten(cut, base, x)) + (Settled - x)
      /\ Cardinality(Forgotten(cut, base, x)) \in Nat
  <2>1. cut \in SUBSET Nat /\ IsFiniteSet(cut)
    <3>1. IsFiniteSet(1..Settled) /\ 1..Settled \subseteq Nat
      BY <1>5, FS_Interval
    <3> QED BY <1>6, <3>1, FS_Subset
  <2>2. Clear(cut, Settled, Settled) /\ Settled <= Settled
    BY <1>5, <2>1 DEF Clear
  <2>3. Gap(cut, x, Settled)
    BY <1>4, <1>5
  <2> QED BY <1>2, <1>3, <1>4, <1>5, <2>1, <2>2, <2>3, ForgottenSplit
<1>10. IsFiniteSet(Behind(x)) /\ Cardinality(Behind(x)) \in Nat
  <2>1. IsFiniteSet(Ids(recent))
    BY <1>6, IdsFinite
  <2>2. Behind(x) \in SUBSET Ids(recent)
    BY DEF Behind
  <2> QED BY <2>1, <2>2, FS_Subset, FS_CardinalityType
<1> DEFINE a == Cardinality(Behind(x))
           b == Cardinality(Forgotten(cut, base, x))
           e == Settled
           r == droppedRows
<1>11. /\ a \in Nat /\ b \in Nat /\ e \in Nat /\ r \in Nat /\ x \in Nat
       /\ a + r + b = x - base
  BY <1>2, <1>4, <1>5, <1>6, <1>9, <1>10
<1> HIDE DEF a, b, e, r
<1>12. a + r + (b + (e - x)) = e - base
  BY <1>3, <1>11
<1> QED
  BY <1>7, <1>8, <1>9, <1>12 DEF a, b, e, r, Settled

\* A page that has missed nothing can account for each exchange that was drained since its
\* log begins: it is in the log, or counted, or it was forgotten before it was shipped.
THEOREM TailIsExplained == Spec => []TailExplained
BY FollowAlways, FollowGives, PTL

-----------------------------------------------------------------------------
(* The budget.                                                               *)

\* A part of a set costs no more than the set.
LEMMA SumPart ==
    ASSUME NEW f, NEW S, IsFiniteSet(S), \A x \in S : f[x] \in Nat, NEW T \in SUBSET S
    PROVE  /\ SumFunctionOnSet(f, T) <= SumFunctionOnSet(f, S)
           /\ SumFunctionOnSet(f, T) \in Nat /\ SumFunctionOnSet(f, S) \in Nat
<1>1. IsFiniteSet(T) /\ IsFiniteSet(S \ T)
  BY FS_Subset, FS_Difference
<1>2. \A x \in S : f[x] \in Int
  OBVIOUS
<1>3. SumFunctionOnSet(f, S) = SumFunctionOnSet(f, T) + SumFunctionOnSet(f, S \ T)
  BY <1>2, SumSplit
<1>4. SumFunctionOnSet(f, T) \in Nat /\ SumFunctionOnSet(f, S \ T) \in Nat
      /\ SumFunctionOnSet(f, S) \in Nat
  <2>1. (\A x \in T : f[x] \in Nat) /\ (\A x \in S \ T : f[x] \in Nat)
    OBVIOUS
  <2> QED BY <1>1, <2>1, SumNat
<1> QED
  BY <1>3, <1>4

ImageOf(e, S) == {e[x] : x \in S}
\* What is summed over a set may be summed over the places where its elements are.
LEMMA SumImage ==
    ASSUME NEW f, NEW g, NEW e, NEW S, IsFiniteSet(S),
           \A x \in S : g[x] \in Int /\ f[e[x]] = g[x],
           \A x, y \in S : e[x] = e[y] => x = y
    PROVE  /\ IsFiniteSet(ImageOf(e, S))
           /\ SumFunctionOnSet(f, ImageOf(e, S)) = SumFunctionOnSet(g, S)
<1> USE DEF ImageOf
<1> DEFINE Im(t) == ImageOf(e, t)
           P == {t \in SUBSET S : /\ IsFiniteSet(Im(t))
                                  /\ SumFunctionOnSet(f, Im(t)) = SumFunctionOnSet(g, t)}
<1>1. ASSUME NEW t \in SUBSET S, \A u \in SUBSET t : u # t => u \in P
      PROVE  t \in P
  <2>1. CASE t = {}
    <3>1. Im(t) = {}
      BY <2>1
    <3>2. IsFiniteSet({})
      BY FS_EmptySet
    <3> QED BY <2>1, <3>1, <3>2, SumEmpty
  <2>2. CASE t # {}
    <3>1. PICK y \in t : TRUE
      BY <2>2
    <3> DEFINE u == t \ {y}
    <3>2. IsFiniteSet(Im(u)) /\ SumFunctionOnSet(f, Im(u)) = SumFunctionOnSet(g, u)
      <4>1. u \in SUBSET t /\ u # t
        BY <3>1
      <4> QED BY <1>1, <4>1
    <3>3. Im(t) = Im(u) \cup {e[y]} /\ e[y] \notin Im(u)
      BY <3>1
    <3>4. \A x \in Im(u) : f[x] \in Int
      OBVIOUS
    <3>5. f[e[y]] \in Int /\ f[e[y]] = g[y]
      BY <3>1
    <3>6. SumFunctionOnSet(f, Im(t)) = f[e[y]] + SumFunctionOnSet(f, Im(u))
      <4> HIDE DEF Im, u, ImageOf
      <4> QED BY <3>2, <3>3, <3>4, <3>5, SumAdd
    <3>7. SumFunctionOnSet(g, t) = g[y] + SumFunctionOnSet(g, u)
      <4>1. IsFiniteSet(t)
        BY FS_Subset
      <4>2. \A x \in t : g[x] \in Int
        OBVIOUS
      <4> QED BY <3>1, <4>1, <4>2, SumRemove
    <3>8. IsFiniteSet(Im(t))
      <4> HIDE DEF Im, u, ImageOf
      <4> QED BY <3>2, <3>3, FS_AddElement
    <3>9. SumFunctionOnSet(f, Im(t)) = SumFunctionOnSet(g, t)
      BY <3>2, <3>5, <3>6, <3>7
    <3> HIDE DEF Im
    <3> QED BY <3>8, <3>9
  <2> QED BY <2>1, <2>2
<1>2. \A t \in SUBSET S : t \in P
  <2> HIDE DEF P
  <2> QED BY <1>1, SubsetInduction
<1> QED
  BY <1>2

\* What the bodies at the positions J of a list cost.
Costs(list) == [j \in 1..Len(list) |-> list[j].cost]
CostAt(list, J) == SumFunctionOnSet(Costs(list), J)

\* Costs of sets of positions.
LEMMA CostsFacts ==
    ASSUME NEW list \in Seq(Drained), NEW S \in SUBSET (1..Len(list)), NEW T \in SUBSET S
    PROVE  /\ IsFiniteSet(S) /\ \A j \in S : Costs(list)[j] = list[j].cost /\ list[j].cost \in Nat
           /\ CostAt(list, S) \in Nat /\ CostAt(list, T) \in Nat /\ CostAt(list, T) <= CostAt(list, S)
           /\ CostAt(list, {}) = 0
           /\ \A j \in (1..Len(list)) \ S : CostAt(list, S \cup {j}) = CostAt(list, S) + list[j].cost
<1>1. IsFiniteSet(1..Len(list))
  <2>1. Len(list) \in Int
    BY LenProperties
  <2> QED BY <2>1, FS_Interval
<1>2. IsFiniteSet(S)
  BY <1>1, FS_Subset
<1>3. \A j \in 1..Len(list) : Costs(list)[j] = list[j].cost /\ list[j].cost \in Nat
  <2>1. \A d \in Drained : d.cost \in Nat
    BY DEF Drained
  <2>2. \A j \in 1..Len(list) : list[j] \in Drained
    BY ElementOfSeq
  <2>3. \A j \in 1..Len(list) : Costs(list)[j] = list[j].cost
    BY DEF Costs
  <2> QED BY <2>1, <2>2, <2>3
<1>4. \A j \in S : Costs(list)[j] \in Nat /\ Costs(list)[j] = list[j].cost /\ list[j].cost \in Nat
  BY <1>3
<1>5. /\ CostAt(list, S) \in Nat /\ CostAt(list, T) \in Nat /\ CostAt(list, T) <= CostAt(list, S)
  BY <1>2, <1>4, SumPart DEF CostAt
<1>6. CostAt(list, {}) = 0
  BY SumEmpty DEF CostAt
<1>7. ASSUME NEW j \in (1..Len(list)) \ S
      PROVE  CostAt(list, S \cup {j}) = CostAt(list, S) + list[j].cost
  <2>1. \A x \in S : Costs(list)[x] \in Int
    BY <1>4
  <2>2. Costs(list)[j] = list[j].cost /\ list[j].cost \in Nat
    BY <1>3
  <2>3. SumFunctionOnSet(Costs(list), S \cup {j}) = Costs(list)[j] + SumFunctionOnSet(Costs(list), S)
    BY <1>2, <2>1, <2>2, SumAdd
  <2> QED BY <1>5, <2>2, <2>3 DEF CostAt
<1> QED
  BY <1>2, <1>4, <1>5, <1>6, <1>7

IsClaim(h, list, wanted, got) ==
    h = [n \in 0..Len(list) |-> IF n = 0 THEN got
                                ELSE ClaimOne(list, wanted, h[n - 1], Len(list) - n + 1)]
ClaimFun(list, wanted, got) == CHOOSE h : IsClaim(h, list, wanted, got)
\* What was claimed so far, and what it costs of the budget.
Claims(list) == [send : SUBSET (1..Len(list)), spent : Nat]

\* Claim is what its recursion returns at the oldest.
LEMMA ClaimIsFun ==
    ASSUME NEW list, NEW wanted, NEW got
    PROVE  Claim(list, wanted, got) = ClaimFun(list, wanted, got)[Len(list)]
BY Zenon DEF Claim, ClaimFun, IsClaim

Fits(list, wanted, got, j) == /\ j \in wanted \ got.send /\ list[j].cost > 0
                              /\ got.spent + list[j].cost <= PartBudget

\* One claim.
LEMMA ClaimOneFacts ==
    ASSUME NEW list \in Seq(Drained), NEW wanted, NEW got \in Claims(list), NEW j \in 1..Len(list)
    PROVE  /\ ClaimOne(list, wanted, got, j) \in Claims(list)
           /\ Fits(list, wanted, got, j) =>
                 /\ ClaimOne(list, wanted, got, j).send = got.send \cup {j}
                 /\ ClaimOne(list, wanted, got, j).spent = got.spent + list[j].cost
           /\ ~Fits(list, wanted, got, j) => ClaimOne(list, wanted, got, j) = got
<1>1. list[j].cost \in Nat
  <2>1. \A d \in Drained : d.cost \in Nat
    BY DEF Drained
  <2>2. list[j] \in Drained
    BY ElementOfSeq
  <2> QED BY <2>1, <2>2
<1>2. got.send \in SUBSET (1..Len(list)) /\ got.spent \in Nat
  BY DEF Claims
<1>3. CASE Fits(list, wanted, got, j)
  <2>1. ClaimOne(list, wanted, got, j) = [send |-> got.send \cup {j}, spent |-> got.spent + list[j].cost]
    BY <1>3 DEF ClaimOne, Fits
  <2>2. got.send \cup {j} \in SUBSET (1..Len(list)) /\ got.spent + list[j].cost \in Nat
    BY <1>1, <1>2
  <2> QED BY <1>3, <2>1, <2>2 DEF Claims
<1>4. CASE ~Fits(list, wanted, got, j)
  <2>1. ClaimOne(list, wanted, got, j) = got
    BY <1>4 DEF ClaimOne, Fits
  <2> QED BY <1>4, <2>1
<1> QED
  BY <1>3, <1>4

\* The claims are made one by one, from the newest on.
LEMMA ClaimSteps ==
    ASSUME NEW list \in Seq(Drained), NEW wanted, NEW got \in Claims(list)
    PROVE  \E h : /\ Claim(list, wanted, got) = h[Len(list)] /\ h[0] = got
                  /\ \A n \in 1..Len(list) : h[n] = ClaimOne(list, wanted, h[n - 1], Len(list) - n + 1)
<1> DEFINE l == Len(list)
           A == Claims(list)
           step == [n \in 1..l |-> [a \in A |-> ClaimOne(list, wanted, a, l - n + 1)]]
<1>1. l \in Nat
  BY LenProperties
<1>2. \A n \in 1..l : l - n + 1 \in 1..l
  BY <1>1
<1>3. \A n \in 1..l : \A a \in A : ClaimOne(list, wanted, a, l - n + 1) \in A
  <2> SUFFICES ASSUME NEW n \in 1..l, NEW a \in A PROVE ClaimOne(list, wanted, a, l - n + 1) \in A
    OBVIOUS
  <2> DEFINE j == l - n + 1
  <2>1. j \in 1..Len(list)
    BY <1>2
  <2> HIDE DEF j, A
  <2> QED BY <2>1, ClaimOneFacts DEF A, j
<1> HIDE DEF l, A
<1>4. /\ step \in [1..l -> [A -> A]]
      /\ \A n \in 1..l : \A a \in A : step[n][a] = ClaimOne(list, wanted, a, l - n + 1)
  BY <1>3
<1> HIDE DEF step
<1>5. got \in A
  BY DEF A
<1>6. PICK g \in [0..l -> A] : Goes(g, got, step, l)
  BY <1>1, <1>4, <1>5, FoldType
<1>7. g[0] = got /\ \A n \in 1..l : g[n] = step[n][g[n - 1]]
  BY <1>6 DEF Goes
<1>8. \A n \in 1..l : g[n] = ClaimOne(list, wanted, g[n - 1], l - n + 1)
  <2>1. \A n \in 1..l : n - 1 \in 0..l /\ g[n - 1] \in A
    BY <1>1
  <2> QED BY <1>4, <1>7, <2>1
<1>9. \A n \in 0..l : g[n] = IF n = 0 THEN got ELSE ClaimOne(list, wanted, g[n - 1], l - n + 1)
  <2>1. \A n \in 0..l : n # 0 => n \in 1..l
    BY <1>1
  <2> QED BY <1>7, <1>8, <2>1, Zenon
<1>10. IsClaim(g, list, wanted, got)
  <2>1. g = [n \in 0..l |-> g[n]]
    OBVIOUS
  <2>2. g = [n \in 0..l |-> IF n = 0 THEN got ELSE ClaimOne(list, wanted, g[n - 1], l - n + 1)]
    BY <1>9, <2>1, Zenon
  <2> QED BY <2>2, Zenon DEF IsClaim, l
<1> DEFINE h == ClaimFun(list, wanted, got)
<1>11. IsClaim(h, list, wanted, got)
  BY <1>10, Zenon DEF ClaimFun
<1> HIDE DEF h
<1>12. \A n \in 0..l : h[n] = IF n = 0 THEN got ELSE ClaimOne(list, wanted, h[n - 1], l - n + 1)
  BY <1>11, Zenon DEF IsClaim, l
<1>13. h[0] = got /\ \A n \in 1..l : h[n] = ClaimOne(list, wanted, h[n - 1], l - n + 1)
  <2>1. 0 \in 0..l /\ \A n \in 1..l : n \in 0..l /\ n # 0
    BY <1>1
  <2> QED BY <1>12, <2>1
<1>14. Claim(list, wanted, got) = h[l]
  BY ClaimIsFun, Zenon DEF h, l
<1> QED
  BY <1>13, <1>14 DEF l

\* What is claimed is paid for and wanted; and what is wanted and left out would not have
\* fitted with what had been claimed before and with what is newer.
Paid(list, got) == got.spent = CostAt(list, got.send) /\ got.spent <= PartBudget
                   /\ \A j \in got.send : list[j].cost > 0
Newer(J, j) == {p \in J : p > j}

\* What a pass of claims adds up to.
LEMMA ClaimFacts ==
    ASSUME NEW list \in Seq(Drained), NEW wanted \in SUBSET (1..Len(list)),
           NEW got \in Claims(list), Paid(list, got)
    PROVE  /\ Claim(list, wanted, got) \in Claims(list)
           /\ Paid(list, Claim(list, wanted, got))
           /\ got.send \subseteq Claim(list, wanted, got).send
           /\ Claim(list, wanted, got).send \subseteq got.send \cup wanted
           /\ \A j \in wanted \ Claim(list, wanted, got).send :
                 list[j].cost > 0 =>
                   CostAt(list, got.send \cup Newer(Claim(list, wanted, got).send, j))
                      + list[j].cost > PartBudget
<1> DEFINE l == Len(list)
<1>1. PICK h : /\ Claim(list, wanted, got) = h[l] /\ h[0] = got
               /\ \A n \in 1..l : h[n] = ClaimOne(list, wanted, h[n - 1], l - n + 1)
  BY ClaimSteps
<1>2. l \in Nat
  BY LenProperties
<1> DEFINE Out(g, n) == \A j \in wanted \ g.send :
                           j > l - n /\ list[j].cost > 0 =>
                             CostAt(list, got.send \cup Newer(g.send, j)) + list[j].cost > PartBudget
           Good(g, n) == /\ g \in Claims(list) /\ Paid(list, g)
                         /\ got.send \subseteq g.send /\ g.send \subseteq got.send \cup wanted
                         /\ \A j \in g.send \ got.send : j > l - n
                         /\ Out(g, n)
           Q == {n \in Nat : n <= l => Good(h[n], n)}
<1>3. 0 \in Q
  <2>1. Good(got, 0)
    <3>1. \A j \in wanted : ~(j > l - 0)
      BY <1>2
    <3> QED BY <3>1
  <2> HIDE DEF Good
  <2> QED BY <1>1, <2>1
<1>4. ASSUME NEW n \in Nat, n \in Q PROVE n + 1 \in Q
  <2> SUFFICES ASSUME n + 1 <= l PROVE Good(h[n + 1], n + 1)
    OBVIOUS
  <2> DEFINE g == h[n]
             i == l - n
             k == h[n + 1]
  <2>1. Good(g, n)
    <3>1. n <= l
      BY <1>2
    <3> HIDE DEF Good
    <3> QED BY <1>4, <3>1
  <2>2. /\ g \in Claims(list) /\ Paid(list, g)
        /\ got.send \subseteq g.send /\ g.send \subseteq got.send \cup wanted
        /\ \A j \in g.send \ got.send : j > i
        /\ Out(g, n)
    BY <2>1
  <2>3. i \in 1..l /\ i \in Nat /\ l - (n + 1) = i - 1
    BY <1>2
  <2>4. k = ClaimOne(list, wanted, g, i)
    <3>1. n + 1 \in 1..l /\ (n + 1) - 1 = n /\ l - (n + 1) + 1 = i
      BY <1>2
    <3>2. h[n + 1] = ClaimOne(list, wanted, h[(n + 1) - 1], l - (n + 1) + 1)
      BY <1>1, <3>1
    <3> HIDE DEF i
    <3> QED BY <3>1, <3>2
  <2> HIDE DEF g, k, i
  <2>5. /\ k \in Claims(list)
        /\ Fits(list, wanted, g, i) => k.send = g.send \cup {i} /\ k.spent = g.spent + list[i].cost
        /\ ~Fits(list, wanted, g, i) => k = g
    <3>1. g \in Claims(list) /\ i \in 1..Len(list)
      BY <2>2, <2>3
    <3> QED BY <2>4, <3>1, ClaimOneFacts
  <2>6. g.send \subseteq 1..l /\ got.send \subseteq 1..l /\ g.spent \in Nat
    BY <2>2 DEF Claims
  <2>7. \A j \in 1..l : list[j].cost \in Nat
    <3>1. \A d \in Drained : d.cost \in Nat
      BY DEF Drained
    <3>2. \A j \in 1..l : list[j] \in Drained
      BY ElementOfSeq
    <3> QED BY <3>1, <3>2
  <2>8. CASE Fits(list, wanted, g, i)
    <3>1. /\ k.send = g.send \cup {i} /\ k.spent = g.spent + list[i].cost
          /\ i \in wanted /\ i \notin g.send /\ list[i].cost > 0
          /\ g.spent + list[i].cost <= PartBudget
      BY <2>5, <2>8 DEF Fits
    <3>2. Paid(list, k)
      <4>1. g.send \in SUBSET (1..Len(list)) /\ i \in (1..Len(list)) \ g.send
        BY <2>3, <2>6, <3>1
      <4>2. CostAt(list, g.send \cup {i}) = CostAt(list, g.send) + list[i].cost
        BY <4>1, CostsFacts
      <4>3. \A j \in k.send : list[j].cost > 0
        BY <2>2, <3>1 DEF Paid
      <4>4. g.spent = CostAt(list, g.send)
        BY <2>2 DEF Paid
      <4> QED BY <3>1, <4>2, <4>3, <4>4 DEF Paid
    <3>3. got.send \subseteq k.send /\ k.send \subseteq got.send \cup wanted
      BY <2>2, <3>1
    <3>4. \A j \in k.send \ got.send : j > l - (n + 1)
      <4>1. \A j \in k.send \ got.send : j = i \/ (j \in g.send \ got.send /\ j \in 1..l)
        BY <2>6, <3>1
      <4>2. \A j \in 1..l : j > i => j > i - 1
        BY <1>2, <2>3
      <4>3. i > i - 1
        BY <2>3
      <4> QED BY <2>2, <2>3, <4>1, <4>2, <4>3
    <3>5. ASSUME NEW j \in wanted \ k.send, j > i - 1, list[j].cost > 0
          PROVE  CostAt(list, got.send \cup Newer(k.send, j)) + list[j].cost > PartBudget
      <4>1. j \in 1..l /\ j # i /\ j \in wanted \ g.send
        BY <3>1, <3>5
      <4>2. j > i
        BY <2>3, <3>5, <4>1
      <4>3. Newer(k.send, j) = Newer(g.send, j)
        <5>1. ~(i > j)
          BY <2>3, <4>1, <4>2
        <5> QED BY <3>1, <5>1 DEF Newer
      <4>4. CostAt(list, got.send \cup Newer(g.send, j)) + list[j].cost > PartBudget
        BY <2>2, <3>5, <4>1, <4>2 DEF i
      <4> QED BY <4>3, <4>4
    <3>6. Out(k, n + 1)
      BY <2>3, <3>5
    <3> HIDE DEF Out
    <3> QED BY <2>5, <3>2, <3>3, <3>4, <3>6 DEF k
  <2>9. CASE ~Fits(list, wanted, g, i)
    <3>1. k = g
      BY <2>5, <2>9
    <3>2. \A j \in g.send \ got.send : j > l - (n + 1)
      <4>1. \A j \in g.send \ got.send : j \in 1..l
        BY <2>6
      <4>2. \A j \in 1..l : j > i => j > i - 1
        BY <1>2, <2>3
      <4> QED BY <2>2, <2>3, <4>1, <4>2
    <3>3. ASSUME NEW j \in wanted \ g.send, j > i - 1, list[j].cost > 0
          PROVE  CostAt(list, got.send \cup Newer(g.send, j)) + list[j].cost > PartBudget
      <4>1. j \in 1..l
        OBVIOUS
      <4>2. CASE j = i
        <5>1. g.spent + list[j].cost > PartBudget
          <6>1. ~(g.spent + list[j].cost <= PartBudget)
            BY <2>9, <3>3, <4>2 DEF Fits
          <6>2. list[j].cost \in Nat /\ PartBudget \in Nat
            BY <2>7, <4>1, Sizes
          <6> QED BY <2>6, <6>1, <6>2
        <5>2. got.send \cup Newer(g.send, j) = g.send
          BY <2>2, <4>2 DEF Newer
        <5>3. g.spent = CostAt(list, g.send)
          BY <2>2 DEF Paid
        <5> QED BY <5>1, <5>2, <5>3
      <4>3. CASE j # i
        <5>1. j > i
          BY <2>3, <3>3, <4>1, <4>3
        <5> QED BY <2>2, <3>3, <5>1 DEF i
      <4> QED BY <4>2, <4>3
    <3>4. Out(g, n + 1)
      BY <2>3, <3>3
    <3> HIDE DEF Out
    <3>5. Good(g, n + 1)
      BY <2>2, <3>2, <3>4
    <3> HIDE DEF Good
    <3> QED BY <3>1, <3>5 DEF k
  <2> QED BY <2>8, <2>9
<1>5. \A n \in Nat : n \in Q
  <2> HIDE DEF Q
  <2> QED BY <1>3, <1>4, NatInduction1
<1>6. Good(h[l], l)
  <2>1. l \in Q /\ l <= l
    BY <1>2, <1>5
  <2> HIDE DEF Good
  <2> QED BY <2>1
<1>7. \A j \in wanted : j > l - l
  BY <1>2
<1> HIDE DEF l
<1> QED
  BY <1>1, <1>6, <1>7

\* What goes ahead of j in the budget, of the positions J: the failed, and then the newer.
Before(list, J, j) == {p \in J : \/ list[p].failed /\ ~list[j].failed
                                 \/ list[p].failed = list[j].failed /\ p > j}

\* Both passes together: what is left out would not have fitted with what goes ahead of it.
LEMMA ClaimedFacts ==
    ASSUME NEW list \in Seq(Drained)
    PROVE  /\ Claimed(list) \in SUBSET (1..Len(list))
           /\ \A j \in Claimed(list) : list[j].cost > 0
           /\ CostAt(list, Claimed(list)) <= PartBudget
           /\ \A j \in (1..Len(list)) \ Claimed(list) :
                 list[j].cost > 0 =>
                    CostAt(list, Before(list, Claimed(list), j)) + list[j].cost > PartBudget
<1> DEFINE l == Len(list)
           first == Claim(list, FailedIn(list), None)
           got == Claim(list, 1..l, first)
           sent == Claimed(list)
<1>1. None \in Claims(list) /\ Paid(list, None) /\ None.send = {}
  <2>1. None.send = {} /\ None.spent = 0 /\ None \in Claims(list)
    BY DEF None, Claims
  <2>2. {} \in SUBSET (1..Len(list))
    OBVIOUS
  <2>3. CostAt(list, {}) = 0
    BY <2>2, CostsFacts
  <2>4. 0 <= PartBudget
    BY Sizes
  <2> QED BY <2>1, <2>3, <2>4 DEF Paid
<1>2. FailedIn(list) \in SUBSET (1..Len(list)) /\ 1..l \in SUBSET (1..Len(list))
  BY DEF FailedIn
<1>3. /\ first \in Claims(list) /\ Paid(list, first)
      /\ first.send \subseteq {} \cup FailedIn(list)
      /\ \A j \in FailedIn(list) \ first.send :
            list[j].cost > 0 =>
              CostAt(list, {} \cup Newer(first.send, j)) + list[j].cost > PartBudget
  BY <1>1, <1>2, ClaimFacts
<1>4. /\ got \in Claims(list) /\ Paid(list, got)
      /\ first.send \subseteq got.send
      /\ \A j \in (1..l) \ got.send :
            list[j].cost > 0 =>
              CostAt(list, first.send \cup Newer(got.send, j)) + list[j].cost > PartBudget
  <2>1. first \in Claims(list) /\ Paid(list, first)
    BY <1>3
  <2> HIDE DEF first
  <2> QED BY <1>2, <2>1, ClaimFacts
<1>5. sent = got.send
  BY DEF Claimed
<1> HIDE DEF first, got, sent
<1>6. sent \in SUBSET (1..l) /\ \A j \in sent : list[j].cost > 0
  BY <1>4, <1>5 DEF Claims, Paid
<1>7. CostAt(list, sent) <= PartBudget
  BY <1>4, <1>5 DEF Paid
<1>8. ASSUME NEW j \in (1..l) \ sent, list[j].cost > 0
      PROVE  CostAt(list, Before(list, sent, j)) + list[j].cost > PartBudget
  <2> DEFINE B == Before(list, sent, j)
             T == IF list[j].failed THEN Newer(first.send, j) ELSE first.send \cup Newer(sent, j)
  <2>1. CostAt(list, T) + list[j].cost > PartBudget
    <3>1. CASE list[j].failed
      <4>1. j \in FailedIn(list) \ first.send
        BY <1>4, <1>5, <3>1 DEF FailedIn
      <4>2. {} \cup Newer(first.send, j) = Newer(first.send, j)
        OBVIOUS
      <4> QED BY <1>3, <1>8, <3>1, <4>1, <4>2
    <3>2. CASE ~list[j].failed
      BY <1>4, <1>5, <1>8, <3>2
    <3> QED BY <3>1, <3>2
  <2>2. B \in SUBSET (1..Len(list))
    BY <1>6 DEF Before
  <2>3. T \in SUBSET B
    <3>1. first.send \subseteq FailedIn(list) /\ first.send \subseteq sent
      BY <1>3, <1>4, <1>5
    <3>2. \A p \in first.send : list[p].failed
      BY <3>1 DEF FailedIn
    <3>3. \A p \in 1..l : list[p].failed \in BOOLEAN
      <4>1. \A d \in Drained : d.failed \in BOOLEAN
        BY DEF Drained
      <4>2. \A p \in 1..l : list[p] \in Drained
        BY ElementOfSeq
      <4> QED BY <4>1, <4>2
    <3>4. CASE list[j].failed
      <4>1. \A p \in Newer(first.send, j) : p \in sent /\ list[p].failed = list[j].failed /\ p > j
        <5>1. \A p \in Newer(first.send, j) : p \in first.send /\ p > j
          BY DEF Newer
        <5>2. \A p \in first.send : list[p].failed = TRUE
          BY <1>6, <3>1, <3>2, <3>3
        <5>3. list[j].failed = TRUE
          BY <3>3, <3>4
        <5> QED BY <3>1, <5>1, <5>2, <5>3
      <4> QED BY <3>4, <4>1 DEF Before
    <3>5. CASE ~list[j].failed
      <4>1. ASSUME NEW p \in first.send PROVE p \in B
        BY <3>1, <3>2, <3>5, <4>1 DEF Before
      <4>2. ASSUME NEW p \in Newer(sent, j) PROVE p \in B
        <5>1. p \in sent /\ p > j
          BY DEF Newer
        <5>2. CASE list[p].failed
          BY <3>5, <5>1, <5>2 DEF Before
        <5>3. CASE ~list[p].failed
          <6>1. list[p].failed = FALSE /\ list[j].failed = FALSE
            BY <1>6, <3>3, <3>5, <5>1, <5>3
          <6> QED BY <5>1, <6>1 DEF Before
        <5> QED BY <5>2, <5>3
      <4> QED BY <3>5, <4>1, <4>2
    <3> QED BY <3>4, <3>5
  <2>4. CostAt(list, B) \in Nat /\ CostAt(list, T) \in Nat /\ CostAt(list, T) <= CostAt(list, B)
    <3> HIDE DEF B, T
    <3> QED BY <2>2, <2>3, CostsFacts
  <2>5. list[j].cost \in Nat /\ PartBudget \in Nat
    <3>1. \A d \in Drained : d.cost \in Nat
      BY DEF Drained
    <3>2. list[j] \in Drained
      BY ElementOfSeq
    <3> QED BY <3>1, <3>2, Sizes
  <2> HIDE DEF B, T
  <2>6. CostAt(list, B) + list[j].cost > PartBudget
    BY <2>1, <2>4, <2>5
  <2> QED BY <2>6 DEF B
<1> QED
  BY <1>6, <1>7, <1>8 DEF sent

-----------------------------------------------------------------------------
\* The same of the rows that are shipped.
CostOf(S) == SumFunctionOnSet([r \in S |-> r.cost], S)
AheadOf(parts, r) == {p \in parts : \/ p.failed /\ ~r.failed
                                    \/ p.failed = r.failed /\ p.id > r.id}
Afforded(parts, rows) ==
    /\ CostOf(parts) <= PartBudget
    /\ \A r \in rows : r.nopv => CostOf(AheadOf(parts, r)) + r.cost > PartBudget

\* The rows at some positions cost what the positions cost.
LEMMA CostOfImage ==
    ASSUME NEW rows, NEW c, NEW S, IsFiniteSet(S),
           \A x \in S : c[x] \in Int /\ rows[x].cost = c[x],
           \A x, y \in S : rows[x] = rows[y] => x = y
    PROVE  CostOf(ImageOf(rows, S)) = SumFunctionOnSet(c, S)
<1> DEFINE I == ImageOf(rows, S)
           f == [r \in I |-> r.cost]
<1>1. \A x \in S : rows[x] \in I
  BY DEF ImageOf
<1>2. \A x \in S : f[rows[x]] = rows[x].cost
  <2> HIDE DEF I
  <2> QED BY <1>1
<1> HIDE DEF f
<1>3. \A x \in S : c[x] \in Int /\ f[rows[x]] = c[x]
  BY <1>2
<1>4. SumFunctionOnSet(f, ImageOf(rows, S)) = SumFunctionOnSet(c, S)
  BY <1>3, SumImage
<1> QED
  BY <1>4 DEF CostOf, f, I

\* The same of the rows that were made of a list.
LEMMA CostsOfRows ==
    ASSUME NEW d \in Seq(Drained), NEW rows, NEW J \in SUBSET (1..Len(d)),
           \A j \in 1..Len(d) : rows[j].cost = d[j].cost,
           \A i, j \in 1..Len(d) : rows[i] = rows[j] => i = j
    PROVE  CostOf(ImageOf(rows, J)) = CostAt(d, J)
<1> DEFINE c == Costs(d)
<1>1. IsFiniteSet(J) /\ \A j \in J : c[j] = d[j].cost /\ d[j].cost \in Nat
  <2>1. {} \in SUBSET J
    OBVIOUS
  <2> QED BY <2>1, CostsFacts
<1> HIDE DEF c
<1>2. \A j \in J : c[j] \in Int /\ rows[j].cost = c[j]
  BY <1>1
<1>3. \A i, j \in J : rows[i] = rows[j] => i = j
  OBVIOUS
<1>4. PICK S : S = J
  OBVIOUS
<1>5. /\ IsFiniteSet(S) /\ \A x \in S : c[x] \in Int /\ rows[x].cost = c[x]
      /\ \A x, y \in S : rows[x] = rows[y] => x = y
  BY <1>1, <1>2, <1>3, <1>4
<1>6. CostOf(ImageOf(rows, S)) = SumFunctionOnSet(c, S)
  BY <1>5, CostOfImage
<1> QED
  BY <1>4, <1>6 DEF CostAt, c

\* What a tick ships was claimed so.
LEMMA RowsAfforded ==
    ASSUME ProbeInv
    PROVE  Afforded({RowsOf(DrainedNow)[j] : j \in Sent(RowsOf(DrainedNow))}, In(RowsOf(DrainedNow)))
<1> DEFINE d == DrainedNow
           rows == RowsOf(d)
           sent == Claimed(d)
           Im(J) == ImageOf(rows, J)
<1> USE DEF ImageOf
<1>1. d \in Seq(Drained) /\ Len(d) \in Nat /\ lastId \in Nat
  BY DrainedFacts DEF ProbeInv
<1>2. /\ rows \in Seq(Rows) /\ Len(rows) = Len(d)
      /\ \A j \in 1..Len(d) : /\ rows[j].id = lastId - Len(d) + j
                              /\ rows[j].failed = d[j].failed
                              /\ rows[j].cost = d[j].cost
                              /\ rows[j].nopv = (d[j].cost > 0 /\ j \notin sent)
  BY RowsFacts
<1>3. /\ sent \in SUBSET (1..Len(d))
      /\ \A j \in sent : d[j].cost > 0
      /\ CostAt(d, sent) <= PartBudget
      /\ \A j \in (1..Len(d)) \ sent :
            d[j].cost > 0 => CostAt(d, Before(d, sent, j)) + d[j].cost > PartBudget
  BY <1>1, ClaimedFacts
<1> HIDE DEF d, rows, sent
<1>4. Sent(rows) = sent
  BY <1>2, <1>3 DEF Sent
<1>5. \A i, j \in 1..Len(d) : rows[i].id = rows[j].id => i = j
  <2>1. \A i, j \in 1..Len(d) : lastId - Len(d) + i = lastId - Len(d) + j => i = j
    BY <1>1
  <2> QED BY <1>2, <2>1
<1>6. ASSUME NEW J \in SUBSET (1..Len(d)) PROVE CostOf(Im(J)) = CostAt(d, J)
  <2>1. \A j \in 1..Len(d) : rows[j].cost = d[j].cost
    BY <1>2
  <2>2. \A i, j \in 1..Len(d) : rows[i] = rows[j] => i = j
    BY <1>5
  <2> HIDE DEF ImageOf
  <2> QED BY <1>1, <2>1, <2>2, CostsOfRows
<1>7. CostOf(Im(sent)) <= PartBudget
  BY <1>3, <1>6
<1>8. ASSUME NEW j \in 1..Len(d), rows[j].nopv
      PROVE  CostOf(AheadOf(Im(sent), rows[j])) + rows[j].cost > PartBudget
  <2>1. j \notin sent /\ d[j].cost > 0 /\ rows[j].cost = d[j].cost
    BY <1>2, <1>8
  <2>2. AheadOf(Im(sent), rows[j]) = Im(Before(d, sent, j))
    <3>1. \A p \in sent : rows[p].failed = d[p].failed /\ rows[j].failed = d[j].failed
      BY <1>2, <1>3
    <3>2. \A p \in sent : rows[p].id > rows[j].id <=> p > j
      <4>1. \A p \in 1..Len(d) : lastId - Len(d) + p > lastId - Len(d) + j <=> p > j
        BY <1>1
      <4> QED BY <1>2, <1>3, <4>1
    <3> QED BY <3>1, <3>2 DEF AheadOf, Before
  <2>3. Before(d, sent, j) \in SUBSET (1..Len(d))
    BY <1>3 DEF Before
  <2>4. CostOf(Im(Before(d, sent, j))) = CostAt(d, Before(d, sent, j))
    BY <1>6, <2>3
  <2> QED BY <1>3, <2>1, <2>2, <2>4
<1>9. \A r \in In(rows) : r.nopv => CostOf(AheadOf(Im(sent), r)) + r.cost > PartBudget
  BY <1>2, <1>8 DEF In
<1> HIDE DEF Im
<1>10. Afforded(Im(sent), In(rows))
  BY <1>7, <1>9 DEF Afforded
<1> QED
  BY <1>4, <1>10 DEF Im, rows, d

\* What a tick prints: the rows whose bodies it ships, if it ships any, and all its rows.
LEMMA BudgetTick ==
    ASSUME ProbeInv, NEW room \in Rooms, Tick(room)
    PROVE  Afforded(IF Len(lane') = 2 THEN ToSet(lane'[1].rows) ELSE {},
                    ToSet(lane'[Len(lane')].rows))
<1> DEFINE rows == RowsOf(DrainedNow)
           sent == {rows[j] : j \in Sent(rows)}
<1>1. PICK f \in Frames : Printed(f, room)
  BY TickPrints
<1>2. f.rows = LastN(rows, room) /\ f.rows \in Seq(Rows)
  BY <1>1 DEF Printed, Frame, Frames
<1>3. In(f.rows) \subseteq In(rows)
  <2>1. rows \in Seq(Rows) /\ room \in Nat
    BY RowsFacts, RowStreamAssumption DEF RowStreamAssumption
  <2> HIDE DEF rows
  <2> DEFINE new == LastN(rows, room)
  <2>2. /\ new \in Seq(Rows)
        /\ Len(new) = (IF Len(rows) <= room THEN Len(rows) ELSE room)
        /\ \A j \in 1..Len(new) : new[j] = rows[Len(rows) - Len(new) + j]
    BY <2>1, LastNFacts
  <2> HIDE DEF new
  <2>3. ASSUME NEW j \in 1..Len(new) PROVE new[j] \in In(rows)
    <3> DEFINE i == Len(rows) - Len(new) + j
    <3>1. i \in 1..Len(rows)
      BY <2>1, <2>2
    <3>2. new[j] = rows[i]
      BY <2>2
    <3> HIDE DEF i
    <3> QED BY <3>1, <3>2 DEF In
  <2> QED BY <1>2, <2>3 DEF In, new
<1>4. Afforded(sent, In(f.rows))
  <2>1. Afforded(sent, In(rows))
    BY RowsAfforded
  <2> HIDE DEF sent, rows
  <2> QED BY <1>3, <2>1 DEF Afforded
<1>5. ToSet(f.rows) = In(f.rows)
  BY <1>2, InSet
<1>6. CASE lane' = <<f>> /\ Sent(rows) = {}
  <2>1. Len(lane') = 1 /\ lane'[1] = f
    BY <1>6, PairFacts
  <2>2. sent = {}
    BY <1>6
  <2> HIDE DEF sent
  <2> QED BY <1>4, <1>5, <2>1, <2>2
<1>7. ASSUME NEW p \in Bundles, lane' = <<p, f>>, In(p.rows) = sent
      PROVE  Afforded(IF Len(lane') = 2 THEN ToSet(lane'[1].rows) ELSE {},
                      ToSet(lane'[Len(lane')].rows))
  <2>1. Len(lane') = 2 /\ lane'[1] = p /\ lane'[2] = f
    BY <1>7, PairFacts
  <2>2. p.rows \in Seq(Rows)
    BY DEF Bundles
  <2>3. ToSet(p.rows) = sent
    BY <1>7, <2>2, InSet
  <2> HIDE DEF sent
  <2> QED BY <1>4, <1>5, <2>1, <2>3
<1> QED
  BY <1>1, <1>6, <1>7 DEF Printed

\* Only a tick puts something on an empty lane.
LEMMA BudgetStep ==
    ASSUME Types, [Next]_vars, lane = <<>>, lane' # <<>>
    PROVE  Afforded(IF Len(lane') = 2 THEN ToSet(lane'[1].rows) ELSE {},
                    ToSet(lane'[Len(lane')].rows))
<1>1. UNCHANGED LaneVars \/ OnLane
  BY StepsTouch DEF Touched
<1>2. ~UNCHANGED LaneVars
  BY DEF LaneVars
<1>3. ~ReceiveParts /\ ~Broadcast /\ ~Respawn /\ ~Restart
  BY BegunProbe DEF ReceiveParts, Broadcast, Types
<1>4. PICK room \in Rooms : Tick(room)
  BY <1>1, <1>2, <1>3 DEF OnLane
<1> QED
  BY <1>4, BudgetTick DEF Types

\* The budget goes where it matters, in every tick: what is left out would not have fitted
\* with what goes ahead of it, the failed first and then the newest, so that a tick without
\* bodies had none that fits; and a tick stays within its budget.
THEOREM BudgetIsByPriority == Spec => BudgetByPriority
<1>1. Types /\ [Next]_vars => [(lane = <<>> /\ lane' # <<>>) =>
        LET parts == IF Len(lane') = 2 THEN ToSet(lane'[1].rows) ELSE {}
            rows == ToSet(lane'[Len(lane')].rows)
            Cost(S) == SumFunctionOnSet([r \in S |-> r.cost], S)
            Ahead(r) == {p \in parts : \/ p.failed /\ ~r.failed
                                       \/ p.failed = r.failed /\ p.id > r.id}
        IN /\ Cost(parts) <= PartBudget
           /\ \A r \in rows : r.nopv => Cost(Ahead(r)) + r.cost > PartBudget]_vars
  BY BudgetStep DEF Afforded, CostOf, AheadOf
<1> QED
  BY <1>1, TypesAlways, PTL DEF Spec, BudgetByPriority
=============================================================================
