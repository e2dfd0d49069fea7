----------------------------- MODULE FiniteSums -----------------------------
(***************************************************************************)
(* Sums over finite sets, for the proofs of the components that keep totals: *)
(* the community modules define SumFunctionOnSet by recursion over the        *)
(* subsets of a set, and nothing about it follows before that recursion is    *)
(* shown to define what it says.  Induction is by the well-foundedness of      *)
(* strict inclusion, over a set of subsets rather than a predicate.            *)
(***************************************************************************)
EXTENDS Integers, FiniteSets, Functions, FiniteSetTheorems, WellFoundedInduction, TLAPS

-----------------------------------------------------------------------------
(* Induction.                                                                *)

\* What holds of a set of subsets whenever it holds of all that are smaller holds of all.
LEMMA SubsetInduction ==
    ASSUME NEW S, IsFiniteSet(S), NEW P,
           \A t \in SUBSET S : (\A u \in SUBSET t : u # t => u \in P) => t \in P
    PROVE  \A t \in SUBSET S : t \in P
<1> DEFINE Bad == {t \in SUBSET S : t \notin P}
<1> SUFFICES ASSUME Bad # {} PROVE FALSE
  OBVIOUS
<1>1. IsWellFoundedOn(StrictSubsetOrdering(S), SUBSET S)
  <2>1. FiniteSubsetsOf(S) = SUBSET S
    BY FS_FiniteSubsetsOfFinite
  <2>2. IsWellFoundedOn(StrictSubsetOrdering(S), FiniteSubsetsOf(S))
    BY FS_StrictSubsetOrderingWellFounded
  <2> QED BY <2>1, <2>2, Zenon
<1>2. Bad \subseteq SUBSET S
  OBVIOUS
<1>3. PICK t \in Bad : \A u \in Bad : <<u, t>> \notin StrictSubsetOrdering(S)
  <2> HIDE DEF Bad
  <2> QED BY <1>1, <1>2, WFMin
<1>4. ASSUME NEW u \in SUBSET t, u # t PROVE u \in P
  <2>1. u \in SUBSET S /\ t \in SUBSET S
    BY <1>2, <1>3
  <2>2. <<u, t>> \in StrictSubsetOrdering(S)
    BY <1>4, <2>1 DEF StrictSubsetOrdering
  <2> QED BY <1>3, <2>1, <2>2
<1> QED
  BY <1>2, <1>3, <1>4

\* The same over the numbers from zero.
NatLess == {ss \in Nat \X Nat : ss[1] < ss[2]}
LEMMA NatInduction1 ==
    ASSUME NEW P, 0 \in P, \A n \in Nat : n \in P => n + 1 \in P
    PROVE  \A n \in Nat : n \in P
<1> DEFINE Bad == Nat \ P
<1> SUFFICES ASSUME Bad # {} PROVE FALSE
  OBVIOUS
<1>1. IsWellFoundedOn(NatLess, Nat)
  BY NatLessThanWellFounded DEF OpToRel, NatLess
<1>2. Bad \subseteq Nat
  OBVIOUS
<1>3. PICK n \in Bad : \A m \in Bad : <<m, n>> \notin NatLess
  <2> HIDE DEF Bad
  <2> QED BY <1>1, <1>2, WFMin
<1>4. n # 0 /\ n - 1 \in Nat
  BY <1>3
<1>5. <<n - 1, n>> \in NatLess
  BY <1>2, <1>4 DEF NatLess
<1>6. n - 1 \in P
  BY <1>3, <1>4, <1>5
<1>7. (n - 1) + 1 = n
  BY <1>2
<1> QED
  BY <1>3, <1>4, <1>6, <1>7

-----------------------------------------------------------------------------
(* The recursion.                                                            *)

Pick(s) == CHOOSE x \in s : TRUE
IsIter(g, f, S) ==
    g = [s \in SUBSET S |-> IF s = {} THEN 0 ELSE f[Pick(s)] + g[s \ {Pick(s)}]]
Iter(f, S) == CHOOSE g : IsIter(g, f, S)

LEMMA SumIsIter ==
    ASSUME NEW f, NEW S
    PROVE  SumFunctionOnSet(f, S) = Iter(f, S)[S]
BY Zenon DEF SumFunctionOnSet, FoldFunctionOnSet, MapThenFoldSet, Iter, IsIter, Pick

LEMMA PickIsIn ==
    ASSUME NEW s, s # {}
    PROVE  Pick(s) \in s
BY Zenon DEF Pick

\* What the recursion says at each subset.
LEMMA IterAt ==
    ASSUME NEW f, NEW S, NEW g, IsIter(g, f, S), NEW s \in SUBSET S
    PROVE  g[s] = IF s = {} THEN 0 ELSE f[Pick(s)] + g[s \ {Pick(s)}]
BY DEF IsIter

\* Two recursions agree where both are defined.
LEMMA IterAgree ==
    ASSUME NEW f, NEW S, NEW T, NEW g, NEW h, IsFiniteSet(S),
           IsIter(g, f, S), IsIter(h, f, T), S \subseteq T
    PROVE  \A s \in SUBSET S : g[s] = h[s]
<1> DEFINE P == {s \in SUBSET S : g[s] = h[s]}
<1>1. ASSUME NEW t \in SUBSET S, \A u \in SUBSET t : u # t => u \in P
      PROVE  t \in P
  <2>1. CASE t = {}
    BY <2>1, IterAt
  <2>2. CASE t # {}
    <3>1. Pick(t) \in t
      BY <2>2, PickIsIn
    <3>2. g[t \ {Pick(t)}] = h[t \ {Pick(t)}]
      BY <1>1, <3>1
    <3>3. g[t] = f[Pick(t)] + g[t \ {Pick(t)}]
      BY <2>2, IterAt
    <3>4. h[t] = f[Pick(t)] + h[t \ {Pick(t)}]
      BY <2>2, IterAt
    <3> QED BY <3>2, <3>3, <3>4
  <2> QED BY <2>1, <2>2
<1>2. \A t \in SUBSET S : t \in P
  <2> HIDE DEF P
  <2> QED BY <1>1, SubsetInduction
<1> QED
  BY <1>2

\* The recursion defines a function over the subsets of every finite set.
LEMMA IterExists ==
    ASSUME NEW f, NEW S, IsFiniteSet(S)
    PROVE  IsIter(Iter(f, S), f, S)
<1> DEFINE P == {s \in SUBSET S : IsIter(Iter(f, s), f, s)}
<1>1. ASSUME NEW t \in SUBSET S, \A u \in SUBSET t : u # t => u \in P
      PROVE  t \in P
  <2> DEFINE value(s) == Iter(f, s)[s]
             g == [s \in SUBSET t |-> IF s = {} THEN 0
                                      ELSE f[Pick(s)] + value(s \ {Pick(s)})]
  <2>1. ASSUME NEW u \in SUBSET t, u # t
        PROVE  value(u) = IF u = {} THEN 0 ELSE f[Pick(u)] + value(u \ {Pick(u)})
    <3>1. IsIter(Iter(f, u), f, u) /\ u \in SUBSET u
      BY <1>1, <2>1
    <3>2. value(u) = IF u = {} THEN 0 ELSE f[Pick(u)] + Iter(f, u)[u \ {Pick(u)}]
      BY <3>1, IterAt
    <3>3. ASSUME u # {}
          PROVE  Iter(f, u)[u \ {Pick(u)}] = value(u \ {Pick(u)})
      <4> DEFINE v == u \ {Pick(u)}
      <4>1. v \in SUBSET t /\ v # t /\ v \subseteq u
        BY <3>3, PickIsIn
      <4>2. IsIter(Iter(f, v), f, v)
        BY <1>1, <4>1
      <4>3. IsFiniteSet(v)
        BY <4>1, FS_Subset
      <4> HIDE DEF v
      <4>4. \A s \in SUBSET v : Iter(f, v)[s] = Iter(f, u)[s]
        BY <3>1, <4>1, <4>2, <4>3, IterAgree
      <4>5. v \in SUBSET v
        OBVIOUS
      <4> QED BY <4>4, <4>5 DEF v
    <3> QED BY <3>2, <3>3
  <2>2. ASSUME NEW s \in SUBSET t, s # {}
        PROVE  value(s \ {Pick(s)}) = g[s \ {Pick(s)}]
    <3> DEFINE v == s \ {Pick(s)}
    <3>1. v \in SUBSET t /\ v # t
      BY <2>2, PickIsIn
    <3> HIDE DEF v
    <3>2. value(v) = IF v = {} THEN 0 ELSE f[Pick(v)] + value(v \ {Pick(v)})
      BY <2>1, <3>1
    <3>3. g[v] = IF v = {} THEN 0 ELSE f[Pick(v)] + value(v \ {Pick(v)})
      BY <3>1
    <3> QED BY <3>2, <3>3 DEF v
  <2>3. IsIter(g, f, t)
    <3>1. \A s \in SUBSET t :
              g[s] = IF s = {} THEN 0 ELSE f[Pick(s)] + g[s \ {Pick(s)}]
      BY <2>2
    <3>2. g = [s \in SUBSET t |-> g[s]]
      OBVIOUS
    <3> HIDE DEF g
    <3> QED BY <3>1, <3>2 DEF IsIter
  <2> HIDE DEF g
  <2>4. IsIter(Iter(f, t), f, t)
    BY <2>3 DEF Iter
  <2> QED BY <2>4
<1>2. \A t \in SUBSET S : t \in P
  <2> HIDE DEF P
  <2> QED BY <1>1, SubsetInduction
<1>3. S \in SUBSET S
  OBVIOUS
<1> QED
  BY <1>2, <1>3

-----------------------------------------------------------------------------
(* Sums.                                                                     *)

LEMMA SumEmpty ==
    ASSUME NEW f
    PROVE  SumFunctionOnSet(f, {}) = 0
<1>1. IsFiniteSet({}) /\ {} \in SUBSET {}
  BY FS_EmptySet
<1>2. IsIter(Iter(f, {}), f, {})
  BY <1>1, IterExists
<1>3. Iter(f, {})[{}] = 0
  BY <1>1, <1>2, IterAt
<1> QED
  BY <1>3, SumIsIter

\* A sum takes its elements one by one.
LEMMA SumPick ==
    ASSUME NEW f, NEW S, IsFiniteSet(S), S # {}
    PROVE  SumFunctionOnSet(f, S) = f[Pick(S)] + SumFunctionOnSet(f, S \ {Pick(S)})
<1> DEFINE T == S \ {Pick(S)}
<1>1. IsFiniteSet(T) /\ T \subseteq S
  BY FS_Subset
<1>2. IsIter(Iter(f, S), f, S) /\ IsIter(Iter(f, T), f, T)
  BY <1>1, IterExists
<1>3. Iter(f, S)[S] = f[Pick(S)] + Iter(f, S)[T]
  <2>1. S \in SUBSET S
    OBVIOUS
  <2> QED BY <1>2, <2>1, IterAt
<1>4. Iter(f, T)[T] = Iter(f, S)[T]
  <2> HIDE DEF T
  <2>1. T \in SUBSET T
    OBVIOUS
  <2>2. \A s \in SUBSET T : Iter(f, T)[s] = Iter(f, S)[s]
    BY <1>1, <1>2, IterAgree
  <2> QED BY <2>1, <2>2
<1> QED
  BY <1>3, <1>4, SumIsIter

LEMMA SumType ==
    ASSUME NEW f, NEW S, IsFiniteSet(S), \A x \in S : f[x] \in Int
    PROVE  SumFunctionOnSet(f, S) \in Int
<1> DEFINE P == {s \in SUBSET S : SumFunctionOnSet(f, s) \in Int}
<1>1. ASSUME NEW t \in SUBSET S, \A u \in SUBSET t : u # t => u \in P
      PROVE  t \in P
  <2>1. CASE t = {}
    BY <2>1, SumEmpty
  <2>2. CASE t # {}
    <3>1. Pick(t) \in t /\ IsFiniteSet(t)
      BY <2>2, PickIsIn, FS_Subset
    <3>2. SumFunctionOnSet(f, t \ {Pick(t)}) \in Int
      BY <1>1, <3>1
    <3>3. f[Pick(t)] \in Int
      BY <3>1
    <3>4. SumFunctionOnSet(f, t) = f[Pick(t)] + SumFunctionOnSet(f, t \ {Pick(t)})
      BY <2>2, <3>1, SumPick
    <3> QED BY <3>2, <3>3, <3>4
  <2> QED BY <2>1, <2>2
<1>2. \A t \in SUBSET S : t \in P
  <2> HIDE DEF P
  <2> QED BY <1>1, SubsetInduction
<1> QED
  BY <1>2

\* The order in which they are taken does not matter: any one may go first.
LEMMA SumRemove ==
    ASSUME NEW f, NEW S, IsFiniteSet(S), \A x \in S : f[x] \in Int, NEW y \in S
    PROVE  SumFunctionOnSet(f, S) = f[y] + SumFunctionOnSet(f, S \ {y})
<1> DEFINE P == {s \in SUBSET S : \A z \in s :
                     SumFunctionOnSet(f, s) = f[z] + SumFunctionOnSet(f, s \ {z})}
<1>1. ASSUME NEW t \in SUBSET S, \A u \in SUBSET t : u # t => u \in P
      PROVE  t \in P
  <2> SUFFICES ASSUME NEW z \in t
               PROVE  SumFunctionOnSet(f, t) = f[z] + SumFunctionOnSet(f, t \ {z})
    OBVIOUS
  <2> DEFINE x == Pick(t)
  <2>1. x \in t /\ IsFiniteSet(t)
    BY PickIsIn, FS_Subset
  <2>2. SumFunctionOnSet(f, t) = f[x] + SumFunctionOnSet(f, t \ {x})
    BY <2>1, SumPick
  <2> HIDE DEF x
  <2>3. CASE z = x
    BY <2>2, <2>3
  <2>4. CASE z # x
    <3>1. t \ {x} \in P /\ t \ {z} \in P /\ z \in t \ {x} /\ x \in t \ {z}
      BY <1>1, <2>1, <2>4
    <3>2. SumFunctionOnSet(f, t \ {x}) = f[z] + SumFunctionOnSet(f, (t \ {x}) \ {z})
      BY <3>1
    <3>3. SumFunctionOnSet(f, t \ {z}) = f[x] + SumFunctionOnSet(f, (t \ {z}) \ {x})
      BY <3>1
    <3>4. (t \ {x}) \ {z} = (t \ {z}) \ {x}
      OBVIOUS
    <3>5. SumFunctionOnSet(f, (t \ {z}) \ {x}) \in Int
      <4>1. IsFiniteSet((t \ {z}) \ {x})
        BY <2>1, FS_Subset
      <4> QED BY <4>1, SumType
    <3>6. f[x] \in Int /\ f[z] \in Int
      BY <2>1
    <3>7. ASSUME NEW rest \in Int, rest = SumFunctionOnSet(f, (t \ {z}) \ {x})
          PROVE  SumFunctionOnSet(f, t) = f[z] + SumFunctionOnSet(f, t \ {z})
      <4>1. SumFunctionOnSet(f, t \ {x}) = f[z] + rest
        BY <3>2, <3>4, <3>7, Zenon
      <4>2. SumFunctionOnSet(f, t \ {z}) = f[x] + rest
        BY <3>3, <3>7, Zenon
      <4>3. SumFunctionOnSet(f, t) = f[x] + (f[z] + rest)
        BY <2>2, <4>1, Zenon
      <4>4. f[z] + (f[x] + rest) = f[x] + (f[z] + rest)
        BY <3>6
      <4> QED BY <4>2, <4>3, <4>4, Zenon
    <3> QED BY <3>5, <3>7
  <2> QED BY <2>3, <2>4
<1>2. \A t \in SUBSET S : t \in P
  <2> HIDE DEF P
  <2> QED BY <1>1, SubsetInduction
<1> QED
  BY <1>2

LEMMA SumAdd ==
    ASSUME NEW f, NEW S, IsFiniteSet(S), \A x \in S : f[x] \in Int,
           NEW y, y \notin S, f[y] \in Int
    PROVE  SumFunctionOnSet(f, S \cup {y}) = f[y] + SumFunctionOnSet(f, S)
<1>1. IsFiniteSet(S \cup {y}) /\ y \in S \cup {y} /\ (S \cup {y}) \ {y} = S
  BY FS_AddElement
<1>2. \A x \in S \cup {y} : f[x] \in Int
  OBVIOUS
<1> QED
  BY <1>1, <1>2, SumRemove

\* Only the values on the set matter.
LEMMA SumSame ==
    ASSUME NEW f, NEW g, NEW S, IsFiniteSet(S), \A x \in S : f[x] = g[x]
    PROVE  SumFunctionOnSet(f, S) = SumFunctionOnSet(g, S)
<1> DEFINE P == {s \in SUBSET S : SumFunctionOnSet(f, s) = SumFunctionOnSet(g, s)}
<1>1. ASSUME NEW t \in SUBSET S, \A u \in SUBSET t : u # t => u \in P
      PROVE  t \in P
  <2>1. CASE t = {}
    BY <2>1, SumEmpty
  <2>2. CASE t # {}
    <3>1. Pick(t) \in t /\ IsFiniteSet(t)
      BY <2>2, PickIsIn, FS_Subset
    <3>2. SumFunctionOnSet(f, t \ {Pick(t)}) = SumFunctionOnSet(g, t \ {Pick(t)})
      BY <1>1, <3>1
    <3>3. f[Pick(t)] = g[Pick(t)]
      BY <3>1
    <3>4. SumFunctionOnSet(f, t) = f[Pick(t)] + SumFunctionOnSet(f, t \ {Pick(t)})
      BY <2>2, <3>1, SumPick
    <3>5. SumFunctionOnSet(g, t) = g[Pick(t)] + SumFunctionOnSet(g, t \ {Pick(t)})
      BY <2>2, <3>1, SumPick
    <3> QED BY <3>2, <3>3, <3>4, <3>5
  <2> QED BY <2>1, <2>2
<1>2. \A t \in SUBSET S : t \in P
  <2> HIDE DEF P
  <2> QED BY <1>1, SubsetInduction
<1> QED
  BY <1>2

\* One term changes, and the sum by as much.
LEMMA SumChange ==
    ASSUME NEW f, NEW g, NEW S, IsFiniteSet(S), NEW y \in S,
           \A x \in S : f[x] \in Int, g[y] \in Int, \A x \in S \ {y} : f[x] = g[x]
    PROVE  SumFunctionOnSet(g, S) = SumFunctionOnSet(f, S) + (g[y] - f[y])
<1>1. IsFiniteSet(S \ {y}) /\ \A x \in S : g[x] \in Int
  BY FS_Subset
<1>2. SumFunctionOnSet(f, S) = f[y] + SumFunctionOnSet(f, S \ {y})
  BY SumRemove
<1>3. SumFunctionOnSet(g, S) = g[y] + SumFunctionOnSet(g, S \ {y})
  BY <1>1, SumRemove
<1>4. SumFunctionOnSet(f, S \ {y}) = SumFunctionOnSet(g, S \ {y})
  BY <1>1, SumSame
<1>5. SumFunctionOnSet(f, S \ {y}) \in Int
  BY <1>1, SumType
<1> QED
  BY <1>2, <1>3, <1>4, <1>5

\* A sum splits over a part and the rest.
LEMMA SumSplit ==
    ASSUME NEW f, NEW S, IsFiniteSet(S), \A x \in S : f[x] \in Int, NEW T \in SUBSET S
    PROVE  SumFunctionOnSet(f, S) = SumFunctionOnSet(f, T) + SumFunctionOnSet(f, S \ T)
<1> DEFINE P == {s \in SUBSET S : SumFunctionOnSet(f, S)
                     = SumFunctionOnSet(f, s) + SumFunctionOnSet(f, S \ s)}
<1>1. ASSUME NEW t \in SUBSET S, \A u \in SUBSET t : u # t => u \in P
      PROVE  t \in P
  <2>1. CASE t = {}
    <3>1. SumFunctionOnSet(f, S) \in Int /\ SumFunctionOnSet(f, t) = 0
      BY <2>1, SumEmpty, SumType
    <3>2. S \ t = S
      BY <2>1
    <3>3. SumFunctionOnSet(f, S \ t) = SumFunctionOnSet(f, S)
      BY <3>2
    <3> QED BY <3>1, <3>3
  <2>2. CASE t # {}
    <3> DEFINE x == Pick(t)
               u == t \ {x}
    <3>1. x \in t /\ IsFiniteSet(t)
      BY <2>2, PickIsIn, FS_Subset
    <3> HIDE DEF x
    <3>2. u \in P /\ IsFiniteSet(u) /\ IsFiniteSet(S \ u) /\ IsFiniteSet(S \ t)
      BY <1>1, <3>1, FS_Subset
    <3>3. SumFunctionOnSet(f, t) = f[x] + SumFunctionOnSet(f, u)
      BY <3>1, SumRemove
    <3>4. SumFunctionOnSet(f, S \ u) = f[x] + SumFunctionOnSet(f, S \ t)
      <4>1. x \in S \ u /\ (S \ u) \ {x} = S \ t
        BY <3>1
      <4> QED BY <3>2, <4>1, SumRemove
    <3>5. /\ f[x] \in Int
          /\ SumFunctionOnSet(f, u) \in Int
          /\ SumFunctionOnSet(f, S \ t) \in Int
      BY <3>1, <3>2, SumType
    <3> QED BY <3>2, <3>3, <3>4, <3>5
  <2> QED BY <2>1, <2>2
<1>2. \A t \in SUBSET S : t \in P
  <2> HIDE DEF P
  <2> QED BY <1>1, SubsetInduction
<1> QED
  BY <1>2

LEMMA SumNat ==
    ASSUME NEW f, NEW S, IsFiniteSet(S), \A x \in S : f[x] \in Nat
    PROVE  SumFunctionOnSet(f, S) \in Nat
<1> DEFINE P == {s \in SUBSET S : SumFunctionOnSet(f, s) \in Nat}
<1>1. ASSUME NEW t \in SUBSET S, \A u \in SUBSET t : u # t => u \in P
      PROVE  t \in P
  <2>1. CASE t = {}
    BY <2>1, SumEmpty
  <2>2. CASE t # {}
    <3>1. Pick(t) \in t /\ IsFiniteSet(t)
      BY <2>2, PickIsIn, FS_Subset
    <3>2. SumFunctionOnSet(f, t \ {Pick(t)}) \in Nat
      BY <1>1, <3>1
    <3>3. f[Pick(t)] \in Nat
      BY <3>1
    <3>4. SumFunctionOnSet(f, t) = f[Pick(t)] + SumFunctionOnSet(f, t \ {Pick(t)})
      BY <2>2, <3>1, SumPick
    <3> QED BY <3>2, <3>3, <3>4
  <2> QED BY <2>1, <2>2
<1>2. \A t \in SUBSET S : t \in P
  <2> HIDE DEF P
  <2> QED BY <1>1, SubsetInduction
<1> QED
  BY <1>2

LEMMA SumZero ==
    ASSUME NEW f, NEW S, IsFiniteSet(S), \A x \in S : f[x] = 0
    PROVE  SumFunctionOnSet(f, S) = 0
<1> DEFINE P == {s \in SUBSET S : SumFunctionOnSet(f, s) = 0}
<1>1. ASSUME NEW t \in SUBSET S, \A u \in SUBSET t : u # t => u \in P
      PROVE  t \in P
  <2>1. CASE t = {}
    BY <2>1, SumEmpty
  <2>2. CASE t # {}
    <3>1. Pick(t) \in t /\ IsFiniteSet(t)
      BY <2>2, PickIsIn, FS_Subset
    <3>2. SumFunctionOnSet(f, t \ {Pick(t)}) = 0 /\ f[Pick(t)] = 0
      BY <1>1, <3>1
    <3>3. SumFunctionOnSet(f, t) = f[Pick(t)] + SumFunctionOnSet(f, t \ {Pick(t)})
      BY <2>2, <3>1, SumPick
    <3> QED BY <3>2, <3>3
  <2> QED BY <2>1, <2>2
<1>2. \A t \in SUBSET S : t \in P
  <2> HIDE DEF P
  <2> QED BY <1>1, SubsetInduction
<1> QED
  BY <1>2

-----------------------------------------------------------------------------
(* Sums side by side.                                                         *)

\* A sum of sums.
LEMMA SumPlus ==
    ASSUME NEW f, NEW g, NEW h, NEW S, IsFiniteSet(S),
           \A x \in S : f[x] \in Int /\ g[x] \in Int /\ h[x] = f[x] + g[x]
    PROVE  SumFunctionOnSet(h, S) = SumFunctionOnSet(f, S) + SumFunctionOnSet(g, S)
<1> DEFINE P == {s \in SUBSET S : SumFunctionOnSet(h, s)
                                    = SumFunctionOnSet(f, s) + SumFunctionOnSet(g, s)}
<1>1. ASSUME NEW t \in SUBSET S, \A u \in SUBSET t : u # t => u \in P
      PROVE  t \in P
  <2>1. CASE t = {}
    BY <2>1, SumEmpty
  <2>2. CASE t # {}
    <3> DEFINE y == Pick(t)
               u == t \ {y}
    <3>1. y \in t /\ y \in S /\ u \in SUBSET t /\ u # t /\ u \in SUBSET S
          /\ IsFiniteSet(t) /\ IsFiniteSet(u)
      BY <2>2, PickIsIn, FS_Subset
    <3>2. SumFunctionOnSet(h, u) = SumFunctionOnSet(f, u) + SumFunctionOnSet(g, u)
      BY <1>1, <3>1
    <3>3. /\ SumFunctionOnSet(f, u) \in Int /\ SumFunctionOnSet(g, u) \in Int
          /\ f[y] \in Int /\ g[y] \in Int /\ h[y] = f[y] + g[y]
      BY <3>1, SumType
    <3>4. /\ SumFunctionOnSet(f, t) = f[y] + SumFunctionOnSet(f, u)
          /\ SumFunctionOnSet(g, t) = g[y] + SumFunctionOnSet(g, u)
          /\ SumFunctionOnSet(h, t) = h[y] + SumFunctionOnSet(h, u)
      BY <2>2, <3>1, SumPick
    <3> HIDE DEF y, u
    <3> QED BY <3>2, <3>3, <3>4
  <2> QED BY <2>1, <2>2
<1>2. \A t \in SUBSET S : t \in P
  <2> HIDE DEF P
  <2> QED BY <1>1, SubsetInduction
<1> QED
  BY <1>2

\* Sums grow with what is summed.
LEMMA SumLeq ==
    ASSUME NEW f, NEW g, NEW S, IsFiniteSet(S),
           \A x \in S : f[x] \in Int /\ g[x] \in Int /\ f[x] <= g[x]
    PROVE  SumFunctionOnSet(f, S) <= SumFunctionOnSet(g, S)
<1> DEFINE d == [x \in S |-> g[x] - f[x]]
<1>1. \A x \in S : d[x] \in Nat /\ d[x] \in Int /\ g[x] = f[x] + d[x]
  OBVIOUS
<1> HIDE DEF d
<1>2. SumFunctionOnSet(g, S) = SumFunctionOnSet(f, S) + SumFunctionOnSet(d, S)
  BY <1>1, SumPlus
<1>3. SumFunctionOnSet(d, S) \in Nat /\ SumFunctionOnSet(f, S) \in Int
  BY <1>1, SumNat, SumType
<1> QED
  BY <1>2, <1>3

\* The sum of a table by rows is its sum by columns.
LEMMA SumByRowOrColumn ==
    ASSUME NEW f, NEW S, NEW T, IsFiniteSet(S), IsFiniteSet(T),
           \A x \in S, y \in T : f[x][y] \in Int
    PROVE  SumFunctionOnSet([x \in S |-> SumFunctionOnSet(f[x], T)], S)
               = SumFunctionOnSet([y \in T |-> SumFunctionOnSet([x \in S |-> f[x][y]], S)], T)
<1> DEFINE Row == [x \in S |-> SumFunctionOnSet(f[x], T)]
           Col(y) == [x \in S |-> f[x][y]]
           ByCol(s) == [y \in T |-> SumFunctionOnSet(Col(y), s)]
           P == {s \in SUBSET S : SumFunctionOnSet(Row, s) = SumFunctionOnSet(ByCol(s), T)}
<1>0. /\ \A x \in S : Row[x] = SumFunctionOnSet(f[x], T)
      /\ \A x \in S : \A y \in T : Col(y)[x] = f[x][y] /\ f[x][y] \in Int
      /\ \A s : \A y \in T : ByCol(s)[y] = SumFunctionOnSet(Col(y), s)
  OBVIOUS
<1> HIDE DEF Row, Col, ByCol
<1>1. ASSUME NEW t \in SUBSET S, \A u \in SUBSET t : u # t => u \in P
      PROVE  t \in P
  <2>1. CASE t = {}
    <3>1. \A y \in T : ByCol(t)[y] = 0
      BY <1>0, <2>1, SumEmpty
    <3>2. SumFunctionOnSet(ByCol(t), T) = 0
      BY <3>1, SumZero
    <3> QED BY <2>1, <3>2, SumEmpty
  <2>2. CASE t # {}
    <3> DEFINE z == Pick(t)
               u == t \ {z}
    <3>1. z \in t /\ z \in S /\ u \in SUBSET t /\ u # t /\ u \in SUBSET S
          /\ IsFiniteSet(t) /\ IsFiniteSet(u)
      BY <2>2, PickIsIn, FS_Subset
    <3>2. SumFunctionOnSet(Row, u) = SumFunctionOnSet(ByCol(u), T)
      BY <1>1, <3>1
    <3>3. SumFunctionOnSet(Row, t) = SumFunctionOnSet(f[z], T) + SumFunctionOnSet(Row, u)
      BY <1>0, <2>2, <3>1, SumPick
    <3>4. \A y \in T : /\ f[z][y] \in Int /\ ByCol(u)[y] \in Int
                       /\ ByCol(t)[y] = f[z][y] + ByCol(u)[y]
      <4> SUFFICES ASSUME NEW y \in T
                   PROVE  /\ f[z][y] \in Int /\ ByCol(u)[y] \in Int
                          /\ ByCol(t)[y] = f[z][y] + ByCol(u)[y]
        OBVIOUS
      <4>1. f[z][y] \in Int /\ Col(y)[z] = f[z][y] /\ \A x \in u : Col(y)[x] \in Int
        BY <1>0, <3>1
      <4>2. SumFunctionOnSet(Col(y), u) \in Int
        BY <3>1, <4>1, SumType
      <4>3. SumFunctionOnSet(Col(y), t) = Col(y)[z] + SumFunctionOnSet(Col(y), u)
        BY <2>2, <3>1, SumPick
      <4>4. ByCol(u)[y] = SumFunctionOnSet(Col(y), u) /\ ByCol(t)[y] = SumFunctionOnSet(Col(y), t)
        BY <1>0
      <4> QED BY <4>1, <4>2, <4>3, <4>4
    <3>5. SumFunctionOnSet(ByCol(t), T) = SumFunctionOnSet(f[z], T) + SumFunctionOnSet(ByCol(u), T)
      <4> HIDE DEF z, u
      <4> QED BY <3>4, SumPlus
    <3> QED BY <3>2, <3>3, <3>5
  <2> QED BY <2>1, <2>2
<1>2. \A t \in SUBSET S : t \in P
  <2> HIDE DEF P
  <2> QED BY <1>1, SubsetInduction
<1>3. SumFunctionOnSet(Row, S) = SumFunctionOnSet(ByCol(S), T)
  BY <1>2
<1> QED
  BY <1>3 DEF Row, Col, ByCol

-----------------------------------------------------------------------------
(* The elements of a sequence.                                               *)

LEMMA ImageOfInterval ==
    ASSUME NEW q, NEW n \in Nat, NEW S, S = {q[j] : j \in 1..n}
    PROVE  IsFiniteSet(S) /\ Cardinality(S) <= n
<1> DEFINE f == [j \in 1..n |-> q[j]]
<1>1. f \in Surjection(1..n, S)
  BY DEF Surjection
<1>2. IsFiniteSet(1..n) /\ Cardinality(1..n) = n
  BY FS_Interval
<1> HIDE DEF f
<1> QED
  BY <1>1, <1>2, FS_Surjection
=============================================================================
