------------------------ MODULE BodyTransportProofs -------------------------
(***************************************************************************)
(* What the way of the bodies from the exporter to a reader's row promises.   *)
(* First the store by itself, for any bounds and any lines in any order:       *)
(* bodies without holes, a queue of exactly what is held, a bill that adds up. *)
(* Then the way there, for any exchanges, ticks, losses, evictions and         *)
(* restarts: that the store at the end of the lane is BodyStore's, and that    *)
(* rows open on their own, whole bodies.                                       *)
(***************************************************************************)
EXTENDS BodyTransport, FiniteSums, SequenceTheorems

-----------------------------------------------------------------------------
(* Messages and entries.                                                     *)

IsContiguous(m) ==
    /\ \A j \in 1..Len(m.d) : m.d[j].off = j - 1
    /\ m.gap => m.more

GoodEntry(e) ==
    /\ e \in Entries
    /\ \A k \in Directions : e.msgs[k] # Nothing => IsContiguous(e.msgs[k])

\* The inductive invariant: every entry is a good one.
IInv == /\ store \in [Ids -> Entries \cup {Nothing}]
        /\ \A i \in Ids : store[i] # Nothing => GoodEntry(store[i])

LEMMA IInvMeaning == IInv => StoreTypeOK /\ Contiguous
BY DEF IInv, StoreTypeOK, Contiguous, GoodEntry, IsContiguous, Held

LEMMA OpenedIsGood ==
    ASSUME NEW line \in HeadLines
    PROVE  Opened(line) \in Messages /\ IsContiguous(Opened(line))
BY DEF HeadLines, Opened, Messages, IsContiguous

LEMMA AppendedIsGood ==
    ASSUME NEW line \in BodyLines, NEW m \in Messages, IsContiguous(m), IsNext(line, m)
    PROVE  LET n == [m EXCEPT !.d = Append(@, [run |-> line.run, off |-> line.off])]
           IN n \in Messages /\ IsContiguous(n)
<1> DEFINE p == [run |-> line.run, off |-> line.off]
           n == [m EXCEPT !.d = Append(@, p)]
<1>1. p \in Pieces /\ p.off = Len(m.d)
  BY DEF BodyLines, Pieces, IsNext
<1>2. m.d \in Seq(Pieces)
  BY DEF Messages
<1> HIDE DEF p
<1>3. n.d = Append(m.d, p) /\ n.gap = m.gap /\ n.more = m.more /\ n \in Messages
  BY <1>1, <1>2 DEF Messages
<1>4. ASSUME NEW j \in 1..Len(Append(m.d, p))
      PROVE  Append(m.d, p)[j].off = j - 1
  BY <1>1, <1>2, <1>4 DEF IsContiguous
<1> QED
  BY <1>3, <1>4 DEF IsContiguous, p

LEMMA BrokenIsGood ==
    ASSUME NEW m \in Messages, IsContiguous(m)
    PROVE  Broken(m) \in Messages /\ IsContiguous(Broken(m))
BY DEF Broken, Messages, IsContiguous

\* An entry with one direction replaced.
LEMMA EntryWithIsGood ==
    ASSUME NEW e, GoodEntry(e), NEW k \in Directions, NEW m \in Messages, IsContiguous(m),
           NEW size \in Int
    PROVE  GoodEntry([bytes |-> e.bytes + size, msgs |-> [e.msgs EXCEPT ![k] = m]])
<1> DEFINE msgs == [e.msgs EXCEPT ![k] = m]
           new == [bytes |-> e.bytes + size, msgs |-> msgs]
<1>1. /\ e.bytes \in Int
      /\ e.msgs \in [Directions -> Messages \cup {Nothing}]
      /\ \A l \in Directions : e.msgs[l] # Nothing => IsContiguous(e.msgs[l])
  BY DEF GoodEntry, Entries
<1>2. msgs \in [Directions -> Messages \cup {Nothing}]
  BY <1>1
<1>3. \A l \in Directions : msgs[l] # Nothing => IsContiguous(msgs[l])
  BY <1>1
<1>4. new \in Entries
  BY <1>1, <1>2 DEF Entries
<1>5. new.msgs = msgs
  OBVIOUS
<1>6. GoodEntry(new)
  <2> HIDE DEF msgs, new
  <2> QED BY <1>3, <1>4, <1>5 DEF GoodEntry
<1> QED
  BY <1>6

LEMMA EntryIsGood ==
    ASSUME IInv, NEW i \in Ids
    PROVE  GoodEntry(Entry(i))
<1>1. GoodEntry(Blank)
  BY DEF GoodEntry, Blank, Entries
<1> QED
  BY <1>1 DEF Entry, IInv

-----------------------------------------------------------------------------
(* Every step keeps the invariant.                                           *)

\* Eviction only takes entries away.
LEMMA SettleKeepsIInv ==
    ASSUME IInv, NEW line \in HeadLines \cup BodyLines, NEW m \in Messages, IsContiguous(m),
           NEW size \in Int, NEW ord, NEW total, Settle(StoreWith(line, m, size), ord, total)
    PROVE  IInv'
<1> DEFINE new == [bytes |-> Entry(line.id).bytes + size,
                   msgs  |-> [Entry(line.id).msgs EXCEPT ![line.k] = m]]
           st == [store EXCEPT ![line.id] = new]
<1>1. line.id \in Ids /\ line.k \in Directions
  BY DEF HeadLines, BodyLines
<1>2. GoodEntry(new)
  BY <1>1, EntryIsGood, EntryWithIsGood
<1>3. StoreWith(line, m, size) = st
  BY DEF StoreWith
<1> HIDE DEF new
<1>4. \A i \in Ids : st[i] = IF i = line.id THEN new ELSE store[i]
  BY <1>1 DEF IInv
<1> HIDE DEF st
<1>5. PICK n \in 0..Len(ord) :
          store' = [i \in Ids |-> IF i \in Oldest(ord, n) THEN Nothing ELSE st[i]]
  BY <1>3 DEF Settle
<1>6. \A i \in Ids : store'[i] = Nothing \/ store'[i] = new \/ store'[i] = store[i]
  BY <1>4, <1>5
<1>7. \A i \in Ids : store'[i] # Nothing => GoodEntry(store'[i])
  BY <1>2, <1>6 DEF IInv
<1>8. store' \in [Ids -> Entries \cup {Nothing}]
  <2>1. store' = [i \in Ids |-> store'[i]]
    BY <1>5
  <2> QED BY <1>7, <2>1 DEF GoodEntry
<1> QED
  BY <1>7, <1>8 DEF IInv

LEMMA GrowthType ==
    ASSUME NEW was \in Messages \cup {Nothing}
    PROVE  Growth(was) \in Int
<1>1. CASE was = Nothing
  BY <1>1 DEF Growth
<1>2. CASE was # Nothing
  BY <1>2 DEF Growth, Size, Messages
<1> QED
  BY <1>1, <1>2

\* What a head is opened with.
LEMMA GrowthOfEntry ==
    ASSUME IInv, NEW line \in HeadLines
    PROVE  Growth(Entry(line.id).msgs[line.k]) \in Int
<1>1. line.id \in Ids /\ line.k \in Directions
  BY DEF HeadLines
<1>2. Entry(line.id).msgs[line.k] \in Messages \cup {Nothing}
  BY <1>1, EntryIsGood DEF GoodEntry, Entries
<1> QED
  BY <1>2, GrowthType

LEMMA HeadKeepsIInv ==
    ASSUME IInv, NEW line \in HeadLines, OpenDirection(line)
    PROVE  IInv'
BY GrowthOfEntry, OpenedIsGood, SettleKeepsIInv DEF OpenDirection

LEMMA PieceKeepsIInv ==
    ASSUME IInv, NEW line \in BodyLines, AddPiece(line)
    PROVE  IInv'
<1> DEFINE m == Entry(line.id).msgs[line.k]
           longer == [m EXCEPT !.d = Append(@, [run |-> line.run, off |-> line.off])]
<1>1. line.id \in Ids /\ line.k \in Directions
  BY DEF BodyLines
<1>2. GoodEntry(Entry(line.id))
  BY <1>1, EntryIsGood
<1>3. CASE ~OpenForMore(m)
  <2>1. store' = [store EXCEPT ![line.id] = Entry(line.id)]
    BY <1>3 DEF AddPiece
  <2> QED BY <1>1, <1>2, <2>1 DEF IInv, GoodEntry
<1>4. ASSUME OpenForMore(m)
      PROVE  m \in Messages /\ IsContiguous(m)
  BY <1>1, <1>2, <1>4 DEF GoodEntry, Entries, OpenForMore
<1>5. CASE OpenForMore(m) /\ ~IsNext(line, m)
  <2> DEFINE new == [bytes |-> Entry(line.id).bytes + 0,
                     msgs  |-> [Entry(line.id).msgs EXCEPT ![line.k] = Broken(m)]]
  <2>1. store' = [store EXCEPT ![line.id] = new]
    BY <1>5 DEF AddPiece, StoreWith
  <2>2. GoodEntry(new)
    BY <1>1, <1>2, <1>4, <1>5, BrokenIsGood, EntryWithIsGood
  <2> HIDE DEF new
  <2> QED BY <1>1, <2>1, <2>2 DEF IInv, GoodEntry
<1>6. CASE OpenForMore(m) /\ IsNext(line, m)
  <2>1. longer \in Messages /\ IsContiguous(longer)
    BY <1>4, <1>6, AppendedIsGood
  <2>2. Settle(StoreWith(line, longer, 1), order, bytes + 1)
    BY <1>6 DEF AddPiece
  <2> HIDE DEF longer
  <2> QED BY <2>1, <2>2, SettleKeepsIInv
<1> QED
  BY <1>3, <1>5, <1>6

-----------------------------------------------------------------------------
(* The theorems.                                                             *)

LEMMA Invariant == StoreSpec => []IInv
<1>1. StoreInit => IInv
  BY DEF StoreInit, IInv
<1>2. IInv /\ [StoreNext]_storeVars => IInv'
  <2> SUFFICES ASSUME IInv, [StoreNext]_storeVars
               PROVE  IInv'
    OBVIOUS
  <2>1. ASSUME NEW line \in HeadLines \cup BodyLines, Part(line)
        PROVE  IInv'
    <3>1. CASE line \in HeadLines
      BY <2>1, <3>1, HeadKeepsIInv DEF Part, HeadLines
    <3>2. CASE line \in BodyLines
      BY <2>1, <3>2, PieceKeepsIInv DEF Part, BodyLines
    <3> QED BY <3>1, <3>2
  <2>2. CASE ResetStore
    BY <2>2 DEF ResetStore, IInv
  <2>3. CASE UNCHANGED storeVars
    BY <2>3 DEF storeVars, IInv
  <2> QED BY <2>1, <2>2, <2>3 DEF StoreNext
<1> QED
  BY <1>1, <1>2, PTL DEF StoreSpec

\* Whatever lines come, in whatever order, no body is concatenated across a hole.
THEOREM BodiesAreContiguous == StoreSpec => []Contiguous
BY Invariant, IInvMeaning, PTL

-----------------------------------------------------------------------------
(* The store is a queue of what it holds.                                    *)

\* What evict() is given, and what it leaves: `ord' holds each id of `st' once.
Queues(ord, st) ==
    /\ ord \in Seq(Ids)
    /\ \A i \in Ids : st[i] # Nothing <=> \E j \in 1..Len(ord) : ord[j] = i
    /\ \A j, l \in 1..Len(ord) : ord[j] = ord[l] => j = l

\* The inductive invariant.
QInv == IInv /\ Queues(order, store)

\* An exchange that is not held yet goes to the end.
LEMMA AppendQueues ==
    ASSUME QInv, NEW i \in Ids, NEW e, e # Nothing
    PROVE  Queues(OrderWith(i), [store EXCEPT ![i] = e])
<1> DEFINE st == [store EXCEPT ![i] = e]
<1>1. /\ order \in Seq(Ids)
      /\ \A g \in Ids : store[g] # Nothing <=> \E j \in 1..Len(order) : order[j] = g
      /\ \A j, l \in 1..Len(order) : order[j] = order[l] => j = l
  BY DEF QInv, Queues
<1>2. \A g \in Ids : st[g] = IF g = i THEN e ELSE store[g]
  BY DEF QInv, IInv
<1> HIDE DEF st
<1>3. CASE store[i] # Nothing
  <2>1. OrderWith(i) = order
    BY <1>3 DEF OrderWith
  <2>2. \A g \in Ids : st[g] # Nothing <=> store[g] # Nothing
    BY <1>2, <1>3
  <2> QED BY <1>1, <2>1, <2>2 DEF Queues, st
<1>4. CASE store[i] = Nothing
  <2> DEFINE ord == Append(order, i)
  <2>1. OrderWith(i) = ord
    BY <1>4 DEF OrderWith
  <2>2. ord \in Seq(Ids) /\ Len(ord) = Len(order) + 1 /\ Len(order) \in Nat
        /\ ord[Len(order) + 1] = i /\ \A j \in 1..Len(order) : ord[j] = order[j]
    BY <1>1
  <2>3. \A j \in 1..Len(order) : order[j] \in Ids /\ order[j] # i
    BY <1>1, <1>4
  <2> HIDE DEF ord
  <2>4. ASSUME NEW g \in Ids
        PROVE  st[g] # Nothing <=> \E j \in 1..Len(ord) : ord[j] = g
    <3>1. CASE g = i
      BY <1>2, <2>2, <3>1
    <3>2. CASE g # i
      <4>1. st[g] = store[g]
        BY <1>2, <3>2
      <4>2. (\E j \in 1..Len(ord) : ord[j] = g) <=> \E j \in 1..Len(order) : order[j] = g
        BY <2>2, <3>2
      <4> QED BY <1>1, <4>1, <4>2
    <3> QED BY <3>1, <3>2
  <2>5. ASSUME NEW j \in 1..Len(ord), NEW l \in 1..Len(ord), ord[j] = ord[l]
        PROVE  j = l
    BY <1>1, <2>2, <2>3, <2>5
  <2> QED BY <2>1, <2>2, <2>4, <2>5 DEF Queues, st
<1> QED
  BY <1>3, <1>4

\* evict() takes from the front of the queue exactly what it takes from the store.
LEMMA SettleQueues ==
    ASSUME NEW st, NEW ord, NEW total, Queues(ord, st), Settle(st, ord, total)
    PROVE  Queues(order, store)'
<1>1. PICK n \in 0..Len(ord) :
          /\ store' = [i \in Ids |-> IF i \in Oldest(ord, n) THEN Nothing ELSE st[i]]
          /\ order' = SubSeq(ord, n + 1, Len(ord))
  BY DEF Settle
<1>2. /\ ord \in Seq(Ids) /\ Len(ord) \in Nat
      /\ \A i \in Ids : st[i] # Nothing <=> \E j \in 1..Len(ord) : ord[j] = i
      /\ \A j, l \in 1..Len(ord) : ord[j] = ord[l] => j = l
  BY DEF Queues
<1>3. order' \in Seq(Ids) /\ Len(order') = Len(ord) - n
  BY <1>1, <1>2
<1>4. \A j \in 1..Len(order') : order'[j] = ord[j + n]
  BY <1>1, <1>2, <1>3
<1>5. ASSUME NEW i \in Ids
      PROVE  store'[i] # Nothing <=> \E j \in 1..Len(order') : order'[j] = i
  <2>1. store'[i] = IF i \in Oldest(ord, n) THEN Nothing ELSE st[i]
    BY <1>1
  <2>2. ASSUME NEW j \in 1..Len(order'), order'[j] = i
        PROVE  store'[i] # Nothing
    <3>1. j + n \in 1..Len(ord) /\ ord[j + n] = i /\ j + n > n
      BY <1>2, <1>3, <1>4, <2>2
    <3>2. \A l \in 1..n : l \in 1..Len(ord) /\ l # j + n
      BY <1>2, <3>1
    <3>3. i \notin Oldest(ord, n)
      BY <1>2, <3>1, <3>2 DEF Oldest
    <3>4. st[i] # Nothing
      BY <1>2, <3>1
    <3> QED BY <2>1, <3>3, <3>4
  <2>3. ASSUME store'[i] # Nothing
        PROVE  \E j \in 1..Len(order') : order'[j] = i
    <3>1. st[i] # Nothing /\ i \notin Oldest(ord, n)
      BY <2>1, <2>3
    <3>2. PICK l \in 1..Len(ord) : ord[l] = i
      BY <1>2, <3>1
    <3>3. l \notin 1..n
      BY <3>1, <3>2 DEF Oldest
    <3>4. l - n \in 1..Len(order') /\ (l - n) + n = l
      BY <1>2, <1>3, <3>2, <3>3
    <3> QED BY <1>4, <3>2, <3>4
  <2> QED BY <2>2, <2>3
<1>6. ASSUME NEW j \in 1..Len(order'), NEW l \in 1..Len(order'), order'[j] = order'[l]
      PROVE  j = l
  <2>1. j + n \in 1..Len(ord) /\ l + n \in 1..Len(ord) /\ ord[j + n] = ord[l + n]
    BY <1>2, <1>3, <1>4, <1>6
  <2> QED BY <1>2, <2>1
<1> QED
  BY <1>3, <1>5, <1>6 DEF Queues

\* A line that fits in makes an entry.
LEMMA StoreWithQueues ==
    ASSUME QInv, NEW line \in HeadLines \cup BodyLines, NEW m \in Messages, IsContiguous(m),
           NEW size \in Int
    PROVE  Queues(OrderWith(line.id), StoreWith(line, m, size))
<1> DEFINE e == [bytes |-> Entry(line.id).bytes + size,
                 msgs  |-> [Entry(line.id).msgs EXCEPT ![line.k] = m]]
<1>1. line.id \in Ids /\ line.k \in Directions
  BY DEF HeadLines, BodyLines
<1>2. GoodEntry(e)
  BY <1>1, EntryIsGood, EntryWithIsGood DEF QInv
<1>3. StoreWith(line, m, size) = [store EXCEPT ![line.id] = e]
  BY DEF StoreWith
<1> HIDE DEF e
<1>4. e # Nothing
  BY <1>2, BodyStoreAssumption DEF GoodEntry
<1>5. Queues(OrderWith(line.id), [store EXCEPT ![line.id] = e])
  BY <1>1, <1>4, AppendQueues
<1> QED
  BY <1>3, <1>5

LEMMA HeadQueues ==
    ASSUME QInv, NEW line \in HeadLines, OpenDirection(line)
    PROVE  Queues(order, store)'
<1> DEFINE size == Growth(Entry(line.id).msgs[line.k])
<1>1. size \in Int
  BY GrowthOfEntry DEF QInv
<1>2. Settle(StoreWith(line, Opened(line), size), OrderWith(line.id), bytes + size)
  BY DEF OpenDirection
<1> HIDE DEF size
<1>3. Queues(OrderWith(line.id), StoreWith(line, Opened(line), size))
  BY <1>1, OpenedIsGood, StoreWithQueues
<1> QED
  BY <1>2, <1>3, SettleQueues

LEMMA PieceQueues ==
    ASSUME QInv, NEW line \in BodyLines, AddPiece(line)
    PROVE  Queues(order, store)'
<1> DEFINE m == Entry(line.id).msgs[line.k]
           longer == [m EXCEPT !.d = Append(@, [run |-> line.run, off |-> line.off])]
<1>1. line.id \in Ids /\ line.k \in Directions
  BY DEF BodyLines
<1>2. GoodEntry(Entry(line.id))
  BY <1>1, EntryIsGood DEF QInv
<1>3. CASE ~OpenForMore(m)
  <2>1. store' = [store EXCEPT ![line.id] = Entry(line.id)] /\ order' = OrderWith(line.id)
    BY <1>3 DEF AddPiece
  <2>2. Entry(line.id) # Nothing
    BY <1>2, BodyStoreAssumption DEF GoodEntry
  <2> QED BY <1>1, <2>1, <2>2, AppendQueues
<1>4. ASSUME OpenForMore(m)
      PROVE  m \in Messages /\ IsContiguous(m) /\ OrderWith(line.id) = order
  <2>1. m # Nothing
    BY <1>4 DEF OpenForMore
  <2>2. m \in Messages /\ IsContiguous(m)
    BY <1>1, <1>2, <2>1 DEF GoodEntry, Entries
  <2>3. store[line.id] # Nothing
    BY <1>1, <2>1 DEF Entry, Blank
  <2> QED BY <2>2, <2>3 DEF OrderWith
<1>5. CASE OpenForMore(m) /\ ~IsNext(line, m)
  <2>1. store' = StoreWith(line, Broken(m), 0) /\ order' = order
    BY <1>5 DEF AddPiece
  <2>2. Queues(OrderWith(line.id), StoreWith(line, Broken(m), 0))
    BY <1>4, <1>5, BrokenIsGood, StoreWithQueues
  <2> QED BY <1>4, <1>5, <2>1, <2>2
<1>6. CASE OpenForMore(m) /\ IsNext(line, m)
  <2>1. longer \in Messages /\ IsContiguous(longer)
    BY <1>4, <1>6, AppendedIsGood
  <2>2. Settle(StoreWith(line, longer, 1), order, bytes + 1)
    BY <1>6 DEF AddPiece
  <2> HIDE DEF longer
  <2>3. Queues(order, StoreWith(line, longer, 1))
    BY <1>4, <1>6, <2>1, StoreWithQueues
  <2> QED BY <2>2, <2>3, SettleQueues
<1> QED
  BY <1>3, <1>5, <1>6

LEMMA QInvariant == StoreSpec => []QInv
<1>1. StoreInit => QInv
  <2> SUFFICES ASSUME StoreInit PROVE Queues(order, store) /\ IInv
    BY DEF QInv
  <2> QED BY DEF StoreInit, Queues, IInv
<1>2. QInv /\ IInv' /\ [StoreNext]_storeVars => QInv'
  <2> SUFFICES ASSUME QInv, [StoreNext]_storeVars PROVE Queues(order, store)'
    BY DEF QInv
  <2>1. ASSUME NEW line \in HeadLines \cup BodyLines, Part(line) PROVE Queues(order, store)'
    <3>1. CASE line \in HeadLines
      BY <2>1, <3>1, HeadQueues DEF Part, HeadLines
    <3>2. CASE line \in BodyLines
      BY <2>1, <3>2, PieceQueues DEF Part, BodyLines
    <3> QED BY <3>1, <3>2
  <2>2. CASE ResetStore
    BY <2>2 DEF ResetStore, Queues
  <2>3. CASE UNCHANGED storeVars
    BY <2>3 DEF storeVars, QInv, Queues
  <2> QED BY <2>1, <2>2, <2>3 DEF StoreNext
<1> QED
  BY <1>1, <1>2, Invariant, PTL DEF StoreSpec

\* evict() and part(): what eviction can drop is what is held, once each, oldest first,
\* however heads, pieces, evictions and resets follow one another.
THEOREM QueueIsStore == StoreSpec => []OrderIsStore
<1>1. QInv => OrderIsStore
  BY DEF QInv, Queues, OrderIsStore
<1> QED
  BY <1>1, QInvariant, PTL

-----------------------------------------------------------------------------
(* The bill.                                                                 *)

HeldIn(st) == {i \in Ids : st[i] # Nothing}

\* What is charged for a store: the sum of what its entries are, each what its messages
\* take.
Billed(st, total) ==
    /\ total = SizeOf(st, HeldIn(st))
    /\ \A i \in HeldIn(st) : st[i].bytes = Charge(st[i].msgs)

\* The inductive invariant: the bill can only be kept by a queue that is the store.
BInv == QInv /\ Billed(store, bytes)

LEMMA QueuedIsFinite ==
    ASSUME NEW st, NEW ord, Queues(ord, st)
    PROVE  IsFiniteSet(HeldIn(st)) /\ Cardinality(HeldIn(st)) <= Len(ord)
<1>1. Len(ord) \in Nat /\ \A j \in 1..Len(ord) : ord[j] \in Ids
  BY DEF Queues
<1>2. HeldIn(st) = {ord[j] : j \in 1..Len(ord)}
  BY <1>1 DEF HeldIn, Queues
<1> QED
  BY <1>1, <1>2, ImageOfInterval

LEMMA SizeIsInt ==
    ASSUME NEW st \in [Ids -> Entries \cup {Nothing}], NEW S \in SUBSET HeldIn(st),
           IsFiniteSet(S)
    PROVE  SizeOf(st, S) \in Int /\ \A i \in S : st[i].bytes \in Int
<1>1. \A i \in S : st[i].bytes \in Int
  BY DEF HeldIn, Entries
<1> QED
  BY <1>1, SumType DEF SizeOf

\* What a store is charged for is so much by the entries taken and so much by the rest.
LEMMA SizeSplits ==
    ASSUME NEW st \in [Ids -> Entries \cup {Nothing}], IsFiniteSet(HeldIn(st)),
           NEW S \in SUBSET HeldIn(st)
    PROVE  SizeOf(st, HeldIn(st)) = SizeOf(st, S) + SizeOf(st, HeldIn(st) \ S)
<1> DEFINE all == HeldIn(st)
           rest == all \ S
           f == [i \in all |-> st[i].bytes]
           g == [i \in S |-> st[i].bytes]
           h == [i \in rest |-> st[i].bytes]
<1>1. IsFiniteSet(S) /\ IsFiniteSet(rest)
  BY FS_Subset
<1>2. \A i \in all : f[i] \in Int
  BY DEF HeldIn, Entries
<1>3. (\A i \in S : f[i] = g[i]) /\ (\A i \in rest : f[i] = h[i])
  OBVIOUS
<1>4. SizeOf(st, all) = SumFunctionOnSet(f, all) /\ SizeOf(st, S) = SumFunctionOnSet(g, S)
      /\ SizeOf(st, rest) = SumFunctionOnSet(h, rest)
  BY DEF SizeOf
<1> HIDE DEF f, g, h
<1>5. SumFunctionOnSet(f, all) = SumFunctionOnSet(f, S) + SumFunctionOnSet(f, rest)
  BY <1>2, SumSplit
<1>6. SumFunctionOnSet(f, S) = SumFunctionOnSet(g, S)
      /\ SumFunctionOnSet(f, rest) = SumFunctionOnSet(h, rest)
  BY <1>1, <1>3, SumSame
<1> QED
  BY <1>4, <1>5, <1>6

LEMMA SizeOfSame ==
    ASSUME NEW st, NEW tt, NEW S, IsFiniteSet(S), \A i \in S : st[i] = tt[i]
    PROVE  SizeOf(st, S) = SizeOf(tt, S)
<1> DEFINE f == [i \in S |-> st[i].bytes]
           g == [i \in S |-> tt[i].bytes]
<1>1. \A i \in S : f[i] = g[i]
  OBVIOUS
<1> HIDE DEF f, g
<1>2. SumFunctionOnSet(f, S) = SumFunctionOnSet(g, S)
  BY <1>1, SumSame
<1> QED
  BY <1>2 DEF SizeOf, f, g

\* What is left after the n oldest of the queue are gone.
LEMMA WhatIsLeft ==
    ASSUME NEW st \in [Ids -> Entries \cup {Nothing}], NEW ord, Queues(ord, st),
           NEW n \in 0..Len(ord),
           store' = [i \in Ids |-> IF i \in Oldest(ord, n) THEN Nothing ELSE st[i]]
    PROVE  /\ Oldest(ord, n) \in SUBSET HeldIn(st)
           /\ HeldIn(store') = HeldIn(st) \ Oldest(ord, n)
           /\ \A i \in HeldIn(store') : store'[i] = st[i]
<1>1. \A j \in 1..n : j \in 1..Len(ord) /\ ord[j] \in Ids
  BY DEF Queues
<1>2. Oldest(ord, n) \in SUBSET HeldIn(st)
  BY <1>1 DEF Oldest, HeldIn, Queues
<1>3. \A i \in Ids : store'[i] = IF i \in Oldest(ord, n) THEN Nothing ELSE st[i]
  OBVIOUS
<1>4. HeldIn(store') = HeldIn(st) \ Oldest(ord, n)
  BY <1>3 DEF HeldIn
<1> QED
  BY <1>2, <1>3, <1>4 DEF HeldIn

\* evict() takes off the bill what it takes from the store.
LEMMA SettleBills ==
    ASSUME NEW st \in [Ids -> Entries \cup {Nothing}], NEW ord, NEW total,
           Queues(ord, st), Billed(st, total), Settle(st, ord, total)
    PROVE  Billed(store, bytes)'
<1>1. PICK n \in 0..Len(ord) :
          /\ store' = [i \in Ids |-> IF i \in Oldest(ord, n) THEN Nothing ELSE st[i]]
          /\ bytes' = total - SizeOf(st, Oldest(ord, n))
  BY DEF Settle
<1> DEFINE old == Oldest(ord, n)
<1>2. /\ old \in SUBSET HeldIn(st)
      /\ HeldIn(store') = HeldIn(st) \ old
      /\ \A i \in HeldIn(store') : store'[i] = st[i]
  BY <1>1, WhatIsLeft
<1> HIDE DEF old
<1>3. IsFiniteSet(HeldIn(st)) /\ IsFiniteSet(HeldIn(store')) /\ IsFiniteSet(old)
  BY <1>2, QueuedIsFinite, FS_Subset
<1>4. total = SizeOf(st, old) + SizeOf(st, HeldIn(store'))
  BY <1>2, <1>3, SizeSplits DEF Billed
<1>5. SizeOf(st, old) \in Int /\ SizeOf(st, HeldIn(store')) \in Int
  BY <1>2, <1>3, SizeIsInt
<1>6. SizeOf(st, HeldIn(store')) = SizeOf(store', HeldIn(store'))
  BY <1>2, <1>3, SizeOfSame
<1>7. bytes' = SizeOf(store', HeldIn(store'))
  BY <1>1, <1>4, <1>5, <1>6 DEF old
<1>8. \A i \in HeldIn(store') : store'[i].bytes = Charge(store'[i].msgs)
  BY <1>2 DEF Billed
<1> QED
  BY <1>7, <1>8 DEF Billed

\* An entry replaced changes the bill by the difference.
LEMMA EntryBills ==
    ASSUME QInv, Billed(store, bytes), NEW i \in Ids, NEW e \in Entries,
           e.bytes = Charge(e.msgs)
    PROVE  Billed([store EXCEPT ![i] = e], bytes + (e.bytes - Entry(i).bytes))
<1> DEFINE st == [store EXCEPT ![i] = e]
<1>1. /\ store \in [Ids -> Entries \cup {Nothing}]
      /\ e # Nothing /\ e.bytes \in Int
      /\ IsFiniteSet(HeldIn(store))
  BY BodyStoreAssumption, QueuedIsFinite DEF QInv, IInv, Entries
<1>2. /\ st \in [Ids -> Entries \cup {Nothing}]
      /\ \A j \in Ids : st[j] = IF j = i THEN e ELSE store[j]
  BY <1>1
<1> HIDE DEF st
<1>3. HeldIn(st) = HeldIn(store) \cup {i} /\ st[i] = e
      /\ \A j \in HeldIn(store) \ {i} : st[j] = store[j]
  BY <1>1, <1>2 DEF HeldIn
<1>4. \A j \in HeldIn(st) : st[j].bytes = Charge(st[j].msgs)
  BY <1>3 DEF Billed
<1> DEFINE f == [j \in HeldIn(store) |-> store[j].bytes]
           g == [j \in HeldIn(st) |-> st[j].bytes]
<1>5. /\ \A j \in HeldIn(store) : f[j] = store[j].bytes /\ f[j] \in Int
      /\ \A j \in HeldIn(st) : g[j] = st[j].bytes /\ g[j] \in Int
  BY <1>1, <1>2 DEF HeldIn, Entries
<1>6. SizeOf(store, HeldIn(store)) = SumFunctionOnSet(f, HeldIn(store))
      /\ SizeOf(st, HeldIn(st)) = SumFunctionOnSet(g, HeldIn(st))
  BY DEF SizeOf
<1> HIDE DEF f, g
<1>7. bytes = SumFunctionOnSet(f, HeldIn(store)) /\ bytes \in Int
  BY <1>1, <1>5, <1>6, SumType DEF Billed
<1>8. CASE store[i] = Nothing
  <2>1. i \notin HeldIn(store) /\ Entry(i).bytes = 0 /\ g[i] = e.bytes
    BY <1>3, <1>5, <1>8 DEF HeldIn, Entry, Blank
  <2>2. SumFunctionOnSet(g, HeldIn(st)) = g[i] + SumFunctionOnSet(g, HeldIn(store))
    BY <1>1, <1>3, <1>5, <2>1, SumAdd
  <2>3. \A j \in HeldIn(store) : f[j] = g[j]
    BY <1>3, <1>5, <2>1
  <2>4. SumFunctionOnSet(f, HeldIn(store)) = SumFunctionOnSet(g, HeldIn(store))
    BY <1>1, <2>3, SumSame
  <2>5. bytes + (e.bytes - Entry(i).bytes) = SizeOf(st, HeldIn(st))
    BY <1>1, <1>6, <1>7, <2>1, <2>2, <2>4
  <2> QED BY <1>4, <2>5 DEF Billed, st
<1>9. CASE store[i] # Nothing
  <2>1. i \in HeldIn(store) /\ HeldIn(st) = HeldIn(store) /\ Entry(i) = store[i]
        /\ f[i] = store[i].bytes /\ g[i] = e.bytes
    BY <1>3, <1>5, <1>9 DEF HeldIn, Entry
  <2>2. \A j \in HeldIn(store) \ {i} : f[j] = g[j]
    BY <1>3, <1>5
  <2>3. SumFunctionOnSet(g, HeldIn(store)) = SumFunctionOnSet(f, HeldIn(store)) + (g[i] - f[i])
    BY <1>1, <1>5, <2>1, <2>2, SumChange
  <2>4. bytes + (e.bytes - Entry(i).bytes) = SizeOf(st, HeldIn(st))
    BY <1>6, <1>7, <2>1, <2>3
  <2> QED BY <1>4, <2>4 DEF Billed, st
<1> QED
  BY <1>8, <1>9

\* What a direction takes.
Taken(msg) == IF msg = Nothing THEN 0 ELSE Size(msg)

LEMMA TakenType ==
    ASSUME NEW msg \in Messages \cup {Nothing}
    PROVE  Taken(msg) \in Int
BY DEF Taken, Size, Messages

LEMMA DirectionsFinite == IsFiniteSet(Directions)
<1>1. IsFiniteSet({"req"}) /\ Directions = {"req"} \cup {"res"}
  BY FS_Singleton DEF Directions
<1> QED
  BY <1>1, FS_AddElement

LEMMA BlankCharge == Charge(Blank.msgs) = 0
<1> DEFINE f == [k \in Directions |-> IF Blank.msgs[k] = Nothing THEN 0 ELSE Size(Blank.msgs[k])]
<1>1. \A k \in Directions : f[k] = 0
  BY DEF Blank
<1> HIDE DEF f
<1>2. SumFunctionOnSet(f, Directions) = 0
  BY <1>1, DirectionsFinite, SumZero
<1> QED
  BY <1>2 DEF Charge, f

\* Replacing what a direction holds changes what the entry takes by as much.
LEMMA ChargeWith ==
    ASSUME NEW msgs \in [Directions -> Messages \cup {Nothing}], NEW k \in Directions,
           NEW m \in Messages
    PROVE  Charge([msgs EXCEPT ![k] = m]) = Charge(msgs) + (Size(m) - Taken(msgs[k]))
<1> DEFINE with == [msgs EXCEPT ![k] = m]
           f == [d \in Directions |-> IF msgs[d] = Nothing THEN 0 ELSE Size(msgs[d])]
           g == [d \in Directions |-> IF with[d] = Nothing THEN 0 ELSE Size(with[d])]
<1>1. m # Nothing
  BY BodyStoreAssumption
<1>2. with \in [Directions -> Messages \cup {Nothing}]
      /\ \A d \in Directions : with[d] = IF d = k THEN m ELSE msgs[d]
  OBVIOUS
<1>3. Charge(msgs) = SumFunctionOnSet(f, Directions)
      /\ Charge(with) = SumFunctionOnSet(g, Directions)
  BY DEF Charge
<1> HIDE DEF with
<1>4. /\ \A d \in Directions : f[d] = Taken(msgs[d]) /\ g[d] = Taken(with[d])
  BY DEF Taken
<1> HIDE DEF f, g
<1>5. \A d \in Directions : f[d] \in Int /\ g[d] \in Int
  BY <1>2, <1>4, TakenType
<1>6. \A d \in Directions \ {k} : f[d] = g[d]
  BY <1>2, <1>4
<1>7. SumFunctionOnSet(g, Directions) = SumFunctionOnSet(f, Directions) + (g[k] - f[k])
  BY <1>5, <1>6, DirectionsFinite, SumChange
<1>8. g[k] = Size(m) /\ f[k] = Taken(msgs[k])
  BY <1>1, <1>2, <1>4 DEF Taken
<1> QED
  BY <1>3, <1>7, <1>8 DEF with

LEMMA ChargeType ==
    ASSUME NEW msgs \in [Directions -> Messages \cup {Nothing}]
    PROVE  Charge(msgs) \in Int
<1> DEFINE f == [d \in Directions |-> IF msgs[d] = Nothing THEN 0 ELSE Size(msgs[d])]
<1>1. \A d \in Directions : f[d] = Taken(msgs[d])
  BY DEF Taken
<1>2. \A d \in Directions : f[d] \in Int
  BY <1>1, TakenType
<1> HIDE DEF f
<1> QED
  BY <1>2, DirectionsFinite, SumType DEF Charge, f

\* The entry of a line's exchange is charged what it takes, held or not.
LEMMA EntryCharged ==
    ASSUME BInv, NEW i \in Ids
    PROVE  Entry(i).bytes = Charge(Entry(i).msgs)
<1>1. CASE store[i] = Nothing
  BY <1>1, BlankCharge DEF Entry, Blank
<1>2. CASE store[i] # Nothing
  BY <1>2 DEF Entry, BInv, Billed, HeldIn
<1> QED
  BY <1>1, <1>2

\* A line that fits in is charged as much as what it takes.
LEMMA StoreWithBills ==
    ASSUME BInv, NEW line \in HeadLines \cup BodyLines, NEW m \in Messages, IsContiguous(m),
           NEW size \in Int, size = Size(m) - Taken(Entry(line.id).msgs[line.k])
    PROVE  /\ Billed(StoreWith(line, m, size), bytes + size)
           /\ StoreWith(line, m, size) \in [Ids -> Entries \cup {Nothing}]
<1> DEFINE msgs == [Entry(line.id).msgs EXCEPT ![line.k] = m]
           e == [bytes |-> Entry(line.id).bytes + size, msgs  |-> msgs]
<1>1. line.id \in Ids /\ line.k \in Directions
  BY DEF HeadLines, BodyLines
<1>2. GoodEntry(Entry(line.id))
  BY <1>1, EntryIsGood DEF BInv, QInv
<1>3. GoodEntry(e)
  BY <1>1, <1>2, EntryWithIsGood
<1>4. Entry(line.id).msgs \in [Directions -> Messages \cup {Nothing}]
      /\ Entry(line.id).bytes \in Int
  BY <1>2 DEF GoodEntry, Entries
<1>5. Charge(msgs) = Entry(line.id).bytes + size
  BY <1>1, <1>4, ChargeWith, EntryCharged
<1>6. StoreWith(line, m, size) = [store EXCEPT ![line.id] = e]
  BY DEF StoreWith
<1>7. e.bytes = Entry(line.id).bytes + size /\ e.msgs = msgs
  OBVIOUS
<1> HIDE DEF e, msgs
<1>8. e.bytes = Charge(e.msgs) /\ e \in Entries
  BY <1>3, <1>5, <1>7 DEF GoodEntry
<1>9. Billed([store EXCEPT ![line.id] = e], bytes + (e.bytes - Entry(line.id).bytes))
  BY <1>1, <1>8, EntryBills DEF BInv
<1>10. e.bytes - Entry(line.id).bytes = size
  BY <1>4, <1>7
<1> QED
  BY <1>1, <1>6, <1>8, <1>9, <1>10 DEF BInv, QInv, IInv

LEMMA HeadSettles ==
    ASSUME BInv, NEW line \in HeadLines, OpenDirection(line)
    PROVE  \E st, total :
               /\ Settle(st, OrderWith(line.id), total)
               /\ st \in [Ids -> Entries \cup {Nothing}]
               /\ Queues(OrderWith(line.id), st)
               /\ Billed(st, total)
<1> DEFINE was == Entry(line.id).msgs[line.k]
           size == Growth(was)
<1>1. size \in Int
  BY GrowthOfEntry DEF BInv, QInv
<1>2. Settle(StoreWith(line, Opened(line), size), OrderWith(line.id), bytes + size)
  BY DEF OpenDirection
<1>3. was \in Messages \cup {Nothing}
  <2>1. line.id \in Ids /\ line.k \in Directions
    BY DEF HeadLines
  <2> QED BY <2>1, EntryIsGood DEF BInv, QInv, GoodEntry, Entries
<1>4. size = Size(Opened(line)) - Taken(was)
  <2>1. Size(Opened(line)) = 1
    BY DEF Size, Opened
  <2>2. CASE was = Nothing
    BY <2>1, <2>2 DEF Taken, Growth
  <2>3. CASE was # Nothing
    BY <2>1, <2>3 DEF Taken, Growth
  <2> QED BY <2>2, <2>3
<1> HIDE DEF size, was
<1>5. Opened(line) \in Messages /\ IsContiguous(Opened(line))
  BY OpenedIsGood
<1>6. Billed(StoreWith(line, Opened(line), size), bytes + size)
      /\ StoreWith(line, Opened(line), size) \in [Ids -> Entries \cup {Nothing}]
  BY <1>1, <1>4, <1>5, StoreWithBills DEF was
<1>7. Queues(OrderWith(line.id), StoreWith(line, Opened(line), size))
  BY <1>1, <1>5, StoreWithQueues DEF BInv
<1> QED
  BY <1>2, <1>6, <1>7

\* What a body line does: it settles a store that grew by a piece, or leaves what is held
\* as large as it was.
LEMMA PieceSettles ==
    ASSUME BInv, NEW line \in BodyLines, AddPiece(line)
    PROVE  \/ \E st, total :
                  /\ Settle(st, order, total)
                  /\ st \in [Ids -> Entries \cup {Nothing}]
                  /\ Queues(order, st)
                  /\ Billed(st, total)
           \/ /\ Billed(store', bytes)
              /\ bytes' = bytes
              /\ \A i \in Ids, k \in Directions : Held(i, k)' => Held(i, k)
<1> DEFINE m == Entry(line.id).msgs[line.k]
           longer == [m EXCEPT !.d = Append(@, [run |-> line.run, off |-> line.off])]
<1>1. line.id \in Ids /\ line.k \in Directions
  BY DEF BodyLines
<1>2. GoodEntry(Entry(line.id))
  BY <1>1, EntryIsGood DEF BInv, QInv
<1>3. Entry(line.id) \in Entries /\ Entry(line.id).bytes \in Int
  BY <1>2 DEF GoodEntry, Entries
<1>4. bytes \in Int
  <2>1. IsFiniteSet(HeldIn(store))
    BY QueuedIsFinite DEF BInv, QInv
  <2> QED BY <2>1, SizeIsInt DEF BInv, QInv, IInv, Billed
<1>5. CASE ~OpenForMore(m)
  <2>1. store' = [store EXCEPT ![line.id] = Entry(line.id)] /\ bytes' = bytes
    BY <1>5 DEF AddPiece
  <2>2. Billed(store', bytes + (Entry(line.id).bytes - Entry(line.id).bytes))
    BY <1>1, <1>3, <2>1, EntryCharged, EntryBills DEF BInv
  <2>3. bytes + (Entry(line.id).bytes - Entry(line.id).bytes) = bytes
    BY <1>3, <1>4
  <2>4. ASSUME NEW i \in Ids, NEW k \in Directions, Held(i, k)'
        PROVE  Held(i, k)
    <3>1. store'[i] = IF i = line.id THEN Entry(line.id) ELSE store[i]
      BY <1>1, <2>1 DEF BInv, QInv, IInv
    <3> QED BY <2>4, <3>1 DEF Held, Entry, Blank
  <2> QED BY <2>1, <2>2, <2>3, <2>4
<1>6. ASSUME OpenForMore(m)
      PROVE  /\ m \in Messages /\ IsContiguous(m) /\ OrderWith(line.id) = order
             /\ Taken(m) = Size(m) /\ store[line.id] # Nothing
  <2>1. m # Nothing
    BY <1>6 DEF OpenForMore
  <2>2. m \in Messages /\ IsContiguous(m)
    BY <1>1, <1>2, <2>1 DEF GoodEntry, Entries
  <2>3. store[line.id] # Nothing
    BY <1>1, <2>1 DEF Entry, Blank
  <2> QED BY <2>1, <2>2, <2>3 DEF OrderWith, Taken
<1>7. CASE OpenForMore(m) /\ ~IsNext(line, m)
  <2>1. store' = StoreWith(line, Broken(m), 0) /\ bytes' = bytes
    BY <1>7 DEF AddPiece
  <2>2. Broken(m) \in Messages /\ IsContiguous(Broken(m))
    BY <1>6, <1>7, BrokenIsGood
  <2>3. 0 = Size(Broken(m)) - Taken(m)
    <3>1. Broken(m).d = m.d /\ Len(m.d) \in Nat
      BY <1>6, <1>7 DEF Broken, Messages
    <3> QED BY <1>6, <1>7, <3>1 DEF Size
  <2>4. Billed(store', bytes + 0)
    BY <2>1, <2>2, <2>3, StoreWithBills
  <2>5. ASSUME NEW i \in Ids, NEW k \in Directions, Held(i, k)'
        PROVE  Held(i, k)
    <3> DEFINE e == [bytes |-> Entry(line.id).bytes + 0,
                     msgs  |-> [Entry(line.id).msgs EXCEPT ![line.k] = Broken(m)]]
    <3>1. store'[i] = IF i = line.id THEN e ELSE store[i]
      BY <1>1, <2>1 DEF StoreWith, BInv, QInv, IInv
    <3>2. Entry(line.id) = store[line.id] /\ m # Nothing
      BY <1>6, <1>7 DEF Entry, OpenForMore
    <3>3. e.msgs[k] = IF k = line.k THEN Broken(m) ELSE store[line.id].msgs[k]
      BY <1>1, <1>3, <3>2 DEF Entries
    <3> HIDE DEF e
    <3> QED BY <1>6, <1>7, <2>5, <3>1, <3>2, <3>3 DEF Held
  <2> QED BY <1>4, <2>1, <2>4, <2>5
<1>8. CASE OpenForMore(m) /\ IsNext(line, m)
  <2>1. longer \in Messages /\ IsContiguous(longer)
    BY <1>6, <1>8, AppendedIsGood
  <2>2. Settle(StoreWith(line, longer, 1), order, bytes + 1)
    BY <1>8 DEF AddPiece
  <2>3. 1 = Size(longer) - Taken(m)
    <3>1. longer.d = Append(m.d, [run |-> line.run, off |-> line.off])
      BY <1>6, <1>8 DEF Messages
    <3>2. Len(longer.d) = Len(m.d) + 1 /\ Len(m.d) \in Nat
      BY <1>6, <1>8, <3>1 DEF Messages
    <3> QED BY <1>6, <1>8, <3>2 DEF Size
  <2> HIDE DEF longer
  <2>4. Billed(StoreWith(line, longer, 1), bytes + 1)
        /\ StoreWith(line, longer, 1) \in [Ids -> Entries \cup {Nothing}]
    BY <2>1, <2>3, StoreWithBills
  <2>5. Queues(order, StoreWith(line, longer, 1))
    BY <1>6, <1>8, <2>1, StoreWithQueues DEF BInv
  <2> QED BY <2>2, <2>4, <2>5
<1> QED
  BY <1>5, <1>7, <1>8

LEMMA NothingHeld ==
    ASSUME NEW st, \A i \in Ids : st[i] = Nothing
    PROVE  Billed(st, 0)
<1>1. HeldIn(st) = {}
  BY DEF HeldIn
<1> QED
  BY <1>1, SumEmpty DEF Billed, SizeOf

\* Each line keeps the bill.
LEMMA PartBills ==
    ASSUME BInv, NEW line \in HeadLines \cup BodyLines, Part(line)
    PROVE  Billed(store, bytes)'
<1>1. CASE line \in HeadLines
  <2>1. OpenDirection(line)
    BY <1>1 DEF Part, HeadLines
  <2> QED BY <1>1, <2>1, HeadSettles, SettleBills
<1>2. CASE line \in BodyLines
  <2>1. AddPiece(line)
    BY <1>2 DEF Part, BodyLines
  <2> QED BY <1>2, <2>1, PieceSettles, SettleBills
<1> QED
  BY <1>1, <1>2

LEMMA BInvariant == StoreSpec => []BInv
<1>1. StoreInit => BInv
  <2>1. StoreInit => QInv
    BY DEF StoreInit, Queues, IInv, QInv
  <2>2. StoreInit => Billed(store, bytes)
    <3> SUFFICES ASSUME StoreInit PROVE Billed(store, bytes)
      OBVIOUS
    <3> QED BY NothingHeld DEF StoreInit
  <2> QED BY <2>1, <2>2 DEF BInv
<1>2. BInv /\ QInv' /\ [StoreNext]_storeVars => BInv'
  <2> SUFFICES ASSUME BInv, [StoreNext]_storeVars PROVE Billed(store, bytes)'
    BY DEF BInv
  <2>1. ASSUME NEW line \in HeadLines \cup BodyLines, Part(line)
        PROVE  Billed(store, bytes)'
    BY <2>1, PartBills
  <2>2. CASE ResetStore
    <3>1. Billed(store', 0)
      BY <2>2, NothingHeld DEF ResetStore
    <3> QED BY <2>2, <3>1 DEF ResetStore
  <2>3. CASE UNCHANGED storeVars
    BY <2>3 DEF storeVars, BInv
  <2> QED BY <2>1, <2>2, <2>3 DEF StoreNext
<1> QED
  BY <1>1, <1>2, QInvariant, PTL DEF StoreSpec

\* part() and evict(): the bill is what is held takes, replaced heads, refused pieces and
\* evictions included, for any lines in any order.
THEOREM BillIsRight == StoreSpec => []BytesAddUp
<1>1. BInv => BytesAddUp
  BY DEF BInv, Billed, HeldIn, BytesAddUp
<1> QED
  BY <1>1, BInvariant, PTL

-----------------------------------------------------------------------------
(* The bounds.                                                               *)

WithMessage == {i \in Ids : Held(i, "req") \/ Held(i, "res")}

\* evict() stops only within both bounds, or with nothing left.
LEMMA SettleBounds ==
    ASSUME NEW st \in [Ids -> Entries \cup {Nothing}], NEW ord, NEW total,
           Queues(ord, st), Billed(st, total), Settle(st, ord, total)
    PROVE  Bounded'
<1>1. PICK n \in 0..Len(ord) :
          /\ Fits(st, ord, total, n)
          /\ store' = [i \in Ids |-> IF i \in Oldest(ord, n) THEN Nothing ELSE st[i]]
          /\ order' = SubSeq(ord, n + 1, Len(ord))
          /\ bytes' = total - SizeOf(st, Oldest(ord, n))
  BY DEF Settle, Least
<1>2. Len(ord) \in Nat /\ Len(order') = Len(ord) - n
  BY <1>1 DEF Queues
<1>3. Queues(order, store)' /\ Billed(store, bytes)'
  BY SettleQueues, SettleBills
<1>4. IsFiniteSet(HeldIn(store')) /\ Cardinality(HeldIn(store')) <= Len(ord) - n
  BY <1>2, <1>3, QueuedIsFinite
<1>5. WithMessage' \subseteq HeldIn(store')
  BY DEF WithMessage, HeldIn, Held
<1>6. IsFiniteSet(WithMessage') /\ Cardinality(WithMessage') <= Cardinality(HeldIn(store'))
  BY <1>4, <1>5, FS_Subset
<1>7. Cardinality(WithMessage') \in Nat /\ Cardinality(HeldIn(store')) \in Nat
  BY <1>4, <1>6, FS_CardinalityType
<1>8. CASE n = Len(ord)
  <2>1. Cardinality(HeldIn(store')) = 0
    BY <1>2, <1>4, <1>7, <1>8
  <2>2. HeldIn(store') = {}
    BY <1>4, <2>1, FS_EmptySet
  <2>3. SizeOf(store', HeldIn(store')) = 0
    BY <2>2, SumEmpty DEF SizeOf
  <2>4. bytes' = 0
    BY <1>3, <2>3 DEF Billed
  <2> QED BY <1>6, <1>7, <2>1, <2>4, BodyStoreAssumption DEF Bounded, WithMessage
<1>9. CASE Len(ord) - n <= MaxExchanges /\ total - SizeOf(st, Oldest(ord, n)) <= MaxBytes
  <2>1. Cardinality(WithMessage') <= MaxExchanges
    BY <1>2, <1>4, <1>6, <1>7, <1>9, BodyStoreAssumption
  <2> QED BY <1>1, <1>9, <2>1 DEF Bounded, WithMessage
<1> QED
  BY <1>1, <1>8, <1>9 DEF Fits

\* A line that makes no body longer counts no exchange that did not count before.
LEMMA PartBounds ==
    ASSUME BInv, Bounded, NEW line \in HeadLines \cup BodyLines, Part(line)
    PROVE  Bounded'
<1>1. CASE line \in HeadLines
  <2>1. OpenDirection(line)
    BY <1>1 DEF Part, HeadLines
  <2> QED BY <1>1, <2>1, HeadSettles, SettleBounds
<1>2. CASE line \in BodyLines
  <2>1. AddPiece(line)
    BY <1>2 DEF Part, BodyLines
  <2>2. CASE /\ bytes' = bytes
             /\ \A i \in Ids, k \in Directions : Held(i, k)' => Held(i, k)
    <3>1. WithMessage' \subseteq WithMessage
      BY <2>2 DEF WithMessage, Directions
    <3>2. WithMessage \subseteq HeldIn(store) /\ IsFiniteSet(HeldIn(store))
      BY QueuedIsFinite DEF WithMessage, HeldIn, Held, BInv, QInv
    <3>3. IsFiniteSet(WithMessage)
      BY <3>2, FS_Subset
    <3>4. IsFiniteSet(WithMessage') /\ Cardinality(WithMessage') <= Cardinality(WithMessage)
      BY <3>1, <3>3, FS_Subset
    <3>5. Cardinality(WithMessage') \in Nat /\ Cardinality(WithMessage) \in Nat
      BY <3>3, <3>4, FS_CardinalityType
    <3>6. Cardinality(WithMessage) <= MaxExchanges /\ bytes <= MaxBytes
      BY DEF Bounded, WithMessage
    <3>7. Cardinality(WithMessage') <= MaxExchanges
      BY <3>4, <3>5, <3>6, BodyStoreAssumption
    <3> QED BY <2>2, <3>6, <3>7 DEF Bounded, WithMessage
  <2> QED BY <1>2, <2>1, <2>2, PieceSettles, SettleBounds
<1> QED
  BY <1>1, <1>2

LEMMA NothingWithMessage ==
    ASSUME store = [i \in Ids |-> Nothing], bytes = 0
    PROVE  Bounded
<1>1. WithMessage = {}
  BY DEF WithMessage, Held
<1>2. Cardinality(WithMessage) = 0
  BY <1>1, FS_EmptySet
<1> QED
  BY <1>2, BodyStoreAssumption DEF Bounded, WithMessage

\* evict(): whatever lines come, neither more bytes nor more exchanges are held than the
\* two bounds allow, and eviction always ends within them.
THEOREM StoreIsBounded == StoreSpec => []Bounded
<1>1. StoreInit => Bounded
  BY NothingWithMessage DEF StoreInit
<1>2. BInv /\ Bounded /\ [StoreNext]_storeVars => Bounded'
  <2> SUFFICES ASSUME BInv, Bounded, [StoreNext]_storeVars PROVE Bounded'
    OBVIOUS
  <2>1. ASSUME NEW line \in HeadLines \cup BodyLines, Part(line) PROVE Bounded'
    BY <2>1, PartBounds
  <2>2. CASE ResetStore
    <3>1. WithMessage' = {} /\ bytes' = 0
      BY <2>2 DEF ResetStore, WithMessage, Held
    <3>2. Cardinality(WithMessage') = 0
      BY <3>1, FS_EmptySet
    <3> QED BY <3>1, <3>2, BodyStoreAssumption DEF Bounded, WithMessage
  <2>3. CASE UNCHANGED storeVars
    BY <2>3 DEF storeVars, Bounded, Held
  <2> QED BY <2>1, <2>2, <2>3 DEF StoreNext
<1> QED
  BY <1>1, <1>2, BInvariant, PTL DEF StoreSpec

-----------------------------------------------------------------------------
(* What a line does to the entries that are held.                            *)

\* What becomes of the direction that a line is of.
NewMessage(line) ==
    LET m == Entry(line.id).msgs[line.k]
    IN IF line.t = "head" THEN Opened(line)
       ELSE IF ~OpenForMore(m) THEN m
       ELSE IF ~IsNext(line, m) THEN Broken(m)
       ELSE [m EXCEPT !.d = Append(@, [run |-> line.run, off |-> line.off])]

\* The entry of the line's exchange has one direction renewed, all others are as they were,
\* and any may be evicted.
Renews(line) ==
    \A i \in Ids :
        \/ store'[i] = Nothing
        \/ i # line.id /\ store'[i] = store[i]
        \/ /\ i = line.id
           /\ store'[i].msgs = [Entry(i).msgs EXCEPT ![line.k] = NewMessage(line)]

LEMMA SettleRenews ==
    ASSUME IInv, NEW line \in HeadLines \cup BodyLines, NEW size, NEW ord, NEW total,
           Settle(StoreWith(line, NewMessage(line), size), ord, total)
    PROVE  Renews(line)
<1> DEFINE new == [bytes |-> Entry(line.id).bytes + size,
                   msgs  |-> [Entry(line.id).msgs EXCEPT ![line.k] = NewMessage(line)]]
           st == [store EXCEPT ![line.id] = new]
<1>1. line.id \in Ids
  BY DEF HeadLines, BodyLines
<1>2. StoreWith(line, NewMessage(line), size) = st
  BY DEF StoreWith
<1>3. new.msgs = [Entry(line.id).msgs EXCEPT ![line.k] = NewMessage(line)]
  OBVIOUS
<1> HIDE DEF new
<1>4. \A i \in Ids : st[i] = IF i = line.id THEN new ELSE store[i]
  BY <1>1 DEF IInv
<1> HIDE DEF st
<1>5. PICK n \in 0..Len(ord) :
          store' = [i \in Ids |-> IF i \in Oldest(ord, n) THEN Nothing ELSE st[i]]
  BY <1>2 DEF Settle
<1> QED
  BY <1>3, <1>4, <1>5 DEF Renews

LEMMA PartRenews ==
    ASSUME IInv, NEW line \in HeadLines \cup BodyLines, Part(line)
    PROVE  Renews(line)
<1> DEFINE m == Entry(line.id).msgs[line.k]
<1>1. line.id \in Ids /\ line.k \in Directions
  BY DEF HeadLines, BodyLines
<1>2. Entry(line.id) \in Entries /\ Entry(line.id).msgs \in [Directions -> Messages \cup {Nothing}]
  BY <1>1, EntryIsGood DEF GoodEntry, Entries
<1>3. CASE line.t = "head"
  <2>1. NewMessage(line) = Opened(line) /\ OpenDirection(line)
    BY <1>3 DEF Part, NewMessage
  <2> QED BY <2>1, SettleRenews DEF OpenDirection
<1>4. CASE line.t # "head" /\ ~OpenForMore(m)
  <2>1. NewMessage(line) = m /\ store' = [store EXCEPT ![line.id] = Entry(line.id)]
    BY <1>4 DEF Part, NewMessage, AddPiece
  <2>2. Entry(line.id).msgs = [Entry(line.id).msgs EXCEPT ![line.k] = m]
    BY <1>1, <1>2
  <2>3. \A i \in Ids : store'[i] = IF i = line.id THEN Entry(line.id) ELSE store[i]
    BY <2>1 DEF IInv
  <2> HIDE DEF m
  <2> QED BY <2>1, <2>2, <2>3 DEF Renews
<1>5. CASE line.t # "head" /\ OpenForMore(m) /\ ~IsNext(line, m)
  <2>1. NewMessage(line) = Broken(m) /\ store' = StoreWith(line, Broken(m), 0)
    BY <1>5 DEF Part, NewMessage, AddPiece
  <2> DEFINE new == [bytes |-> Entry(line.id).bytes + 0,
                     msgs  |-> [Entry(line.id).msgs EXCEPT ![line.k] = Broken(m)]]
  <2>2. store' = [store EXCEPT ![line.id] = new]
    BY <2>1 DEF StoreWith
  <2>3. new.msgs = [Entry(line.id).msgs EXCEPT ![line.k] = NewMessage(line)]
    BY <2>1
  <2> HIDE DEF new, m
  <2>4. \A i \in Ids : store'[i] = IF i = line.id THEN new ELSE store[i]
    BY <2>2 DEF IInv
  <2> QED BY <2>3, <2>4 DEF Renews
<1>6. CASE line.t # "head" /\ OpenForMore(m) /\ IsNext(line, m)
  <2> DEFINE longer == [m EXCEPT !.d = Append(@, [run |-> line.run, off |-> line.off])]
  <2>1. NewMessage(line) = longer /\ Settle(StoreWith(line, longer, 1), order, bytes + 1)
    BY <1>6 DEF Part, NewMessage, AddPiece
  <2> HIDE DEF longer
  <2> QED BY <2>1, SettleRenews
<1> QED
  BY <1>3, <1>4, <1>5, <1>6

-----------------------------------------------------------------------------
(* Sequences of lines.                                                       *)

In(s) == {s[a] : a \in 1..Len(s)}

LEMMA InConcat ==
    ASSUME NEW S, NEW s \in Seq(S), NEW t \in Seq(S)
    PROVE  In(s \o t) = In(s) \cup In(t)
<1>1. /\ Len(s \o t) = Len(s) + Len(t)
      /\ \A i \in 1..Len(s) + Len(t) :
             (s \o t)[i] = IF i <= Len(s) THEN s[i] ELSE t[i - Len(s)]
  BY ConcatProperties
<1>2. Len(s) \in Nat /\ Len(t) \in Nat
  BY LenProperties
<1>3. ASSUME NEW x \in In(s) PROVE x \in In(s \o t)
  <2>1. PICK a \in 1..Len(s) : x = s[a]
    BY DEF In
  <2>2. a \in 1..Len(s) + Len(t) /\ (s \o t)[a] = x
    BY <1>1, <1>2, <2>1
  <2> QED BY <1>1, <2>2 DEF In
<1>4. ASSUME NEW x \in In(t) PROVE x \in In(s \o t)
  <2>1. PICK a \in 1..Len(t) : x = t[a]
    BY DEF In
  <2>2. Len(s) + a \in 1..Len(s) + Len(t) /\ ~(Len(s) + a <= Len(s)) /\ (Len(s) + a) - Len(s) = a
    BY <1>2, <2>1
  <2>3. (s \o t)[Len(s) + a] = x
    BY <1>1, <2>1, <2>2
  <2> QED BY <1>1, <2>2, <2>3 DEF In
<1>5. ASSUME NEW x \in In(s \o t) PROVE x \in In(s) \cup In(t)
  <2>1. PICK a \in 1..Len(s) + Len(t) : x = (s \o t)[a]
    BY <1>1 DEF In
  <2>2. CASE a <= Len(s)
    BY <1>1, <1>2, <2>1, <2>2 DEF In
  <2>3. CASE ~(a <= Len(s))
    <3>1. a - Len(s) \in 1..Len(t) /\ x = t[a - Len(s)]
      BY <1>1, <1>2, <2>1, <2>3
    <3> QED BY <3>1 DEF In
  <2> QED BY <2>2, <2>3
<1> QED
  BY <1>3, <1>4, <1>5

\* The first line and the others.
LEMMA InTail ==
    ASSUME NEW S, NEW s \in Seq(S), s # <<>>
    PROVE  In(s) = {s[1]} \cup In(Tail(s))
<1>1. Len(Tail(s)) = Len(s) - 1 /\ \A i \in 1..Len(Tail(s)) : Tail(s)[i] = s[i+1]
  BY HeadTailProperties
<1>2. Len(s) \in Nat \ {0}
  BY EmptySeq
<1>3. ASSUME NEW a \in 1..Len(s), a # 1 PROVE s[a] \in In(Tail(s))
  <2>1. a - 1 \in 1..Len(Tail(s)) /\ (a - 1) + 1 = a
    BY <1>1, <1>2, <1>3
  <2>2. Tail(s)[a - 1] = s[a]
    BY <1>1, <2>1
  <2> QED BY <2>1, <2>2 DEF In
<1>4. ASSUME NEW a \in 1..Len(Tail(s)) PROVE Tail(s)[a] \in In(s)
  <2>1. a + 1 \in 1..Len(s) /\ Tail(s)[a] = s[a + 1]
    BY <1>1, <1>2
  <2> QED BY <2>1 DEF In
<1>5. s[1] \in In(s)
  BY <1>2 DEF In
<1> QED
  BY <1>3, <1>4, <1>5 DEF In

SameKey(x, y) == x.id = y.id /\ x.k = y.k
IsLine(x) == x.t # "snapshot"

\* Of the lines of one direction the head is the first one, and the pieces are in order.
InOrder(x, y) ==
    /\ y.t # "head"
    /\ x.t = "body" /\ y.t = "body" => x.off < y.off
Ordered(s) ==
    \A a, b \in 1..Len(s) :
        a < b /\ IsLine(s[a]) /\ IsLine(s[b]) /\ SameKey(s[a], s[b]) => InOrder(s[a], s[b])

LEMMA OrderedConcat ==
    ASSUME NEW S, NEW s \in Seq(S), NEW t \in Seq(S), Ordered(s), Ordered(t),
           \A x \in In(s), y \in In(t) : IsLine(x) /\ IsLine(y) => ~SameKey(x, y)
    PROVE  Ordered(s \o t)
<1>1. /\ Len(s \o t) = Len(s) + Len(t)
      /\ \A i \in 1..Len(s) + Len(t) :
             (s \o t)[i] = IF i <= Len(s) THEN s[i] ELSE t[i - Len(s)]
  BY ConcatProperties
<1>2. Len(s) \in Nat /\ Len(t) \in Nat
  BY LenProperties
<1> DEFINE u == s \o t
<1> HIDE DEF u
<1>3. ASSUME NEW a \in 1..Len(u), NEW b \in 1..Len(u), a < b,
             IsLine(u[a]), IsLine(u[b]), SameKey(u[a], u[b])
      PROVE  InOrder(u[a], u[b])
  <2>1. a \in 1..Len(s) + Len(t) /\ b \in 1..Len(s) + Len(t) /\ a \in Nat /\ b \in Nat
    BY <1>1, <1>2 DEF u
  <2>2. CASE b <= Len(s)
    <3>1. a \in 1..Len(s) /\ b \in 1..Len(s) /\ u[a] = s[a] /\ u[b] = s[b]
      BY <1>1, <1>2, <1>3, <2>1, <2>2 DEF u
    <3> QED BY <1>3, <3>1 DEF Ordered
  <2>3. CASE a <= Len(s) /\ ~(b <= Len(s))
    <3>1. a \in 1..Len(s) /\ b - Len(s) \in 1..Len(t) /\ u[a] = s[a] /\ u[b] = t[b - Len(s)]
      BY <1>1, <1>2, <1>3, <2>1, <2>3 DEF u
    <3>2. u[a] \in In(s) /\ u[b] \in In(t)
      BY <3>1 DEF In
    <3> QED BY <1>3, <3>2
  <2>4. CASE ~(a <= Len(s)) /\ ~(b <= Len(s))
    <3>1. /\ a - Len(s) \in 1..Len(t) /\ b - Len(s) \in 1..Len(t) /\ a - Len(s) < b - Len(s)
          /\ u[a] = t[a - Len(s)] /\ u[b] = t[b - Len(s)]
      BY <1>1, <1>2, <1>3, <2>1, <2>4 DEF u
    <3> QED BY <1>3, <3>1 DEF Ordered
  <2>5. a <= Len(s) \/ ~(b <= Len(s))
    BY <1>2, <1>3, <2>1
  <2> QED BY <2>2, <2>3, <2>4, <2>5
<1> QED
  BY <1>3 DEF Ordered, u

LEMMA OrderedTail ==
    ASSUME NEW S, NEW s \in Seq(S), s # <<>>, Ordered(s)
    PROVE  /\ Ordered(Tail(s))
           /\ \A y \in In(Tail(s)) :
                  IsLine(s[1]) /\ IsLine(y) /\ SameKey(s[1], y) => InOrder(s[1], y)
<1>1. Len(Tail(s)) = Len(s) - 1 /\ \A i \in 1..Len(Tail(s)) : Tail(s)[i] = s[i+1]
  BY HeadTailProperties
<1>2. Len(s) \in Nat \ {0}
  BY EmptySeq
<1>3. ASSUME NEW a \in 1..Len(Tail(s))
      PROVE  Tail(s)[a] = s[a+1] /\ a + 1 \in 1..Len(s) /\ 1 < a + 1 /\ a \in Nat
  BY <1>1, <1>2
<1>4. ASSUME NEW a \in 1..Len(Tail(s)), NEW b \in 1..Len(Tail(s)), a < b
      PROVE  a + 1 < b + 1
  BY <1>3, <1>4
<1>5. Ordered(Tail(s))
  BY <1>3, <1>4 DEF Ordered
<1>6. 1 \in 1..Len(s)
  BY <1>2
<1> QED
  BY <1>3, <1>5, <1>6 DEF Ordered, In

-----------------------------------------------------------------------------
(* Flattened sequences.                                                      *)

IsFlat(g, s, n) == g = [i \in 1..n |-> IF i = 1 THEN s[i] ELSE g[i-1] \o s[i]]
Flat(s) == CHOOSE g : IsFlat(g, s, Len(s))

LEMMA FlattenIsFlat ==
    ASSUME NEW s, Len(s) # 0
    PROVE  FlattenSeq(s) = Flat(s)[Len(s)]
BY Zenon DEF FlattenSeq, Flat, IsFlat

LEMMA FlatExists ==
    ASSUME NEW s, NEW l \in Nat
    PROVE  \E g : IsFlat(g, s, l)
<1> DEFINE P == {n \in Nat : \E g : IsFlat(g, s, n)}
<1>1. 0 \in P
  <2> DEFINE g == [i \in {} |-> s[i]]
  <2>1. 1..0 = {}
    OBVIOUS
  <2>2. IsFlat(g, s, 0)
    BY <2>1 DEF IsFlat
  <2> QED BY <2>2
<1>2. ASSUME NEW n \in Nat, n \in P PROVE n + 1 \in P
  <2>1. PICK g : IsFlat(g, s, n)
    BY <1>2
  <2> DEFINE h == [i \in 1..(n + 1) |->
                      IF i <= n THEN g[i] ELSE IF i = 1 THEN s[i] ELSE g[i-1] \o s[i]]
  <2>2. ASSUME NEW i \in 1..(n + 1)
        PROVE  h[i] = IF i = 1 THEN s[i] ELSE h[i-1] \o s[i]
    <3>1. CASE i <= n
      <4>1. i \in 1..n
        BY <3>1
      <4>2. g[i] = IF i = 1 THEN s[i] ELSE g[i-1] \o s[i]
        BY <2>1, <4>1, Zenon DEF IsFlat
      <4>3. i # 1 => i - 1 \in 1..(n + 1) /\ i - 1 <= n
        BY <3>1
      <4> QED BY <3>1, <4>2, <4>3
    <3>2. CASE ~(i <= n)
      <4>1. i # 1 => i - 1 \in 1..(n + 1) /\ i - 1 <= n
        BY <3>2
      <4> QED BY <3>2, <4>1
    <3> QED BY <3>1, <3>2
  <2>3. h = [i \in 1..(n + 1) |-> h[i]]
    OBVIOUS
  <2> HIDE DEF h
  <2>4. h = [i \in 1..(n + 1) |-> IF i = 1 THEN s[i] ELSE h[i-1] \o s[i]]
    BY <2>2, <2>3, Zenon
  <2>5. IsFlat(h, s, n + 1)
    BY <2>4, Zenon DEF IsFlat
  <2> QED BY <2>5
<1> HIDE DEF P
<1>3. l \in P
  BY <1>1, <1>2, NatInduction1
<1> QED
  BY <1>3 DEF P

\* What holds of the first sequence, and goes on holding as each of the others is appended,
\* holds of all of them in one.
LEMMA FlattenInduction ==
    ASSUME NEW s, Len(s) \in Nat \ {0}, NEW P,
           s[1] \in P[1],
           \A n \in 1..(Len(s) - 1) : \A v \in P[n] : v \o s[n + 1] \in P[n + 1]
    PROVE  FlattenSeq(s) \in P[Len(s)]
<1> DEFINE g == Flat(s)
           Q == {n \in Nat : n + 1 <= Len(s) => g[n + 1] \in P[n + 1]}
<1>1. IsFlat(g, s, Len(s))
  BY FlatExists DEF Flat
<1>2. \A i \in 1..Len(s) : g[i] = IF i = 1 THEN s[i] ELSE g[i-1] \o s[i]
  BY <1>1, Zenon DEF IsFlat
<1> HIDE DEF g
<1>3. 0 \in Q
  BY <1>2
<1>4. ASSUME NEW n \in Nat, n \in Q PROVE n + 1 \in Q
  <2> SUFFICES ASSUME (n + 1) + 1 <= Len(s) PROVE g[(n + 1) + 1] \in P[(n + 1) + 1]
    OBVIOUS
  <2>1. n + 1 \in 1..(Len(s) - 1) /\ g[n + 1] \in P[n + 1]
    BY <1>4
  <2>2. (n + 1) + 1 \in 1..Len(s) /\ (n + 1) + 1 # 1 /\ ((n + 1) + 1) - 1 = n + 1
    OBVIOUS
  <2>3. g[(n + 1) + 1] = g[n + 1] \o s[(n + 1) + 1]
    BY <1>2, <2>2
  <2> QED BY <2>1, <2>3
<1>5. Len(s) - 1 \in Q
  <2> HIDE DEF Q
  <2> QED BY <1>3, <1>4, NatInduction1
<1>6. (Len(s) - 1) + 1 = Len(s)
  OBVIOUS
<1>7. g[Len(s)] \in P[Len(s)]
  BY <1>5, <1>6
<1> QED
  BY <1>7, FlattenIsFlat DEF g

-----------------------------------------------------------------------------
(* What a tick prints.                                                       *)

Shipped(row, k) == ~row.nopv /\ row[k] # Nothing
\* A line of what is captured of an exchange.
LineOf(x, row) ==
    /\ x \in HeadLines \cup BodyLines
    /\ x.id = row.id /\ x.run = run
    /\ Shipped(row, x.k)
    /\ x.t = "body" => x.off < row[x.k].pieces
\* All lines of one direction.
AllThere(s, row, k) ==
    /\ \E x \in In(s) : x.t = "head" /\ x.id = row.id /\ x.k = k
    /\ \A j \in 0..(row[k].pieces - 1) :
           \E x \in In(s) : x.t = "body" /\ x.id = row.id /\ x.k = k /\ x.off = j

LEMMA LinesOfOne ==
    ASSUME NEW id \in Ids, NEW k \in Directions, NEW m \in Captured \cup {Nothing}, run \in Runs,
           Nothing \notin Captured
    PROVE  /\ Lines(id, k, m) \in Seq(HeadLines \cup BodyLines)
           /\ Ordered(Lines(id, k, m))
           /\ \A x \in In(Lines(id, k, m)) :
                  /\ x.id = id /\ x.k = k /\ x.run = run /\ m # Nothing
                  /\ x.t = "body" => x.off < m.pieces
           /\ m # Nothing =>
                  /\ \E x \in In(Lines(id, k, m)) : x.t = "head" /\ x.id = id /\ x.k = k
                  /\ \A j \in 0..(m.pieces - 1) :
                         \E x \in In(Lines(id, k, m)) :
                             x.t = "body" /\ x.id = id /\ x.k = k /\ x.off = j
<1>1. CASE m = Nothing
  <2>1. Lines(id, k, m) = <<>> /\ Len(<<>>) = 0 /\ 1..0 = {}
    BY <1>1 DEF Lines
  <2>2. In(<<>>) = {}
    BY <2>1 DEF In
  <2> QED BY <1>1, <2>1, <2>2 DEF Ordered
<1>2. CASE m # Nothing
  <2>1. m \in Captured /\ m.pieces \in Nat /\ 0..(m.pieces - 1) \subseteq Offsets
        /\ m.clen \in Lengths \cup {Nothing} /\ m.more \in BOOLEAN
    BY <1>2 DEF Captured
  <2> DEFINE h == [t |-> "head", id |-> id, k |-> k, run |-> run, clen |-> m.clen, more |-> m.more]
             n == m.pieces
             p(j) == [t |-> "body", id |-> id, k |-> k, run |-> run, off |-> j - 1]
             t == [j \in 1..n |-> p(j)]
             S == HeadLines \cup BodyLines
             hs == <<h>>
  <2>2. Lines(id, k, m) = hs \o t
    BY <1>2 DEF Lines
  <2>3. h \in HeadLines
    BY <2>1 DEF HeadLines
  <2>4. ASSUME NEW j \in 1..n PROVE p(j) \in BodyLines
    <3>1. j - 1 \in Offsets
      BY <2>1
    <3> QED BY <3>1 DEF BodyLines
  <2>5. hs \in Seq(S) /\ Len(hs) = 1 /\ hs[1] = h
    BY <2>3
  <2>6. t \in Seq(S) /\ Len(t) = n /\ \A j \in 1..n : t[j] = p(j)
    BY <2>1, <2>4
  <2>7. h.t = "head" /\ h.id = id /\ h.k = k /\ h.run = run
    OBVIOUS
  <2>8. \A j \in 1..n : p(j).t = "body" /\ p(j).id = id /\ p(j).k = k /\ p(j).run = run
                         /\ p(j).off = j - 1
    OBVIOUS
  <2> HIDE DEF h, p, t, S, hs
  <2>9. hs \o t \in Seq(S) /\ In(hs \o t) = In(hs) \cup In(t)
    BY <2>5, <2>6, InConcat, ConcatProperties
  <2>10. In(hs) = {h} /\ In(t) = {p(j) : j \in 1..n}
    <3>1. In(hs) = {h}
      BY <2>5 DEF In
    <3>2. In(t) = {p(j) : j \in 1..n}
      BY <2>6 DEF In
    <3> QED BY <3>1, <3>2
  <2>11. /\ Len(hs \o t) = 1 + n
        /\ \A i \in 1..(1 + n) : (hs \o t)[i] = IF i <= 1 THEN hs[i] ELSE t[i - 1]
    <3> HIDE DEF n
    <3>1. /\ Len(hs \o t) = Len(hs) + Len(t)
          /\ \A i \in 1..(Len(hs) + Len(t)) :
                 (hs \o t)[i] = IF i <= Len(hs) THEN hs[i] ELSE t[i - Len(hs)]
      BY <2>5, <2>6, ConcatProperties
    <3> QED BY <2>5, <2>6, <3>1
  <2> DEFINE u == hs \o t
  <2>12. Ordered(u)
    <3> SUFFICES ASSUME NEW a \in 1..Len(u), NEW b \in 1..Len(u), a < b
                 PROVE  InOrder(u[a], u[b])
      BY DEF Ordered
    <3>1. a \in 1..(1 + n) /\ b \in 1..(1 + n) /\ n \in Nat /\ a \in Nat /\ b \in Nat
      BY <2>1, <2>11
    <3>2. b - 1 \in 1..n /\ ~(b <= 1)
      BY <3>1
    <3>3. u[b] = p(b - 1)
      BY <2>6, <2>11, <3>1, <3>2
    <3>4. CASE a = 1
      <4>1. u[a] = h
        BY <2>5, <2>11, <3>1, <3>4
      <4> QED BY <2>7, <2>8, <3>2, <3>3, <4>1 DEF InOrder
    <3>5. CASE a # 1
      <4>1. a - 1 \in 1..n /\ ~(a <= 1)
        BY <3>1, <3>5
      <4>2. u[a] = p(a - 1)
        BY <2>6, <2>11, <3>1, <4>1
      <4>3. (a - 1) - 1 < (b - 1) - 1
        BY <3>1
      <4>4. p(a - 1).off < p(b - 1).off /\ p(b - 1).t # "head"
        BY <2>8, <3>2, <4>1, <4>3
      <4> QED BY <3>3, <4>2, <4>4 DEF InOrder
    <3> QED BY <3>4, <3>5
  <2>13. ASSUME NEW x \in In(u)
         PROVE  /\ x.id = id /\ x.k = k /\ x.run = run
                /\ x.t = "body" => x.off < n
    <3>1. CASE x = h
      BY <2>7, <3>1
    <3>2. CASE x # h
      <4>1. PICK j \in 1..n : x = p(j)
        BY <2>9, <2>10, <3>2
      <4>2. j - 1 < n
        BY <2>1
      <4> QED BY <2>8, <4>1, <4>2
    <3> QED BY <3>1, <3>2
  <2>14. h \in In(u)
    BY <2>9, <2>10
  <2>15. ASSUME NEW j \in 0..(n - 1)
         PROVE  \E x \in In(u) : x.t = "body" /\ x.id = id /\ x.k = k /\ x.off = j
    <3>1. j + 1 \in 1..n /\ (j + 1) - 1 = j
      BY <2>1
    <3>2. p(j + 1) \in In(u)
      BY <2>9, <2>10, <3>1
    <3> QED BY <2>8, <3>1, <3>2
  <2> HIDE DEF u, n
  <2> QED BY <1>2, <2>2, <2>9, <2>7, <2>12, <2>13, <2>14, <2>15 DEF u, S, n
<1> QED
  BY <1>1, <1>2

\* A row as the exporter has it.
NewRow(row) ==
    /\ row.id \in Ids /\ row.run = run
    /\ row.req \in Captured \cup {Nothing} /\ row.res \in Captured \cup {Nothing}

LEMMA LinesOfExchange ==
    ASSUME NEW row, NewRow(row), run \in Runs
    PROVE  /\ ExchangeLines(row) \in Seq(HeadLines \cup BodyLines)
           /\ Ordered(ExchangeLines(row))
           /\ \A x \in In(ExchangeLines(row)) : LineOf(x, row)
           /\ \A k \in Directions : Shipped(row, k) => AllThere(ExchangeLines(row), row, k)
<1> DEFINE S == HeadLines \cup BodyLines
           p == Lines(row.id, "req", row.req)
           q == Lines(row.id, "res", row.res)
<1>1. Nothing \notin Captured
  BY BodyTransportAssumption
<1>2. CASE row.nopv
  <2>1. ExchangeLines(row) = <<>> /\ Len(<<>>) = 0 /\ 1..0 = {}
    BY <1>2 DEF ExchangeLines
  <2>2. In(<<>>) = {}
    BY <2>1 DEF In
  <2> QED BY <1>2, <2>1, <2>2 DEF Ordered, Shipped
<1>3. CASE ~row.nopv
  <2>1. ExchangeLines(row) = p \o q
    BY <1>3 DEF ExchangeLines
  <2>2. /\ p \in Seq(S) /\ Ordered(p)
        /\ \A x \in In(p) : /\ x.id = row.id /\ x.k = "req" /\ x.run = run /\ row.req # Nothing
                            /\ x.t = "body" => x.off < row.req.pieces
        /\ row.req # Nothing =>
               /\ \E x \in In(p) : x.t = "head" /\ x.id = row.id /\ x.k = "req"
               /\ \A j \in 0..(row.req.pieces - 1) :
                      \E x \in In(p) : x.t = "body" /\ x.id = row.id /\ x.k = "req" /\ x.off = j
    <3>1. row.id \in Ids /\ "req" \in Directions /\ row.req \in Captured \cup {Nothing}
      BY DEF NewRow, Directions
    <3> HIDE DEF NewRow
    <3> QED BY <1>1, <3>1, LinesOfOne
  <2>3. /\ q \in Seq(S) /\ Ordered(q)
        /\ \A x \in In(q) : /\ x.id = row.id /\ x.k = "res" /\ x.run = run /\ row.res # Nothing
                            /\ x.t = "body" => x.off < row.res.pieces
        /\ row.res # Nothing =>
               /\ \E x \in In(q) : x.t = "head" /\ x.id = row.id /\ x.k = "res"
               /\ \A j \in 0..(row.res.pieces - 1) :
                      \E x \in In(q) : x.t = "body" /\ x.id = row.id /\ x.k = "res" /\ x.off = j
    <3>1. row.id \in Ids /\ "res" \in Directions /\ row.res \in Captured \cup {Nothing}
      BY DEF NewRow, Directions
    <3> HIDE DEF NewRow
    <3> QED BY <1>1, <3>1, LinesOfOne
  <2> HIDE DEF p, q, S
  <2>4. \A x \in In(p), y \in In(q) : ~SameKey(x, y)
    BY <2>2, <2>3 DEF SameKey
  <2>5. p \o q \in Seq(S) /\ In(p \o q) = In(p) \cup In(q) /\ Ordered(p \o q)
    BY <2>2, <2>3, <2>4, InConcat, OrderedConcat, ConcatProperties
  <2>6. ASSUME NEW x \in In(p \o q) PROVE LineOf(x, row)
    <3>1. x \in S
      BY <2>5, ElementOfSeq DEF In
    <3>2. CASE x \in In(p)
      BY <1>3, <2>2, <3>1, <3>2 DEF LineOf, Shipped, S
    <3>3. CASE x \in In(q)
      BY <1>3, <2>3, <3>1, <3>3 DEF LineOf, Shipped, S
    <3> QED BY <2>5, <3>2, <3>3
  <2>7. ASSUME NEW k \in Directions, Shipped(row, k) PROVE AllThere(p \o q, row, k)
    <3>1. CASE k = "req"
      BY <2>2, <2>5, <2>7, <3>1 DEF AllThere, Shipped
    <3>2. CASE k = "res"
      BY <2>3, <2>5, <2>7, <3>2 DEF AllThere, Shipped
    <3> QED BY <3>1, <3>2 DEF Directions
  <2> QED BY <2>1, <2>5, <2>6, <2>7 DEF S
<1> QED
  BY <1>2, <1>3

\* What has been printed of the first n rows.
Printed(list, n) ==
    {v \in Seq(HeadLines \cup BodyLines) :
        /\ Ordered(v)
        /\ \A x \in In(v) : \E j \in 1..n : LineOf(x, list[j])
        /\ \A j \in 1..n, k \in Directions : Shipped(list[j], k) => AllThere(v, list[j], k)}

LEMMA PrintedMore ==
    ASSUME NEW list, NEW l \in Nat, run \in Runs,
           \A j \in 1..l : NewRow(list[j]),
           \A i, j \in 1..l : list[i].id = list[j].id => i = j,
           NEW n \in 1..(l - 1), NEW v \in Printed(list, n)
    PROVE  v \o ExchangeLines(list[n + 1]) \in Printed(list, n + 1)
<1> DEFINE S == HeadLines \cup BodyLines
           row == list[n + 1]
           w == ExchangeLines(row)
<1>1. n + 1 \in 1..l /\ n \in Nat /\ 1..n \subseteq 1..l /\ \A j \in 1..n : j # n + 1
  OBVIOUS
<1>2. /\ w \in Seq(S) /\ Ordered(w)
      /\ \A x \in In(w) : LineOf(x, row)
      /\ \A k \in Directions : Shipped(row, k) => AllThere(w, row, k)
  BY <1>1, LinesOfExchange
<1>3. /\ v \in Seq(S) /\ Ordered(v)
      /\ \A x \in In(v) : \E j \in 1..n : LineOf(x, list[j])
      /\ \A j \in 1..n, k \in Directions : Shipped(list[j], k) => AllThere(v, list[j], k)
  BY DEF Printed
<1>4. ASSUME NEW x \in In(v), NEW y \in In(w) PROVE ~SameKey(x, y)
  <2>1. PICK j \in 1..n : LineOf(x, list[j])
    BY <1>3
  <2>2. list[j].id # row.id
    BY <1>1
  <2> QED BY <1>2, <2>1, <2>2 DEF LineOf, SameKey
<1> HIDE DEF w, S
<1>5. v \o w \in Seq(S) /\ In(v \o w) = In(v) \cup In(w) /\ Ordered(v \o w)
  BY <1>2, <1>3, <1>4, InConcat, OrderedConcat, ConcatProperties
<1>6. ASSUME NEW x \in In(v \o w) PROVE \E j \in 1..(n + 1) : LineOf(x, list[j])
  <2>1. CASE x \in In(v)
    BY <1>1, <1>3, <2>1
  <2>2. CASE x \in In(w)
    BY <1>1, <1>2, <2>2
  <2> QED BY <1>5, <2>1, <2>2
<1>7. ASSUME NEW j \in 1..(n + 1), NEW k \in Directions, Shipped(list[j], k)
      PROVE  AllThere(v \o w, list[j], k)
  <2>1. CASE j = n + 1
    BY <1>2, <1>5, <1>7, <2>1 DEF AllThere
  <2>2. CASE j # n + 1
    <3>1. j \in 1..n
      BY <2>2
    <3> QED BY <1>3, <1>5, <1>7, <3>1 DEF AllThere
  <2> QED BY <2>1, <2>2
<1> QED
  BY <1>5, <1>6, <1>7 DEF Printed, w, S

\* The lines of a tick, the snapshot excepted.
LEMMA TickPrints ==
    ASSUME NEW list, Len(list) \in Nat \ {0}, run \in Runs,
           \A j \in 1..Len(list) : NewRow(list[j]),
           \A i, j \in 1..Len(list) : list[i].id = list[j].id => i = j
    PROVE  FlattenSeq([j \in 1..Len(list) |-> ExchangeLines(list[j])])
               \in Printed(list, Len(list))
<1> DEFINE l == Len(list)
           s == [j \in 1..l |-> ExchangeLines(list[j])]
           P == [n \in 1..l |-> Printed(list, n)]
<1> HIDE DEF l
<1>1. l \in Nat \ {0} /\ 1 \in 1..l /\ l \in 1..l
  BY DEF l
<1>2. Len(s) = l /\ \A j \in 1..l : s[j] = ExchangeLines(list[j])
  BY <1>1
<1>3. \A j \in 1..l : NewRow(list[j])
  BY DEF l
<1>4. \A i, j \in 1..l : list[i].id = list[j].id => i = j
  BY DEF l
<1>5. \A n \in 1..l : P[n] = Printed(list, n)
  OBVIOUS
<1> HIDE DEF s, P
<1>6. s[1] \in P[1]
  <2>1. ExchangeLines(list[1]) \in Printed(list, 1)
    BY <1>1, <1>3, LinesOfExchange DEF Printed
  <2> QED BY <1>1, <1>2, <1>5, <2>1
<1>7. ASSUME NEW n \in 1..(Len(s) - 1), NEW v \in P[n]
      PROVE  v \o s[n + 1] \in P[n + 1]
  <2>1. n \in 1..(l - 1) /\ n \in 1..l /\ n + 1 \in 1..l
    BY <1>1, <1>2
  <2>2. v \in Printed(list, n) /\ l \in Nat
    BY <1>1, <1>5, <2>1
  <2>3. v \o ExchangeLines(list[n + 1]) \in Printed(list, n + 1)
    BY <1>3, <1>4, <2>1, <2>2, PrintedMore
  <2> QED BY <1>2, <1>5, <2>1, <2>3
<1>8. FlattenSeq(s) \in P[Len(s)]
  BY <1>1, <1>2, <1>6, <1>7, FlattenInduction
<1> QED
  BY <1>1, <1>2, <1>5, <1>8 DEF s, l

-----------------------------------------------------------------------------
(* Types of the lane, and the store's steps.                                 *)

LaneLines == HeadLines \cup BodyLines \cup SnapshotLines
LaneTyped ==
    /\ run \in 1..MaxRun
    /\ lastId \in Ids \cup {0}
    /\ lane \in Seq(LaneLines)
    /\ rows \subseteq Row

LEMMA LaneTypes ==
    ASSUME LaneTyped
    PROVE  run \in Runs /\ run \in Nat /\ lastId \in Nat
BY BodyTransportAssumption DEF LaneTyped

Snapshot(list) == [t |-> "snapshot", rows |-> {Rows(list)[j] : j \in 1..Len(list)}]
BodiesOf(list) == FlattenSeq([j \in 1..Len(list) |-> ExchangeLines(Rows(list)[j])])

LEMMA EmitPrints ==
    ASSUME LaneTyped, NEW n \in 1..PerTick, NEW list \in [1..n -> Exchanges], Emit(list)
    PROVE  /\ Len(list) = n /\ n \in Nat \ {0} /\ Len(Rows(list)) = n
           /\ lastId + n \in Ids /\ lastId' = lastId + n
           /\ \A j \in 1..n : /\ Rows(list)[j].id = lastId + j
                              /\ Rows(list)[j].run = run
                              /\ Rows(list)[j] \in Row
                              /\ \A k \in Directions :
                                     Rows(list)[j][k] \in Captured \cup {Nothing}
           /\ lane' = BodiesOf(list) \o <<Snapshot(list)>>
           /\ BodiesOf(list) \in Printed(Rows(list), n)
           /\ Snapshot(list) \in SnapshotLines
<1>1. n \in Nat \ {0}
  BY BodyTransportAssumption
<1>2. Len(list) = n /\ \A j \in 1..n : list[j] \in Exchanges
  <2>1. list \in Seq(Exchanges) /\ DOMAIN list = 1..n
    BY <1>1
  <2> QED BY <1>1, <2>1
<1> DEFINE L == Rows(list)
<1>3. L = [j \in 1..n |-> [run |-> run, id |-> lastId + j, nopv |-> list[j].nopv,
                           req |-> list[j].req, res |-> list[j].res]]
  BY <1>2 DEF Rows
<1>4. Len(L) = n
  BY <1>1, <1>3
<1>5. lastId + n \in Ids /\ lastId' = lastId + n
  BY <1>2 DEF Emit
<1>6. run \in Runs /\ lastId \in Nat
  BY LaneTypes
<1>7. ASSUME NEW j \in 1..n
      PROVE  /\ L[j].id = lastId + j /\ L[j].run = run /\ lastId + j \in Ids
             /\ L[j].req \in Captured \cup {Nothing} /\ L[j].res \in Captured \cup {Nothing}
             /\ L[j] \in Row
  <2>1. lastId + j \in 1..(lastId + n)
    BY <1>1, <1>6
  <2>2. lastId + j \in Ids
    BY <1>5, <2>1, BodyTransportAssumption
  <2>3. list[j] \in Exchanges
    BY <1>2
  <2>4. list[j] \in [req : Captured \cup {Nothing}, res : Captured \cup {Nothing}, nopv : BOOLEAN]
    BY <2>3, BodyTransportAssumption
  <2>5. L[j] = [run |-> run, id |-> lastId + j, nopv |-> list[j].nopv,
                req |-> list[j].req, res |-> list[j].res]
    BY <1>3
  <2> HIDE DEF L
  <2> QED BY <1>6, <2>2, <2>3, <2>4, <2>5 DEF Row
<1>8. \A j \in 1..n : NewRow(L[j])
  BY <1>7 DEF NewRow
<1>9. \A i, j \in 1..n : L[i].id = L[j].id => i = j
  <2>1. \A i, j \in 1..n : lastId + i = lastId + j => i = j
    BY <1>1, <1>6
  <2> HIDE DEF L
  <2> QED BY <1>7, <2>1
<1>10. BodiesOf(list) = FlattenSeq([j \in 1..Len(L) |-> ExchangeLines(L[j])])
  BY <1>2, <1>4 DEF BodiesOf
<1>11. Snapshot(list) = [t |-> "snapshot", rows |-> {L[j] : j \in 1..Len(L)}]
  BY <1>2, <1>4 DEF Snapshot
<1>12. lane' = BodiesOf(list) \o <<Snapshot(list)>>
  BY <1>10, <1>11 DEF Emit, TickOutput
<1> HIDE DEF L
<1>13. BodiesOf(list) \in Printed(L, n)
  BY <1>1, <1>4, <1>6, <1>8, <1>9, <1>10, TickPrints
<1>14. Snapshot(list) \in SnapshotLines
  <2>1. {L[j] : j \in 1..Len(L)} \in SUBSET Row
    BY <1>4, <1>7
  <2> QED BY <1>11, <2>1 DEF SnapshotLines
<1>15. \A j \in 1..n, k \in Directions : L[j][k] \in Captured \cup {Nothing}
  BY <1>7 DEF Directions
<1> QED
  BY <1>1, <1>2, <1>4, <1>5, <1>7, <1>12, <1>13, <1>14, <1>15 DEF L

LEMMA LaneTail ==
    ASSUME LaneTyped, lane # <<>>
    PROVE  /\ lane[1] \in LaneLines /\ lane[1] \in In(lane)
           /\ Tail(lane) \in Seq(LaneLines)
           /\ In(lane) = {lane[1]} \cup In(Tail(lane))
           /\ lane[1].t # "snapshot" => lane[1] \in HeadLines \cup BodyLines
           /\ lane[1].t = "snapshot" => lane[1] \in SnapshotLines
<1>1. lane \in Seq(LaneLines)
  BY DEF LaneTyped
<1>2. Len(lane) \in Nat \ {0}
  BY <1>1, EmptySeq
<1>3. lane[1] \in LaneLines /\ Tail(lane) \in Seq(LaneLines)
  BY <1>1, <1>2, ElementOfSeq, HeadTailProperties
<1>4. In(lane) = {lane[1]} \cup In(Tail(lane))
  BY <1>1, InTail
<1>5. ASSUME NEW x \in LaneLines
      PROVE  /\ x.t # "snapshot" => x \in HeadLines \cup BodyLines
             /\ x.t = "snapshot" => x \in SnapshotLines
  BY DEF LaneLines, HeadLines, BodyLines, SnapshotLines
<1> QED
  BY <1>3, <1>4, <1>5

LEMMA LaneTypedStep == LaneTyped /\ [Next]_vars => LaneTyped'
<1> SUFFICES ASSUME LaneTyped, [Next]_vars PROVE LaneTyped'
  OBVIOUS
<1>1. ASSUME NEW n \in 1..PerTick, NEW list \in [1..n -> Exchanges], Emit(list)
      PROVE  LaneTyped'
  <2>1. BodiesOf(list) \in Seq(LaneLines)
    <3>1. BodiesOf(list) \in Seq(HeadLines \cup BodyLines)
      BY <1>1, EmitPrints DEF Printed
    <3> QED BY <3>1, SeqMonotonic DEF LaneLines
  <2>2. <<Snapshot(list)>> \in Seq(LaneLines)
    <3>1. Snapshot(list) \in LaneLines
      BY <1>1, EmitPrints DEF LaneLines
    <3> QED BY <3>1
  <2>3. BodiesOf(list) \o <<Snapshot(list)>> \in Seq(LaneLines)
    BY <2>1, <2>2, ConcatProperties
  <2>4. lane' = BodiesOf(list) \o <<Snapshot(list)>> /\ lastId' \in Ids
    BY <1>1, EmitPrints
  <2>5. run' = run /\ rows' = rows
    BY <1>1 DEF Emit
  <2> QED BY <2>3, <2>4, <2>5 DEF LaneTyped
<1>2. CASE ReceivePart
  BY <1>2, LaneTail DEF ReceivePart, LaneTyped, probe
<1>3. CASE ReceiveSnapshot
  <2>1. lane[1].rows \subseteq Row
    BY <1>3, LaneTail DEF ReceiveSnapshot, SnapshotLines
  <2> QED BY <1>3, <2>1, LaneTail DEF ReceiveSnapshot, LaneTyped, probe
<1>4. CASE LoseLine
  BY <1>4, LaneTail DEF LoseLine, LaneTyped, probe
<1>5. CASE Respawn
  BY <1>5, BodyTransportAssumption DEF Respawn, NewRun, LaneTyped
<1>6. CASE Restart
  BY <1>6, BodyTransportAssumption DEF Restart, NewRun, LaneTyped
<1>7. CASE UNCHANGED vars
  BY <1>7 DEF vars, probe, LaneTyped
<1> QED
  BY <1>1, <1>2, <1>3, <1>4, <1>5, <1>6, <1>7 DEF Next

LEMMA LaneTypedInit == Init => LaneTyped
BY BodyTransportAssumption DEF Init, LaneTyped

LEMMA LaneIsTyped == Spec => []LaneTyped
BY LaneTypedInit, LaneTypedStep, PTL DEF Spec

\* A step of the whole is a step of the store or leaves it alone.
LEMMA StoreSteps == LaneTyped /\ [Next]_vars => [StoreNext]_storeVars
<1> SUFFICES ASSUME LaneTyped, [Next]_vars PROVE [StoreNext]_storeVars
  OBVIOUS
<1>1. ASSUME NEW list, Emit(list) PROVE UNCHANGED storeVars
  BY <1>1 DEF Emit
<1>2. ASSUME ReceivePart PROVE StoreNext
  BY <1>2, LaneTail DEF ReceivePart, StoreNext
<1>3. ASSUME ReceiveSnapshot \/ LoseLine \/ Respawn PROVE UNCHANGED storeVars
  BY <1>3 DEF ReceiveSnapshot, LoseLine, Respawn
<1>4. ASSUME Restart PROVE StoreNext
  BY <1>4 DEF Restart, StoreNext
<1>5. ASSUME UNCHANGED vars PROVE UNCHANGED storeVars
  BY <1>5 DEF vars
<1> QED
  BY <1>1, <1>2, <1>3, <1>4, <1>5 DEF Next

\* Whatever the exporter prints and the lane loses, and however the probe is restarted, what
\* reaches bodies.js is a behaviour of the store by itself: all that is proved of the store
\* for any lines in any order is so of the store at the end of the lane.
THEOREM ImplementsStore == Spec => StoreSpec
<1>1. Init => StoreInit
  BY DEF Init
<1> QED
  BY <1>1, StoreSteps, LaneIsTyped, PTL DEF Spec, StoreSpec

LEMMA BillIsNat ==
    ASSUME BInv
    PROVE  bytes \in Nat
<1>1. IsFiniteSet(HeldIn(store))
  BY QueuedIsFinite DEF BInv, QInv
<1> DEFINE f == [i \in HeldIn(store) |-> store[i].bytes]
<1>2. ASSUME NEW i \in HeldIn(store) PROVE f[i] \in Nat
  <2>1. store[i].msgs \in [Directions -> Messages \cup {Nothing}]
    BY DEF HeldIn, BInv, QInv, IInv, Entries
  <2> DEFINE msgs == store[i].msgs
             g == [d \in Directions |-> IF msgs[d] = Nothing THEN 0 ELSE Size(msgs[d])]
  <2> HIDE DEF msgs
  <2>2. \A d \in Directions : g[d] \in Nat
    BY <2>1 DEF Size, Messages, msgs
  <2> HIDE DEF g
  <2>3. SumFunctionOnSet(g, Directions) \in Nat
    BY <2>2, DirectionsFinite, SumNat
  <2>4. Charge(msgs) \in Nat
    BY <2>3 DEF Charge, g
  <2> QED BY <2>4 DEF BInv, Billed, msgs
<1> HIDE DEF f
<1>3. SumFunctionOnSet(f, HeldIn(store)) \in Nat
  BY <1>1, <1>2, SumNat
<1> QED
  BY <1>3 DEF BInv, Billed, SizeOf, f

LEMMA DroppedGrows ==
    ASSUME BInv, dropped \in Nat, NEW line \in HeadLines \cup BodyLines, Part(line)
    PROVE  dropped' \in Nat
<1>1. line.id \in Ids /\ order \in Seq(Ids)
  BY DEF HeadLines, BodyLines, BInv, QInv, Queues
<1>2. OrderWith(line.id) \in Seq(Ids)
  BY <1>1 DEF OrderWith
<1>3. ASSUME NEW st, NEW ord \in Seq(Ids), NEW total, Settle(st, ord, total)
      PROVE  dropped' \in Nat
  BY <1>3, LenProperties DEF Settle
<1>4. CASE line.t = "head"
  BY <1>2, <1>3, <1>4 DEF Part, OpenDirection
<1>5. CASE line.t # "head"
  <2> DEFINE m == Entry(line.id).msgs[line.k]
  <2>1. AddPiece(line)
    BY <1>5 DEF Part
  <2>2. CASE ~OpenForMore(m) \/ ~IsNext(line, m)
    BY <2>1, <2>2 DEF AddPiece
  <2>3. CASE OpenForMore(m) /\ IsNext(line, m)
    <3>1. \E st, total : Settle(st, order, total)
      BY <2>1, <2>3 DEF AddPiece
    <3> QED BY <1>1, <1>3, <3>1
  <2> QED BY <2>2, <2>3
<1> QED
  BY <1>4, <1>5

DroppedTyped == dropped \in Nat
LEMMA CountTyped == StoreSpec => []DroppedTyped
<1>1. StoreInit => DroppedTyped
  BY DEF StoreInit, DroppedTyped
<1>2. BInv /\ DroppedTyped /\ [StoreNext]_storeVars => DroppedTyped'
  BY DroppedGrows DEF StoreNext, ResetStore, storeVars, DroppedTyped
<1> QED
  BY <1>1, <1>2, BInvariant, PTL DEF StoreSpec

\* Types of the exporter's lines, the rows and the store, through any losses, evictions,
\* respawns and restarts.
THEOREM TransportTypes == Spec => []TypeOK
<1>1. LaneTyped /\ BInv /\ DroppedTyped => TypeOK
  <2> SUFFICES ASSUME LaneTyped, BInv, DroppedTyped PROVE TypeOK
    OBVIOUS
  <2>1. run \in Runs
    BY LaneTypes
  <2>2. StoreTypeOK
    BY DEF BInv, QInv, IInv, StoreTypeOK
  <2> QED BY <2>1, <2>2, BillIsNat DEF TypeOK, LaneTyped, LaneLines, DroppedTyped
<1> QED
  BY <1>1, ImplementsStore, LaneIsTyped, BInvariant, CountTyped, PTL

-----------------------------------------------------------------------------
(* The lines on the lane.                                                    *)

\* They are of this run, one exchange's head comes before its pieces, and the snapshot, if
\* there is one to come, is the last of them.
LaneInv ==
    /\ \A x \in In(lane) : IsLine(x) => x.run = run /\ x.id \in 1..lastId
    /\ \A x \in In(lane) : ~IsLine(x) => \A r \in x.rows : r.run = run /\ r.id \in 1..lastId
    /\ Ordered(lane)
    /\ \A a \in 1..Len(lane) : ~IsLine(lane[a]) <=> a = Len(lane)

LEMMA LaneInvTail ==
    ASSUME LaneTyped, LaneInv, lane # <<>>, lane' = Tail(lane), run' = run, lastId' = lastId
    PROVE  LaneInv'
<1>1. lane \in Seq(LaneLines)
  BY DEF LaneTyped
<1>2. Len(Tail(lane)) = Len(lane) - 1 /\ \A i \in 1..Len(Tail(lane)) : Tail(lane)[i] = lane[i+1]
  BY <1>1, HeadTailProperties
<1>3. Len(lane) \in Nat \ {0}
  BY <1>1, EmptySeq
<1>4. Ordered(Tail(lane))
  BY <1>1, OrderedTail DEF LaneInv
<1>5. In(Tail(lane)) \subseteq In(lane)
  BY LaneTail
<1>6. ASSUME NEW a \in 1..Len(Tail(lane))
      PROVE  ~IsLine(Tail(lane)[a]) <=> a = Len(Tail(lane))
  <2>1. a + 1 \in 1..Len(lane) /\ Tail(lane)[a] = lane[a + 1]
    BY <1>2, <1>3
  <2>2. ~IsLine(lane[a + 1]) <=> a + 1 = Len(lane)
    BY <2>1 DEF LaneInv
  <2>3. a + 1 = Len(lane) <=> a = Len(Tail(lane))
    BY <1>2, <1>3
  <2> QED BY <2>1, <2>2, <2>3
<1> QED
  BY <1>4, <1>5, <1>6 DEF LaneInv

\* The lines of a tick.
LEMMA EmitLines ==
    ASSUME LaneTyped, NEW n \in 1..PerTick, NEW list \in [1..n -> Exchanges], Emit(list)
    PROVE  /\ BodiesOf(list) \in Seq(LaneLines) /\ <<Snapshot(list)>> \in Seq(LaneLines)
           /\ In(lane') = In(BodiesOf(list)) \cup {Snapshot(list)}
           /\ ~IsLine(Snapshot(list))
           /\ \A x \in In(BodiesOf(list)) :
                  /\ x \in HeadLines \cup BodyLines /\ IsLine(x)
                  /\ x.run = run /\ x.id \in (lastId + 1)..lastId'
                  /\ \E j \in 1..n : LineOf(x, Rows(list)[j])
           /\ lane' # <<>>
<1> DEFINE v == BodiesOf(list)
           w == <<Snapshot(list)>>
<1>1. v \in Printed(Rows(list), n) /\ Snapshot(list) \in SnapshotLines /\ lane' = v \o w
  BY EmitPrints
<1>2. v \in Seq(HeadLines \cup BodyLines)
      /\ \A x \in In(v) : \E j \in 1..n : LineOf(x, Rows(list)[j])
  BY <1>1 DEF Printed
<1>3. v \in Seq(LaneLines)
  BY <1>2, SeqMonotonic DEF LaneLines
<1>4. w \in Seq(LaneLines) /\ In(w) = {Snapshot(list)}
  <2>1. Snapshot(list) \in LaneLines
    BY <1>1 DEF LaneLines
  <2>2. w \in Seq(LaneLines) /\ Len(w) = 1 /\ w[1] = Snapshot(list)
    BY <2>1
  <2> HIDE DEF w
  <2> QED BY <2>2 DEF In
<1>5. ~IsLine(Snapshot(list))
  BY DEF Snapshot, IsLine
<1> HIDE DEF v, w
<1>6. In(lane') = In(v) \cup {Snapshot(list)}
  BY <1>1, <1>3, <1>4, InConcat
<1>7. ASSUME NEW x \in In(v)
      PROVE  /\ x \in HeadLines \cup BodyLines /\ IsLine(x)
             /\ x.run = run /\ x.id \in (lastId + 1)..lastId'
  <2>1. PICK j \in 1..n : LineOf(x, Rows(list)[j])
    BY <1>2
  <2>2. x \in HeadLines \cup BodyLines /\ x.id = lastId + j /\ x.run = run
    BY <2>1, EmitPrints DEF LineOf
  <2>3. lastId \in Nat /\ lastId' = lastId + n /\ n \in Nat
    BY LaneTypes, EmitPrints
  <2>4. lastId + j \in (lastId + 1)..(lastId + n)
    BY <2>3
  <2>5. IsLine(x)
    BY <2>2 DEF IsLine, HeadLines, BodyLines
  <2> QED BY <2>2, <2>3, <2>4, <2>5
<1>8. lane' # <<>>
  <2>1. lane' \in Seq(LaneLines) /\ Len(lane') = Len(v) + Len(w) /\ Len(w) = 1 /\ Len(v) \in Nat
    BY <1>1, <1>3, <1>4, ConcatProperties, LenProperties DEF w
  <2> QED BY <2>1, EmptySeq
<1> QED
  BY <1>2, <1>3, <1>4, <1>5, <1>6, <1>7, <1>8 DEF v, w

LEMMA LaneInvEmit ==
    ASSUME LaneTyped, NEW n \in 1..PerTick, NEW list \in [1..n -> Exchanges], Emit(list)
    PROVE  LaneInv'
<1> DEFINE v == BodiesOf(list)
           w == <<Snapshot(list)>>
<1>1. v \in Printed(Rows(list), n) /\ lane' = v \o w /\ run' = run
  BY EmitPrints DEF Emit
<1>2. v \in Seq(LaneLines) /\ w \in Seq(LaneLines) /\ Len(w) = 1 /\ w[1] = Snapshot(list)
  BY EmitLines
<1>3. lastId \in Nat /\ lastId' = lastId + n /\ n \in Nat
  BY LaneTypes, EmitPrints
<1>4. \A x \in In(lane') : IsLine(x) => x.run = run /\ x.id \in 1..lastId'
  <2>1. (lastId + 1)..lastId' \subseteq 1..lastId'
    BY <1>3
  <2> QED BY <2>1, EmitLines
<1>5. \A r \in Snapshot(list).rows : r.run = run /\ r.id \in 1..lastId'
  <2>1. \A j \in 1..n : Rows(list)[j].run = run /\ Rows(list)[j].id = lastId + j
    <3>1. Len(list) = n
      BY EmitPrints
    <3> QED BY <3>1 DEF Rows
  <2>2. \A j \in 1..n : lastId + j \in 1..lastId'
    BY <1>3
  <2>3. Snapshot(list).rows = {Rows(list)[j] : j \in 1..n}
    BY EmitPrints DEF Snapshot
  <2> QED BY <2>1, <2>2, <2>3
<1>6. \A x \in In(lane') : ~IsLine(x) => x = Snapshot(list)
  BY EmitLines
<1>7. Ordered(v)
  BY <1>1 DEF Printed
<1>8. Ordered(w)
  <2>1. \A a, b \in 1..1 : ~(a < b)
    OBVIOUS
  <2> HIDE DEF w
  <2> QED BY <1>2, <2>1 DEF Ordered
<1>9. \A y \in In(w) : ~IsLine(y)
  <2>1. \A a \in 1..1 : a = 1
    OBVIOUS
  <2> HIDE DEF w
  <2> QED BY <1>2, <2>1, EmitLines DEF In
<1> HIDE DEF v, w
<1>10. Ordered(v \o w)
  BY <1>2, <1>7, <1>8, <1>9, OrderedConcat
<1>11. ASSUME NEW a \in 1..Len(lane') PROVE ~IsLine(lane'[a]) <=> a = Len(lane')
  <2>1. /\ Len(v \o w) = Len(v) + 1 /\ Len(v) \in Nat
        /\ \A i \in 1..(Len(v) + 1) : (v \o w)[i] = IF i <= Len(v) THEN v[i] ELSE w[i - Len(v)]
    <3>1. /\ Len(v \o w) = Len(v) + Len(w)
          /\ \A i \in 1..(Len(v) + Len(w)) :
                 (v \o w)[i] = IF i <= Len(v) THEN v[i] ELSE w[i - Len(v)]
      BY <1>2, ConcatProperties
    <3> QED BY <1>2, <3>1, LenProperties
  <2>2. CASE a <= Len(v)
    <3>1. a \in 1..Len(v) /\ lane'[a] = v[a] /\ a # Len(lane')
      BY <1>1, <1>11, <2>1, <2>2
    <3>2. IsLine(v[a])
      BY <3>1, EmitLines DEF In, v
    <3> QED BY <3>1, <3>2
  <2>3. CASE ~(a <= Len(v))
    <3>1. a = Len(v) + 1 /\ a - Len(v) = 1 /\ a = Len(lane')
      BY <1>1, <1>11, <2>1, <2>3
    <3>2. lane'[a] = Snapshot(list)
      BY <1>1, <1>2, <2>1, <2>3, <3>1
    <3> QED BY <3>1, <3>2, EmitLines
  <2> QED BY <2>2, <2>3
<1> QED
  BY <1>1, <1>4, <1>5, <1>6, <1>10, <1>11 DEF LaneInv

LEMMA InEmpty == In(<<>>) = {} /\ 1..Len(<<>>) = {}
<1>1. Len(<<>>) = 0 /\ 1..0 = {}
  OBVIOUS
<1> QED
  BY <1>1 DEF In

LEMMA LaneInvStep == LaneTyped /\ LaneInv /\ [Next]_vars => LaneInv'
<1> SUFFICES ASSUME LaneTyped, LaneInv, [Next]_vars PROVE LaneInv'
  OBVIOUS
<1>1. ASSUME NEW n \in 1..PerTick, NEW list \in [1..n -> Exchanges], Emit(list)
      PROVE  LaneInv'
  BY <1>1, LaneInvEmit
<1>2. CASE ReceivePart
  BY <1>2, LaneInvTail DEF ReceivePart, probe
<1>3. CASE ReceiveSnapshot
  BY <1>3, LaneInvTail DEF ReceiveSnapshot, probe
<1>4. CASE LoseLine
  BY <1>4, LaneInvTail DEF LoseLine, probe
<1>5. ASSUME NewRun PROVE LaneInv'
  <2>1. lane' = <<>>
    BY <1>5 DEF NewRun
  <2>2. In(lane') = {} /\ 1..Len(lane') = {}
    BY <2>1, InEmpty
  <2> QED BY <2>2 DEF LaneInv, Ordered
<1>6. CASE Respawn \/ Restart
  BY <1>5, <1>6 DEF Respawn, Restart
<1>7. CASE UNCHANGED vars
  BY <1>7 DEF vars, probe, LaneInv, Ordered, In
<1> QED
  BY <1>1, <1>2, <1>3, <1>4, <1>6, <1>7 DEF Next

-----------------------------------------------------------------------------
(* What is held once a line is received.                                     *)

MessageOf(i, k) == store[i].msgs[k]

LEMMA HeldAfter ==
    ASSUME IInv, NEW line \in HeadLines \cup BodyLines, Part(line),
           NEW i \in Ids, NEW k \in Directions, Held(i, k)'
    PROVE  \/ /\ i # line.id \/ k # line.k
              /\ Held(i, k) /\ MessageOf(i, k)' = MessageOf(i, k)
           \/ /\ i = line.id /\ k = line.k
              /\ MessageOf(i, k)' = NewMessage(line) /\ NewMessage(line) # Nothing
<1>1. line.id \in Ids /\ line.k \in Directions
  BY DEF HeadLines, BodyLines
<1>2. store'[i] # Nothing /\ store'[i].msgs[k] # Nothing
  BY DEF Held
<1>3. CASE i # line.id
  <2>1. store'[i] = store[i]
    BY <1>2, <1>3, PartRenews DEF Renews
  <2> QED BY <1>2, <1>3, <2>1 DEF Held, MessageOf
<1>4. CASE i = line.id
  <2>1. store'[i].msgs = [Entry(i).msgs EXCEPT ![line.k] = NewMessage(line)]
    BY <1>2, <1>4, PartRenews DEF Renews
  <2>2. Entry(i).msgs \in [Directions -> Messages \cup {Nothing}]
    BY EntryIsGood DEF GoodEntry, Entries
  <2>3. CASE k = line.k
    BY <1>1, <1>2, <1>4, <2>1, <2>2, <2>3 DEF MessageOf
  <2>4. CASE k # line.k
    <3>1. store'[i].msgs[k] = Entry(i).msgs[k]
      BY <2>1, <2>2, <2>4
    <3>2. store[i] # Nothing /\ Entry(i) = store[i]
      BY <1>2, <3>1 DEF Entry, Blank
    <3> QED BY <1>2, <2>4, <3>1, <3>2 DEF Held, MessageOf
  <2> QED BY <2>3, <2>4
<1> QED
  BY <1>3, <1>4

LEMMA NewMessageIs ==
    ASSUME IInv, NEW line \in HeadLines \cup BodyLines, NewMessage(line) # Nothing
    PROVE  \/ line.t = "head" /\ NewMessage(line) = Opened(line)
           \/ /\ line.t = "body"
              /\ Held(line.id, line.k)
              /\ MessageOf(line.id, line.k) \in Messages
              /\ LET m == MessageOf(line.id, line.k) IN
                     \/ m.gap /\ NewMessage(line) = m
                     \/ /\ ~m.gap /\ line.off # Len(m.d)
                        /\ NewMessage(line) = Broken(m)
                     \/ /\ ~m.gap /\ line.off = Len(m.d)
                        /\ NewMessage(line).d = Append(m.d, [run |-> line.run, off |-> line.off])
                        /\ NewMessage(line).run = m.run /\ NewMessage(line).gap = m.gap
<1>1. line.id \in Ids /\ line.k \in Directions /\ line.t \in {"head", "body"}
  BY DEF HeadLines, BodyLines
<1>2. CASE line.t = "head"
  BY <1>2 DEF NewMessage
<1>3. CASE line.t = "body"
  <2> DEFINE m == Entry(line.id).msgs[line.k]
             longer == [m EXCEPT !.d = Append(@, [run |-> line.run, off |-> line.off])]
  <2>1. Entry(line.id).msgs \in [Directions -> Messages \cup {Nothing}]
    BY <1>1, EntryIsGood DEF GoodEntry, Entries
  <2>2. NewMessage(line) = IF ~OpenForMore(m) THEN m
                           ELSE IF ~IsNext(line, m) THEN Broken(m) ELSE longer
    BY <1>3 DEF NewMessage
  <2>3. m # Nothing
    BY <2>2 DEF OpenForMore
  <2>4. store[line.id] # Nothing /\ Entry(line.id) = store[line.id]
    BY <1>1, <2>3 DEF Entry, Blank
  <2>5. m \in Messages /\ m = MessageOf(line.id, line.k) /\ Held(line.id, line.k)
    BY <1>1, <2>1, <2>3, <2>4 DEF MessageOf, Held
  <2>6. longer.d = Append(m.d, [run |-> line.run, off |-> line.off])
        /\ longer.run = m.run /\ longer.gap = m.gap
    BY <2>5 DEF Messages
  <2> HIDE DEF m, longer
  <2>7. CASE m.gap
    BY <1>3, <2>2, <2>3, <2>5, <2>7 DEF OpenForMore
  <2>8. CASE ~m.gap /\ line.off # Len(m.d)
    BY <1>3, <2>2, <2>3, <2>5, <2>8 DEF OpenForMore, IsNext
  <2>9. CASE ~m.gap /\ line.off = Len(m.d)
    <3>1. NewMessage(line) = longer
      BY <2>2, <2>3, <2>9 DEF OpenForMore, IsNext
    <3> QED BY <1>3, <2>5, <2>6, <2>9, <3>1
  <2> QED BY <2>7, <2>8, <2>9
<1> QED
  BY <1>1, <1>2, <1>3

\* What a line of a run makes of a direction that holds that run's.
IsOf(m, r) == m.run = r /\ \A j \in 1..Len(m.d) : m.d[j].run = r

LEMMA NewMessageRun ==
    ASSUME IInv, NEW line \in HeadLines \cup BodyLines, NewMessage(line) # Nothing,
           Held(line.id, line.k) => IsOf(MessageOf(line.id, line.k), line.run)
    PROVE  IsOf(NewMessage(line), line.run)
<1> DEFINE m == MessageOf(line.id, line.k)
           p == [run |-> line.run, off |-> line.off]
<1>1. CASE NewMessage(line) = Opened(line)
  <2>1. Opened(line).run = line.run /\ Opened(line).d = <<>> /\ 1..Len(<<>>) = {}
    BY InEmpty DEF Opened
  <2> QED BY <1>1, <2>1 DEF IsOf
<1>2. CASE Held(line.id, line.k) /\ NewMessage(line) = m
  BY <1>2
<1>3. CASE Held(line.id, line.k) /\ m \in Messages /\ NewMessage(line) = Broken(m)
  <2>1. Broken(m).run = m.run /\ Broken(m).d = m.d
    BY <1>3 DEF Broken, Messages
  <2> QED BY <1>3, <2>1 DEF IsOf
<1>4. CASE /\ Held(line.id, line.k) /\ m \in Messages
           /\ NewMessage(line).d = Append(m.d, p) /\ NewMessage(line).run = m.run
  <2>1. m.d \in Seq(Pieces) /\ Len(m.d) \in Nat /\ p.run = line.run
    BY <1>4 DEF Messages
  <2>2. IsOf(m, line.run)
    BY <1>4
  <2> HIDE DEF p, m
  <2>3. ASSUME NEW j \in 1..Len(Append(m.d, p)) PROVE Append(m.d, p)[j].run = line.run
    <3>1. Len(Append(m.d, p)) = Len(m.d) + 1
          /\ Append(m.d, p)[j] = IF j = Len(m.d) + 1 THEN p ELSE m.d[j]
      BY <2>1
    <3>2. j # Len(m.d) + 1 => j \in 1..Len(m.d)
      BY <2>1, <3>1
    <3> QED BY <2>1, <2>2, <3>1, <3>2 DEF IsOf
  <2> QED BY <1>4, <2>2, <2>3 DEF IsOf
<1> QED
  BY <1>1, <1>2, <1>3, <1>4, NewMessageIs

\* All that is here is of this run.
OwnInv ==
    ~respawned =>
        /\ \A r \in rows : r.run = run
        /\ \A i \in Ids, k \in Directions : Held(i, k) => IsOf(MessageOf(i, k), run)

LEMMA OwnInvStep == LaneTyped /\ LaneInv /\ IInv /\ OwnInv /\ [Next]_vars => OwnInv'
<1> SUFFICES ASSUME LaneTyped, LaneInv, IInv, OwnInv, [Next]_vars, ~respawned' PROVE OwnInv'
  BY DEF OwnInv
<1>1. ASSUME UNCHANGED <<store, run, respawned, rows>> PROVE OwnInv'
  <2>1. \A i \in Ids, k \in Directions : Held(i, k)' <=> Held(i, k)
    BY <1>1 DEF Held
  <2>2. \A i \in Ids, k \in Directions : MessageOf(i, k)' = MessageOf(i, k)
    BY <1>1 DEF MessageOf
  <2> QED BY <1>1, <2>1, <2>2 DEF OwnInv
<1>2. ASSUME NEW list, Emit(list) PROVE OwnInv'
  BY <1>1, <1>2 DEF Emit, storeVars, history
<1>3. CASE ReceivePart
  <2> DEFINE line == lane[1]
  <2>1. line \in HeadLines \cup BodyLines /\ Part(line) /\ line.run = run
    BY <1>3, LaneTail DEF ReceivePart, LaneInv, IsLine
  <2>2. line.id \in Ids /\ line.k \in Directions
    BY <2>1 DEF HeadLines, BodyLines
  <2>3. run' = run /\ rows' = rows /\ ~respawned
    BY <1>3 DEF ReceivePart, probe
  <2> HIDE DEF line
  <2>4. ASSUME NEW i \in Ids, NEW k \in Directions, Held(i, k)'
        PROVE  IsOf(MessageOf(i, k)', run)
    <3>1. CASE Held(i, k) /\ MessageOf(i, k)' = MessageOf(i, k)
      BY <2>3, <3>1 DEF OwnInv
    <3>2. CASE MessageOf(i, k)' = NewMessage(line) /\ NewMessage(line) # Nothing
      <4>1. Held(line.id, line.k) => IsOf(MessageOf(line.id, line.k), line.run)
        BY <2>1, <2>2, <2>3 DEF OwnInv
      <4> QED BY <2>1, <3>2, <4>1, NewMessageRun
    <3> QED BY <2>1, <2>4, <3>1, <3>2, HeldAfter
  <2> QED BY <2>3, <2>4 DEF OwnInv, IsOf
<1>4. CASE ReceiveSnapshot
  <2>1. UNCHANGED <<store, run, respawned>> /\ rows' = rows \cup lane[1].rows
    BY <1>4 DEF ReceiveSnapshot, storeVars, probe, history
  <2>2. \A r \in lane[1].rows : r.run = run
    BY <1>4, LaneTail DEF ReceiveSnapshot, LaneInv, IsLine
  <2>3. \A i \in Ids, k \in Directions : Held(i, k)' <=> Held(i, k)
    BY <2>1 DEF Held
  <2>4. \A i \in Ids, k \in Directions : MessageOf(i, k)' = MessageOf(i, k)
    BY <2>1 DEF MessageOf
  <2> QED BY <2>1, <2>2, <2>3, <2>4 DEF OwnInv
<1>5. CASE LoseLine
  BY <1>1, <1>5 DEF LoseLine, storeVars, probe
<1>6. CASE Respawn
  BY <1>6 DEF Respawn
<1>7. CASE Restart
  <2>1. rows' = {} /\ \A i \in Ids : store'[i] = Nothing
    BY <1>7 DEF Restart, ResetStore
  <2> QED BY <2>1 DEF OwnInv, Held
<1>8. CASE UNCHANGED vars
  BY <1>1, <1>8 DEF vars, storeVars, probe, history
<1> QED
  BY <1>2, <1>3, <1>4, <1>5, <1>6, <1>7, <1>8 DEF Next

-----------------------------------------------------------------------------
(* Nothing left out.                                                         *)

ArrivedInv ==
    /\ \A x \in arrived : x \in BodyLines /\ x.id \in 1..lastId
    /\ \A x \in arrived, y \in In(lane) : IsLine(y) /\ SameKey(x, y) => y.t # "head"
    /\ \A x \in arrived : Held(x.id, x.k) =>
           LET m == MessageOf(x.id, x.k) IN m.gap \/ x.off < Len(m.d)

LEMMA ArrivedInvStep == LaneTyped /\ LaneInv /\ IInv /\ ArrivedInv /\ [Next]_vars => ArrivedInv'
<1> SUFFICES ASSUME LaneTyped, LaneInv, IInv, ArrivedInv, [Next]_vars PROVE ArrivedInv'
  OBVIOUS
<1>0. ASSUME store' = store
      PROVE  \A i, k : (Held(i, k)' <=> Held(i, k)) /\ MessageOf(i, k)' = MessageOf(i, k)
  BY <1>0 DEF Held, MessageOf
<1>1. ASSUME UNCHANGED <<store, arrived, lastId>>, In(lane') \subseteq In(lane) PROVE ArrivedInv'
  BY <1>0, <1>1 DEF ArrivedInv
<1>2. ASSUME NEW n \in 1..PerTick, NEW list \in [1..n -> Exchanges], Emit(list)
      PROVE  ArrivedInv'
  <2>1. store' = store /\ arrived' = arrived
    BY <1>2 DEF Emit, storeVars, history
  <2>2. lastId' = lastId + n /\ n \in Nat /\ lastId \in Nat
    BY <1>2, EmitPrints, LaneTypes
  <2>3. ASSUME NEW x \in arrived, NEW y \in In(lane'), IsLine(y), SameKey(x, y) PROVE FALSE
    <3>1. x.id \in 1..lastId
      BY DEF ArrivedInv
    <3>2. y.id \in (lastId + 1)..lastId'
      BY <1>2, <2>3, EmitLines
    <3>3. x.id # y.id
      BY <2>2, <3>1, <3>2
    <3> QED BY <2>3, <3>3 DEF SameKey
  <2>4. 1..lastId \subseteq 1..lastId'
    BY <2>2
  <2> QED BY <1>0, <2>1, <2>3, <2>4 DEF ArrivedInv
<1>3. CASE ReceivePart
  <2> DEFINE line == lane[1]
  <2>1. line \in HeadLines \cup BodyLines /\ Part(line) /\ line.id \in 1..lastId /\ IsLine(line)
    BY <1>3, LaneTail DEF ReceivePart, LaneInv, IsLine
  <2>2. line.id \in Ids /\ line.k \in Directions /\ line.t \in {"head", "body"}
    BY <2>1 DEF HeadLines, BodyLines
  <2>3. lastId' = lastId /\ lane' = Tail(lane) /\ In(lane) = {line} \cup In(lane')
    BY <1>3, LaneTail DEF ReceivePart, probe
  <2>4. arrived' = IF line.t = "body" THEN arrived \cup {line} ELSE arrived
    BY <1>3 DEF ReceivePart
  <2>5. \A y \in In(lane') : IsLine(y) /\ SameKey(line, y) => InOrder(line, y)
    BY <1>3, <2>1, <2>3, OrderedTail DEF ReceivePart, LaneInv, LaneTyped
  <2>6. line.t = "body" => line \in BodyLines
    BY <2>1 DEF HeadLines
  <2> HIDE DEF line
  <2>7. \A x \in arrived' : x \in BodyLines /\ x.id \in 1..lastId'
    BY <2>1, <2>3, <2>4, <2>6 DEF ArrivedInv
  <2>8. \A x \in arrived', y \in In(lane') : IsLine(y) /\ SameKey(x, y) => y.t # "head"
    BY <2>3, <2>4, <2>5 DEF ArrivedInv, InOrder
  <2>9. ASSUME NEW x \in arrived', Held(x.id, x.k)'
        PROVE  MessageOf(x.id, x.k)'.gap \/ x.off < Len(MessageOf(x.id, x.k)'.d)
    <3>1. x \in BodyLines /\ x.id \in Ids /\ x.k \in Directions
      BY <2>7 DEF BodyLines
    <3>2. CASE /\ x.id # line.id \/ x.k # line.k
               /\ Held(x.id, x.k) /\ MessageOf(x.id, x.k)' = MessageOf(x.id, x.k)
      <4>1. x \in arrived
        BY <2>4, <3>2
      <4> QED BY <3>2, <4>1 DEF ArrivedInv
    <3>3. CASE /\ x.id = line.id /\ x.k = line.k
               /\ MessageOf(x.id, x.k)' = NewMessage(line) /\ NewMessage(line) # Nothing
      <4> DEFINE m == MessageOf(line.id, line.k)
                 p == [run |-> line.run, off |-> line.off]
      <4>1. line.t = "body"
        <5>1. CASE x = line
          BY <2>2, <3>1, <5>1 DEF BodyLines
        <5>2. CASE x # line
          <6>1. x \in arrived /\ line \in In(lane) /\ SameKey(x, line)
            BY <2>3, <2>4, <3>3, <5>2 DEF SameKey
          <6> QED BY <2>1, <2>2, <6>1 DEF ArrivedInv
        <5> QED BY <5>1, <5>2
      <4>2. Held(line.id, line.k) /\ m \in Messages
        BY <2>1, <3>3, <4>1, NewMessageIs
      <4>3. x # line => m.gap \/ x.off < Len(m.d)
        <5> SUFFICES ASSUME x # line PROVE m.gap \/ x.off < Len(m.d)
          OBVIOUS
        <5>1. x \in arrived /\ Held(x.id, x.k)
          BY <2>4, <3>3, <4>1, <4>2
        <5> QED BY <3>3, <5>1 DEF ArrivedInv
      <4>4. Len(m.d) \in Nat
        BY <4>2 DEF Messages
      <4>5. CASE m.gap /\ NewMessage(line) = m
        BY <3>3, <4>5
      <4>6. CASE NewMessage(line) = Broken(m)
        <5>1. Broken(m).gap
          BY <4>2 DEF Broken, Messages
        <5> QED BY <3>3, <4>6, <5>1
      <4>7. CASE /\ ~m.gap /\ line.off = Len(m.d)
                 /\ NewMessage(line).d = Append(m.d, p)
        <5>1. Len(Append(m.d, p)) = Len(m.d) + 1
          BY <4>2 DEF Messages
        <5>2. x.off = Len(m.d) \/ x.off < Len(m.d)
          BY <4>3, <4>7
        <5>3. x.off < Len(m.d) + 1
          <6>1. x.off \in Nat
            BY <3>1, BodyStoreAssumption DEF BodyLines
          <6> QED BY <4>4, <5>2, <6>1
        <5> QED BY <3>3, <4>7, <5>1, <5>3
      <4> QED BY <2>1, <3>3, <4>1, <4>5, <4>6, <4>7, NewMessageIs
    <3> QED BY <2>1, <2>9, <3>1, <3>2, <3>3, HeldAfter
  <2> QED BY <2>7, <2>8, <2>9 DEF ArrivedInv
<1>4. CASE ReceiveSnapshot \/ LoseLine
  BY <1>1, <1>4, LaneTail DEF ReceiveSnapshot, LoseLine, storeVars, probe, history
<1>5. CASE Respawn \/ Restart
  BY <1>5 DEF Respawn, Restart, NewRun, ArrivedInv
<1>6. CASE UNCHANGED vars
  BY <1>1, <1>6 DEF vars, storeVars, probe, history
<1> QED
  BY <1>2, <1>3, <1>4, <1>5, <1>6 DEF Next

-----------------------------------------------------------------------------
(* Rows that open.                                                           *)

HeadIn(s, i, k) == \E x \in In(s) : x.t = "head" /\ x.id = i /\ x.k = k
PieceIn(s, i, k, j) == \E x \in In(s) : x.t = "body" /\ x.id = i /\ x.k = k /\ x.off = j

\* As much as has come of a body of so many pieces is held, and the rest of it is to come.
Filling(i, k, n) ==
    /\ \A x \in In(lane) : x.t = "body" /\ x.id = i /\ x.k = k => x.off < n
    /\ HeadIn(lane, i, k) => \A j \in 0..(n - 1) : PieceIn(lane, i, k, j)
    /\ ~HeadIn(lane, i, k) =>
           /\ Held(i, k)
           /\ MessageOf(i, k) \in Messages
           /\ ~MessageOf(i, k).gap
           /\ Len(MessageOf(i, k).d) <= n
           /\ \A j \in 0..(n - 1) : PieceIn(lane, i, k, j) <=> Len(MessageOf(i, k).d) <= j

\* The rows that are here or on the lane.
Told == rows \cup UNION {x.rows : x \in {y \in In(lane) : ~IsLine(y)}}

Promised(r, k) == Shipped(r, k) /\ <<r.id, k>> \notin lost /\ r.id \notin gone

OpensInv ==
    ~respawned =>
        /\ \A r \in rows : /\ r.id \in 1..lastId
                           /\ \A x \in In(lane) : IsLine(x) => x.id # r.id
        /\ \A r \in Told, k \in Directions : Promised(r, k) => Filling(r.id, k, r[k].pieces)

\* Lines of other directions are none of this one's business.
LEMMA FillingElsewhere ==
    ASSUME NEW i, NEW k, NEW n, Filling(i, k, n), NEW line,
           In(lane) = {line} \cup In(lane'),
           IsLine(line) => line.id # i \/ line.k # k,
           HeadIn(lane, i, k) \/ (Held(i, k)' /\ MessageOf(i, k)' = MessageOf(i, k))
    PROVE  Filling(i, k, n)'
<1>1. ASSUME line.t # "snapshot" PROVE line.id # i \/ line.k # k
  BY <1>1 DEF IsLine
<1>2. ~(line.t = "head" /\ line.id = i /\ line.k = k)
      /\ ~(line.t = "body" /\ line.id = i /\ line.k = k)
  BY <1>1
<1>3. HeadIn(lane', i, k) <=> HeadIn(lane, i, k)
  BY <1>2 DEF HeadIn
<1>4. \A j : PieceIn(lane', i, k, j) <=> PieceIn(lane, i, k, j)
  BY <1>2 DEF PieceIn
<1>5. \A x \in In(lane') : x \in In(lane)
  OBVIOUS
<1>6. HeadIn(lane, i, k)' <=> HeadIn(lane', i, k)
  BY DEF HeadIn, In
<1>7. \A j : PieceIn(lane, i, k, j)' <=> PieceIn(lane', i, k, j)
  BY DEF PieceIn, In
<1> QED
  BY <1>3, <1>4, <1>5 DEF Filling

\* A head opens its direction, and a piece leaves an open one open.
LEMMA KeptOpen ==
    ASSUME IInv, NEW line \in HeadLines \cup BodyLines, NEW n,
           Filling(line.id, line.k, n),
           In(lane) = {line} \cup In(lane'),
           ~HeadIn(lane', line.id, line.k)
    PROVE  NewMessage(line) # Nothing
<1> DEFINE m == Entry(line.id).msgs[line.k]
           longer == [m EXCEPT !.d = Append(@, [run |-> line.run, off |-> line.off])]
<1>1. line.id \in Ids /\ line.k \in Directions /\ line.t \in {"head", "body"}
  BY DEF HeadLines, BodyLines
<1>2. CASE line.t = "head"
  <2>1. Opened(line) \in Messages
    BY <1>2, OpenedIsGood DEF BodyLines
  <2> QED BY <1>2, <2>1, BodyStoreAssumption DEF NewMessage
<1>3. CASE line.t = "body"
  <2>1. ~HeadIn(lane, line.id, line.k)
    BY <1>3 DEF HeadIn
  <2>2. Held(line.id, line.k) /\ MessageOf(line.id, line.k) \in Messages
    BY <2>1 DEF Filling
  <2>3. m = MessageOf(line.id, line.k)
    BY <2>2 DEF Held, Entry, MessageOf
  <2>4. m \in Messages /\ IsContiguous(m)
    BY <1>1, <2>2, <2>3 DEF IInv, GoodEntry, Held, MessageOf
  <2>5. line \in BodyLines
    BY <1>3 DEF HeadLines
  <2>6. Broken(m) \in Messages
    BY <2>4, BrokenIsGood
  <2>7. IsNext(line, m) => longer \in Messages
    BY <2>4, <2>5, AppendedIsGood
  <2>8. NewMessage(line) = IF ~OpenForMore(m) THEN m
                           ELSE IF ~IsNext(line, m) THEN Broken(m) ELSE longer
    BY <1>3 DEF NewMessage
  <2> HIDE DEF m, longer
  <2>9. NewMessage(line) \in Messages
    BY <2>4, <2>6, <2>7, <2>8
  <2> QED BY <2>9, BodyStoreAssumption
<1> QED
  BY <1>1, <1>2, <1>3

\* The direction's own line: a head that starts from nothing, or the piece that comes next.
LEMMA FillingFurther ==
    ASSUME IInv, NEW line \in HeadLines \cup BodyLines, Part(line), NEW n \in Nat,
           Filling(line.id, line.k, n),
           In(lane) = {line} \cup In(lane'),
           \A y \in In(lane') : IsLine(y) /\ SameKey(line, y) => InOrder(line, y),
           store'[line.id] # Nothing
    PROVE  Filling(line.id, line.k, n)'
<1> DEFINE i == line.id
           k == line.k
           m == MessageOf(i, k)
           p == [run |-> line.run, off |-> line.off]
<1>1. i \in Ids /\ k \in Directions /\ line.t \in {"head", "body"} /\ IsLine(line)
  BY DEF HeadLines, BodyLines, IsLine
<1>2. ~HeadIn(lane', i, k)
  BY DEF HeadIn, IsLine, SameKey, InOrder
<1>3. Held(i, k)' /\ MessageOf(i, k)' = NewMessage(line) /\ NewMessage(line) # Nothing
  <2>1. NewMessage(line) # Nothing
    BY <1>2, KeptOpen
  <2>2. store'[i].msgs = [Entry(i).msgs EXCEPT ![k] = NewMessage(line)]
    BY <1>1, PartRenews DEF Renews
  <2>3. Entry(i).msgs \in [Directions -> Messages \cup {Nothing}]
    BY <1>1, EntryIsGood DEF GoodEntry, Entries
  <2>4. store'[i].msgs[k] = NewMessage(line)
    BY <1>1, <2>2, <2>3
  <2> QED BY <2>1, <2>4 DEF Held, MessageOf
<1>4. IInv'
  BY HeadKeepsIInv, PieceKeepsIInv DEF Part, HeadLines, BodyLines
<1>5. MessageOf(i, k)' \in Messages
  BY <1>1, <1>3, <1>4 DEF IInv, Held, MessageOf, Entries
<1>6. \A x \in In(lane') : x.t = "body" /\ x.id = i /\ x.k = k => x.off < n
  BY DEF Filling
<1>7. CASE line.t = "head"
  <2>1. HeadIn(lane, i, k)
    BY <1>7 DEF HeadIn
  <2>2. MessageOf(i, k)'.d = <<>> /\ ~MessageOf(i, k)'.gap /\ Len(<<>>) = 0
    BY <1>3, <1>7 DEF NewMessage, Opened
  <2>3. \A j \in 0..(n - 1) : PieceIn(lane', i, k, j)
    BY <1>7, <2>1 DEF Filling, PieceIn
  <2>4. \A j \in 0..(n - 1) : 0 <= j
    OBVIOUS
  <2> QED BY <1>2, <1>3, <1>5, <1>6, <2>2, <2>3, <2>4 DEF Filling
<1>8. CASE line.t = "body"
  <2>1. line \in BodyLines /\ line.off \in Nat
    BY <1>8, BodyStoreAssumption DEF HeadLines, BodyLines
  <2>2. ~HeadIn(lane, i, k)
    BY <1>2, <1>8 DEF HeadIn
  <2>3. /\ Held(i, k) /\ m \in Messages /\ ~m.gap /\ Len(m.d) <= n
        /\ \A j \in 0..(n - 1) : PieceIn(lane, i, k, j) <=> Len(m.d) <= j
    BY <2>2 DEF Filling
  <2>4. Len(m.d) \in Nat
    BY <2>3 DEF Messages
  <2>5. line.off < n /\ line.off \in 0..(n - 1) /\ PieceIn(lane, i, k, line.off)
    BY <1>8, <2>1 DEF Filling, PieceIn
  <2>6. Len(m.d) <= line.off
    BY <2>3, <2>5
  <2>7. ASSUME NEW j \in Nat, PieceIn(lane, i, k, j) PROVE line.off <= j
    <3>1. PICK x \in In(lane) : x.t = "body" /\ x.id = i /\ x.k = k /\ x.off = j
      BY <2>7 DEF PieceIn
    <3>2. CASE x = line
      BY <2>1, <3>1, <3>2
    <3>3. CASE x # line
      <4>1. InOrder(line, x)
        BY <3>1, <3>3 DEF IsLine, SameKey
      <4> QED BY <1>8, <2>1, <3>1, <4>1 DEF InOrder
    <3> QED BY <3>2, <3>3
  <2>8. line.off = Len(m.d)
    <3>1. Len(m.d) \in 0..(n - 1)
      BY <2>1, <2>4, <2>5, <2>6
    <3>2. PieceIn(lane, i, k, Len(m.d))
      BY <2>3, <2>4, <3>1
    <3> QED BY <2>1, <2>4, <2>6, <2>7, <3>2
  <2>9. NewMessage(line).d = Append(m.d, p) /\ NewMessage(line).gap = m.gap
    BY <1>3, <1>8, <2>3, <2>8, NewMessageIs
  <2>10. Len(MessageOf(i, k)'.d) = Len(m.d) + 1 /\ ~MessageOf(i, k)'.gap
    <3>1. Len(Append(m.d, p)) = Len(m.d) + 1
      BY <2>3 DEF Messages
    <3> QED BY <1>3, <2>3, <2>9, <3>1
  <2>11. ASSUME NEW j \in 0..(n - 1)
         PROVE  PieceIn(lane', i, k, j) <=> Len(m.d) + 1 <= j
    <3>1. ASSUME PieceIn(lane', i, k, j) PROVE Len(m.d) + 1 <= j
      <4>1. PICK x \in In(lane') : x.t = "body" /\ x.id = i /\ x.k = k /\ x.off = j
        BY <3>1 DEF PieceIn
      <4>2. InOrder(line, x)
        BY <4>1 DEF IsLine, SameKey
      <4> QED BY <1>8, <2>4, <2>8, <4>1, <4>2 DEF InOrder
    <3>2. ASSUME Len(m.d) + 1 <= j PROVE PieceIn(lane', i, k, j)
      <4>1. Len(m.d) <= j /\ j # line.off
        BY <2>4, <2>8, <3>2
      <4>2. PieceIn(lane, i, k, j)
        BY <2>3, <4>1
      <4> QED BY <4>1, <4>2 DEF PieceIn
    <3> QED BY <3>1, <3>2
  <2>12. Len(m.d) + 1 <= n
    BY <2>4, <2>5, <2>8
  <2> HIDE DEF m
  <2> QED BY <1>2, <1>3, <1>5, <1>6, <2>10, <2>11, <2>12 DEF Filling
<1> QED
  BY <1>1, <1>7, <1>8

\* A row of which something was captured knows how much.
LEMMA PromisedPieces ==
    ASSUME NEW r \in Row, NEW k \in Directions, Shipped(r, k)
    PROVE  r[k] \in Captured /\ r[k].pieces \in Nat
<1>1. r[k] \in Captured \cup {Nothing}
  <2>1. CASE k = "req"
    <3>1. PICK x \in Exchanges : r.req = x.req
      BY DEF Row
    <3>2. x.req \in Captured \cup {Nothing}
      BY BodyTransportAssumption
    <3> QED BY <2>1, <3>1, <3>2
  <2>2. CASE k = "res"
    <3>1. PICK x \in Exchanges : r.res = x.res
      BY DEF Row
    <3>2. x.res \in Captured \cup {Nothing}
      BY BodyTransportAssumption
    <3> QED BY <2>2, <3>1, <3>2
  <2> QED BY <2>1, <2>2 DEF Directions
<1> QED
  BY <1>1 DEF Shipped, Captured

LEMMA ToldIsRows == LaneTyped => Told \subseteq Row
<1> SUFFICES ASSUME LaneTyped, NEW y \in In(lane), ~IsLine(y) PROVE y.rows \subseteq Row
  BY DEF Told, LaneTyped
<1>1. y \in LaneLines
  BY ElementOfSeq DEF In, LaneTyped
<1> QED
  BY <1>1 DEF LaneLines, HeadLines, BodyLines, SnapshotLines, IsLine

LEMMA OpensEmit ==
    ASSUME LaneTyped, OpensInv, ~respawned,
           NEW n \in 1..PerTick, NEW list \in [1..n -> Exchanges], Emit(list)
    PROVE  OpensInv'
<1> DEFINE v == BodiesOf(list)
           L == Rows(list)
<1>1. /\ lane = <<>> /\ store' = store /\ rows' = rows
      /\ respawned' = respawned /\ lost' = lost /\ gone' = gone
  BY DEF Emit, storeVars, history
<1>2. In(lane) = {}
  BY <1>1, InEmpty
<1>3. lastId' = lastId + n /\ n \in Nat /\ lastId \in Nat
  BY EmitPrints, LaneTypes
<1>4. /\ In(lane') = In(v) \cup {Snapshot(list)} /\ ~IsLine(Snapshot(list))
      /\ \A x \in In(v) : IsLine(x) /\ x.id \in (lastId + 1)..lastId'
      /\ \A x \in In(v) : \E j \in 1..n : LineOf(x, L[j])
  BY EmitLines
<1>5. \A j \in 1..n, k \in Directions : Shipped(L[j], k) => AllThere(v, L[j], k)
  BY EmitPrints DEF Printed
<1>6. \A j \in 1..n : L[j].id = lastId + j /\ L[j] \in Row
  <2>1. Len(list) = n
    BY EmitPrints
  <2>2. \A j \in 1..n : L[j].id = lastId + j
    BY <2>1 DEF Rows
  <2> HIDE DEF L
  <2>3. \A j \in 1..n : L[j] \in Row
    BY EmitPrints DEF L
  <2> QED BY <2>2, <2>3
<1>7. Snapshot(list).rows = {L[j] : j \in 1..n}
  BY EmitPrints DEF Snapshot
<1> HIDE DEF v, L
<1>8. \A i, k : (Held(i, k)' <=> Held(i, k)) /\ MessageOf(i, k)' = MessageOf(i, k)
  BY <1>1 DEF Held, MessageOf
<1>9. ASSUME NEW r \in rows, NEW x \in In(lane'), IsLine(x) PROVE x.id # r.id
  <2>1. r.id \in 1..lastId
    BY DEF OpensInv
  <2>2. x.id \in (lastId + 1)..lastId'
    BY <1>4, <1>9
  <2> QED BY <1>3, <2>1, <2>2
<1>10. \A r \in rows : r.id \in 1..lastId'
  <2>1. 1..lastId \subseteq 1..lastId'
    BY <1>3
  <2> QED BY <2>1 DEF OpensInv
<1>11. ASSUME NEW r \in Told', NEW k \in Directions, Promised(r, k)'
       PROVE  Filling(r.id, k, r[k].pieces)'
  <2>1. Promised(r, k)
    BY <1>1, <1>11 DEF Promised, Shipped
  <2>2. CASE r \in rows
    <3>1. Filling(r.id, k, r[k].pieces)
      BY <2>1, <2>2 DEF OpensInv, Told
    <3>2. \A x \in In(lane') : (x.t # "head" /\ x.t # "body") \/ x.id # r.id
      BY <1>9, <2>2 DEF IsLine
    <3>3. ~HeadIn(lane', r.id, k) /\ \A j : ~PieceIn(lane', r.id, k, j)
      BY <3>2 DEF HeadIn, PieceIn
    <3>4. ~HeadIn(lane, r.id, k) /\ \A j : ~PieceIn(lane, r.id, k, j)
      BY <1>2 DEF HeadIn, PieceIn
    <3>5. HeadIn(lane, r.id, k)' <=> HeadIn(lane', r.id, k)
      BY DEF HeadIn, In
    <3>6. \A j : PieceIn(lane, r.id, k, j)' <=> PieceIn(lane', r.id, k, j)
      BY DEF PieceIn, In
    <3> QED BY <1>8, <3>1, <3>2, <3>3, <3>4, <3>5, <3>6 DEF Filling
  <2>3. CASE r \notin rows
    <3>1. r \in Snapshot(list).rows
      BY <1>1, <1>4, <1>11, <2>3 DEF Told
    <3>2. PICK j \in 1..n : r = L[j]
      BY <1>7, <3>1
    <3>3. AllThere(v, r, k)
      BY <1>5, <2>1, <3>2 DEF Promised
    <3>4. HeadIn(lane', r.id, k)
      BY <1>4, <3>3 DEF AllThere, HeadIn
    <3>5. \A q \in 0..(r[k].pieces - 1) : PieceIn(lane', r.id, k, q)
      BY <1>4, <3>3 DEF AllThere, PieceIn
    <3>6. ASSUME NEW x \in In(lane'), x.t = "body", x.id = r.id, x.k = k
          PROVE  x.off < r[k].pieces
      <4>1. x \in In(v)
        BY <1>4, <3>6 DEF IsLine, Snapshot
      <4>2. PICK q \in 1..n : LineOf(x, L[q])
        BY <1>4, <4>1
      <4>3. L[q].id = r.id
        BY <3>6, <4>2 DEF LineOf
      <4>4. q = j
        BY <1>3, <1>6, <3>2, <4>3
      <4> QED BY <3>2, <3>6, <4>2, <4>4 DEF LineOf
    <3>7. HeadIn(lane, r.id, k)' <=> HeadIn(lane', r.id, k)
      BY DEF HeadIn, In
    <3>8. \A q : PieceIn(lane, r.id, k, q)' <=> PieceIn(lane', r.id, k, q)
      BY DEF PieceIn, In
    <3> QED BY <3>4, <3>5, <3>6, <3>7, <3>8 DEF Filling
  <2> QED BY <2>2, <2>3
<1> QED
  BY <1>1, <1>9, <1>10, <1>11 DEF OpensInv

\* An entry that is not evicted keeps its other directions.
LEMMA HeldStays ==
    ASSUME IInv, NEW line \in HeadLines \cup BodyLines, Part(line),
           NEW i \in Ids, NEW k \in Directions, Held(i, k),
           i # line.id \/ k # line.k, store'[i] # Nothing
    PROVE  Held(i, k)' /\ MessageOf(i, k)' = MessageOf(i, k)
<1>1. CASE i # line.id
  <2>1. store'[i] = store[i]
    BY <1>1, PartRenews DEF Renews
  <2> QED BY <2>1 DEF Held, MessageOf
<1>2. CASE i = line.id /\ k # line.k
  <2>1. store'[i].msgs = [Entry(i).msgs EXCEPT ![line.k] = NewMessage(line)]
    BY <1>2, PartRenews DEF Renews
  <2>2. Entry(i).msgs \in [Directions -> Messages \cup {Nothing}]
    BY EntryIsGood DEF GoodEntry, Entries
  <2>3. store'[i].msgs[k] = Entry(i).msgs[k]
    BY <1>2, <2>1, <2>2
  <2>4. Entry(i) = store[i]
    BY DEF Entry, Held
  <2> QED BY <2>3, <2>4 DEF Held, MessageOf
<1> QED
  BY <1>1, <1>2

LEMMA ToldTail ==
    ASSUME In(lane) = {lane[1]} \cup In(lane'), rows' = rows
    PROVE  Told' \subseteq Told
<1>1. \A x : x \in In(lane)' <=> x \in In(lane')
  BY DEF In
<1> QED
  BY <1>1 DEF Told

LEMMA OpensPart ==
    ASSUME LaneTyped, LaneInv, IInv, OpensInv, ~respawned, ReceivePart
    PROVE  OpensInv'
<1>0. PICK line : line = lane[1]
  OBVIOUS
<1>1. line \in HeadLines \cup BodyLines /\ Part(line) /\ IsLine(line)
  BY <1>0, LaneTail DEF ReceivePart, LaneInv, IsLine
<1>2. line.id \in Ids /\ line.k \in Directions
  BY <1>1 DEF HeadLines, BodyLines
<1>3. lastId' = lastId /\ lane' = Tail(lane) /\ In(lane) = {line} \cup In(lane')
      /\ rows' = rows /\ respawned' = respawned /\ lost' = lost
  BY <1>0, LaneTail DEF ReceivePart, probe
<1>4. \A y \in In(lane') : IsLine(y) /\ SameKey(line, y) => InOrder(line, y)
  BY <1>0, <1>1, <1>3, OrderedTail DEF ReceivePart, LaneInv, LaneTyped
<1>5. Told' \subseteq Told /\ Told \subseteq Row
  BY <1>0, <1>3, ToldTail, ToldIsRows
<1>6. gone' = gone \cup {i \in Ids : i \in {line.id} \cup {j \in Ids : store[j] # Nothing}
                                     /\ store'[i] = Nothing}
  BY <1>0 DEF ReceivePart
<1>7. ASSUME NEW r \in Told', NEW k \in Directions, Promised(r, k)'
      PROVE  Filling(r.id, k, r[k].pieces)'
  <2>1. Promised(r, k) /\ r.id \notin gone'
    BY <1>3, <1>6, <1>7 DEF Promised, Shipped
  <2>2. r \in Row /\ r.id \in Ids /\ Shipped(r, k)
    BY <1>5, <2>1 DEF Row, Promised
  <2>3. r[k].pieces \in Nat
    BY <2>2, PromisedPieces
  <2>4. Filling(r.id, k, r[k].pieces)
    BY <1>5, <2>1 DEF OpensInv
  <2> DEFINE n == r[k].pieces
             i == r.id
  <2> HIDE DEF n, i
  <2>5. n \in Nat /\ Filling(i, k, n) /\ i \in Ids /\ i \notin gone'
    BY <2>1, <2>2, <2>3, <2>4 DEF n, i
  <2>6. CASE i = line.id /\ k = line.k
    <3>1. store'[line.id] # Nothing
      BY <1>2, <1>6, <2>5, <2>6
    <3>2. Filling(line.id, line.k, n)
      BY <2>5, <2>6
    <3>3. Filling(line.id, line.k, n)'
      BY <1>1, <1>3, <1>4, <2>5, <3>1, <3>2, FillingFurther
    <3> QED BY <2>6, <3>3 DEF Filling, n, i
  <2>7. CASE i # line.id \/ k # line.k
    <3>1. HeadIn(lane, i, k) \/ (Held(i, k)' /\ MessageOf(i, k)' = MessageOf(i, k))
      <4> SUFFICES ASSUME ~HeadIn(lane, i, k)
                   PROVE  Held(i, k)' /\ MessageOf(i, k)' = MessageOf(i, k)
        OBVIOUS
      <4>1. Held(i, k)
        BY <2>5 DEF Filling
      <4>2. store'[i] # Nothing
        BY <1>6, <2>5, <4>1 DEF Held
      <4> QED BY <1>1, <2>5, <2>7, <4>1, <4>2, HeldStays
    <3>2. Filling(i, k, n)'
      BY <1>3, <2>5, <2>7, <3>1, FillingElsewhere
    <3> QED BY <3>2 DEF Filling, n, i
  <2> QED BY <2>6, <2>7 DEF n, i
<1>8. \A r \in rows' : /\ r.id \in 1..lastId'
                       /\ \A x \in In(lane') : IsLine(x) => x.id # r.id
  BY <1>3 DEF OpensInv
<1> QED
  BY <1>7, <1>8 DEF OpensInv, In

LEMMA OpensOthers ==
    ASSUME LaneTyped, LaneInv, OpensInv, ~respawned, ReceiveSnapshot \/ LoseLine
    PROVE  OpensInv'
<1> DEFINE line == lane[1]
<1>1. /\ lastId' = lastId /\ lane' = Tail(lane) /\ In(lane) = {line} \cup In(lane')
      /\ respawned' = respawned /\ store' = store /\ gone' = gone
      /\ lane # <<>> /\ In(lane') \subseteq In(lane)
  BY LaneTail DEF ReceiveSnapshot, LoseLine, probe, storeVars, history
<1>2. \A i, k : (Held(i, k)' <=> Held(i, k)) /\ MessageOf(i, k)' = MessageOf(i, k)
  BY <1>1 DEF Held, MessageOf
<1>3. line \in In(lane)
  BY <1>1
<1>4. Told' \subseteq Told
  <2>1. CASE ReceiveSnapshot
    <3>1. rows' = rows \cup line.rows /\ ~IsLine(line)
      BY <2>1 DEF ReceiveSnapshot, IsLine
    <3>2. \A x : x \in In(lane)' <=> x \in In(lane')
      BY DEF In
    <3> HIDE DEF line
    <3> QED BY <1>1, <1>3, <3>1, <3>2 DEF Told
  <2>2. CASE LoseLine
    BY <1>1, <2>2, ToldTail DEF LoseLine
  <2> QED BY <2>1, <2>2
<1>5. \A r \in rows' : /\ r.id \in 1..lastId'
                       /\ \A x \in In(lane') : IsLine(x) => x.id # r.id
  <2>1. CASE ReceiveSnapshot
    <3>1. rows' = rows \cup line.rows /\ ~IsLine(line)
      BY <2>1 DEF ReceiveSnapshot, IsLine
    <3>2. In(lane') = {}
      <4>1. lane \in Seq(LaneLines) /\ Len(lane) \in Nat \ {0}
        BY <1>1, EmptySeq DEF LaneTyped
      <4>2. 1 = Len(lane)
        <5>1. 1 \in 1..Len(lane) /\ ~IsLine(lane[1])
          BY <3>1, <4>1
        <5>2. \A a \in 1..Len(lane) : ~IsLine(lane[a]) <=> a = Len(lane)
          BY DEF LaneInv
        <5> QED BY <5>1, <5>2
      <4>3. Len(lane') = 0
        BY <1>1, <4>1, <4>2, HeadTailProperties
      <4>4. 1..0 = {}
        OBVIOUS
      <4> QED BY <4>3, <4>4 DEF In
    <3>3. \A r \in line.rows : r.id \in 1..lastId
      BY <1>3, <3>1 DEF LaneInv
    <3> QED BY <1>1, <3>1, <3>2, <3>3 DEF OpensInv
  <2>2. CASE LoseLine
    BY <1>1, <2>2 DEF LoseLine, OpensInv
  <2> QED BY <2>1, <2>2
<1>6. ASSUME NEW r \in Told', NEW k \in Directions, Promised(r, k)'
      PROVE  Filling(r.id, k, r[k].pieces)'
  <2>1. /\ Promised(r, k)
        /\ IsLine(line) => line.id # r.id \/ line.k # k
    <3>1. CASE ReceiveSnapshot
      BY <1>6, <3>1 DEF ReceiveSnapshot, history, Promised, Shipped, IsLine
    <3>2. CASE LoseLine
      <4>1. lost' = IF line.t = "snapshot" THEN lost ELSE lost \cup {<<line.id, line.k>>}
        BY <3>2 DEF LoseLine
      <4> HIDE DEF line
      <4>2. <<r.id, k>> \notin lost'
        BY <1>6 DEF Promised
      <4>3. IsLine(line) => <<r.id, k>> # <<line.id, line.k>>
        BY <4>1, <4>2 DEF IsLine
      <4> QED BY <1>1, <1>6, <4>1, <4>2, <4>3 DEF Promised, Shipped
    <3> QED BY <3>1, <3>2
  <2>2. Filling(r.id, k, r[k].pieces)
    BY <1>4, <2>1 DEF OpensInv
  <2> HIDE DEF line
  <2>3. HeadIn(lane, r.id, k) \/ (Held(r.id, k)' /\ MessageOf(r.id, k)' = MessageOf(r.id, k))
    BY <1>2, <2>2 DEF Filling
  <2>4. PICK i, n : i = r.id /\ n = r[k].pieces
    OBVIOUS
  <2>5. Filling(i, k, n)'
    BY <1>1, <2>1, <2>2, <2>3, <2>4, FillingElsewhere
  <2> QED BY <2>4, <2>5 DEF Filling
<1> QED
  BY <1>5, <1>6 DEF OpensInv, In

LEMMA OpensInvStep == LaneTyped /\ LaneInv /\ IInv /\ OpensInv /\ [Next]_vars => OpensInv'
<1> SUFFICES ASSUME LaneTyped, LaneInv, IInv, OpensInv, [Next]_vars, ~respawned' PROVE OpensInv'
  BY DEF OpensInv
<1>1. ASSUME NEW n \in 1..PerTick, NEW list \in [1..n -> Exchanges], Emit(list)
      PROVE  OpensInv'
  BY <1>1, OpensEmit DEF Emit, history
<1>2. CASE ReceivePart
  BY <1>2, OpensPart DEF ReceivePart
<1>3. CASE ReceiveSnapshot \/ LoseLine
  BY <1>3, OpensOthers DEF ReceiveSnapshot, LoseLine, history
<1>4. CASE Respawn
  BY <1>4 DEF Respawn
<1>5. CASE Restart
  <2>1. rows' = {} /\ In(lane') = {}
    BY <1>5, InEmpty DEF Restart, NewRun
  <2>2. In(lane)' = {}
    BY <2>1 DEF In
  <2>3. Told' = {}
    BY <2>1, <2>2 DEF Told
  <2> QED BY <2>1, <2>3 DEF OpensInv
<1>6. CASE UNCHANGED vars
  BY <1>6 DEF vars, storeVars, probe, history, OpensInv, Told, Promised, Shipped, Filling, HeadIn,
              PieceIn, In, Held, MessageOf
<1> QED
  BY <1>1, <1>2, <1>3, <1>4, <1>5, <1>6 DEF Next

-----------------------------------------------------------------------------
(* The theorems.                                                             *)

\* The inductive invariant.
TransportInv == LaneInv /\ OwnInv /\ ArrivedInv /\ OpensInv

LEMMA TransportInvariant == Spec => []TransportInv
<1>1. Init => TransportInv
  <2> SUFFICES ASSUME Init PROVE TransportInv
    OBVIOUS
  <2>1. In(lane) = {} /\ 1..Len(lane) = {} /\ rows = {} /\ arrived = {}
    BY InEmpty DEF Init
  <2>2. \A i \in Ids : store[i] = Nothing
    BY DEF Init, StoreInit
  <2>3. Told = {}
    BY <2>1 DEF Told
  <2>4. LaneInv /\ OwnInv
    BY <2>1, <2>2 DEF LaneInv, Ordered, OwnInv, Held
  <2>5. ArrivedInv /\ OpensInv
    BY <2>1, <2>3 DEF ArrivedInv, OpensInv
  <2> QED BY <2>4, <2>5 DEF TransportInv
<1>2. LaneTyped /\ IInv /\ TransportInv /\ [Next]_vars => TransportInv'
  BY LaneInvStep, OwnInvStep, ArrivedInvStep, OpensInvStep DEF TransportInv
<1> QED
  BY <1>1, <1>2, LaneIsTyped, ImplementsStore, Invariant, PTL DEF Spec

\* Bodies precede the snapshot that names them: by when a row is here, so is the whole of its
\* body, unless the budget left it out, a line of it was lost or it was evicted, for any
\* exchanges, ticks and bounds of the store.
THEOREM RowsOpen == Spec => []RowOpens
<1>1. LaneTyped /\ TransportInv => RowOpens
  <2> SUFFICES ASSUME LaneTyped, TransportInv, NEW r \in rows, NEW k \in Directions,
                      ~respawned, Promised(r, k)
               PROVE  /\ Held(r.id, k)
                      /\ Len(store[r.id].msgs[k].d) = r[k].pieces
                      /\ ~store[r.id].msgs[k].gap
    BY DEF RowOpens, Promised, Shipped
  <2>1. Filling(r.id, k, r[k].pieces)
    BY DEF TransportInv, OpensInv, Told
  <2>2. \A x \in In(lane) : IsLine(x) => x.id # r.id
    BY DEF TransportInv, OpensInv
  <2>3. ~HeadIn(lane, r.id, k) /\ \A j : ~PieceIn(lane, r.id, k, j)
    BY <2>2 DEF HeadIn, PieceIn, IsLine
  <2>4. r[k].pieces \in Nat
    BY PromisedPieces DEF LaneTyped, Promised
  <2> DEFINE m == MessageOf(r.id, k)
             n == r[k].pieces
  <2>5. /\ Held(r.id, k) /\ m \in Messages /\ ~m.gap /\ Len(m.d) <= n
        /\ \A j \in 0..(n - 1) : ~(Len(m.d) <= j)
    BY <2>1, <2>3 DEF Filling
  <2> HIDE DEF n
  <2>6. Len(m.d) \in Nat /\ n \in Nat
    BY <2>4, <2>5 DEF Messages, n
  <2>7. Len(m.d) = n
    <3> SUFFICES ASSUME Len(m.d) # n PROVE FALSE
      OBVIOUS
    <3> HIDE DEF m
    <3>1. Len(m.d) \in 0..(n - 1)
      BY <2>5, <2>6
    <3> QED BY <2>5, <2>6, <3>1
  <2> QED BY <2>5, <2>7 DEF MessageOf, n
<1> QED
  BY <1>1, LaneIsTyped, TransportInvariant, PTL

\* onPart and part(): each piece that was received for a body that is held is in it, or the
\* body says that a part of it is missing.
THEOREM NothingIsLeftOut == Spec => []NothingLeftOut
<1>1. TransportInv => NothingLeftOut
  BY DEF TransportInv, ArrivedInv, NothingLeftOut, MessageOf
<1> QED
  BY <1>1, TransportInvariant, PTL

\* reset() on restartProbe(): as long as no respawn came between, a row opens its own run's
\* exchange, never another run's of the same number.
THEOREM RowsOpenTheirOwn == Spec => []OwnBodySinceReset
<1>1. LaneTyped /\ TransportInv => OwnBodySinceReset
  <2> SUFFICES ASSUME LaneTyped, TransportInv, ~respawned, NEW r \in rows, NEW k \in Directions,
                      Held(r.id, k)
               PROVE  LET m == store[r.id].msgs[k]
                      IN m.run = r.run /\ \A j \in 1..Len(m.d) : m.d[j].run = r.run
    BY DEF OwnBodySinceReset, OwnBody
  <2>1. r.run = run /\ r.id \in Ids
    BY DEF TransportInv, OwnInv, LaneTyped, Row
  <2>2. IsOf(MessageOf(r.id, k), run)
    BY <2>1 DEF TransportInv, OwnInv
  <2> QED BY <2>1, <2>2 DEF IsOf, MessageOf
<1> QED
  BY <1>1, LaneIsTyped, TransportInvariant, PTL
=============================================================================
