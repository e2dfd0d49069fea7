----------------------------- MODULE BodyStore ------------------------------
(***************************************************************************)
(* The store of captured bodies, server/bodies.js: a bounded cache from     *)
(* exchange ids to the request and the response that were captured, fed by   *)
(* the lines the exporter prints.  A head line opens a direction of an       *)
(* exchange; body lines carry its pieces, each with its offset.              *)
(*                                                                           *)
(* A head and a piece have size one; an offset counts pieces.  What a line   *)
(* carries is told by where it comes from: the run of the probe that printed *)
(* it, besides its exchange, direction and offset.                           *)
(***************************************************************************)
EXTENDS Integers, Sequences, FiniteSets, Functions

CONSTANTS
    Ids,            (* exchange ids                                             *)
    Runs,           (* runs of the probe: each numbers its exchanges from 1     *)
    Offsets,        (* the offsets a body line may carry                        *)
    Lengths,        (* the values of Content-Length                             *)
    MaxExchanges,   (* maxExchanges                                             *)
    MaxBytes,       (* maxBytes                                                 *)
    Nothing         (* null                                                     *)

Directions == {"req", "res"}

Pieces == [run : Runs, off : Offsets]
Messages == [run : Runs, d : Seq(Pieces), clen : Lengths \cup {Nothing},
             more : BOOLEAN, gap : BOOLEAN]
Entries == [bytes : Int, msgs : [Directions -> Messages \cup {Nothing}]]

ASSUME BodyStoreAssumption ==
    /\ Offsets \subseteq Nat
    /\ Nothing \notin Lengths \cup Messages \cup Entries
    /\ MaxExchanges \in Nat
    /\ MaxBytes \in Nat

HeadLines == [t : {"head"}, id : Ids, k : Directions, run : Runs,
              clen : Lengths \cup {Nothing}, more : BOOLEAN]
BodyLines == [t : {"body"}, id : Ids, k : Directions, run : Runs, off : Offsets]

VARIABLES
    store,     (* id -> entry: the size it is charged for and its two directions *)
    order,     (* the ids held, oldest first (the insertion order of the Map)    *)
    bytes,     (* the size charged for everything held                           *)
    dropped    (* exchanges evicted since the last reset                         *)

storeVars == <<store, order, bytes, dropped>>

Blank == [bytes |-> 0, msgs |-> [k \in Directions |-> Nothing]]
Opened(line) == [run |-> line.run, d |-> <<>>, clen |-> line.clen, more |-> line.more,
                 gap |-> FALSE]
Size(m) == 1 + Len(m.d)

StoreInit ==
    /\ store = [i \in Ids |-> Nothing]
    /\ order = <<>>
    /\ bytes = 0
    /\ dropped = 0

-----------------------------------------------------------------------------
(* Eviction.                                                                 *)

SizeOf(st, S) == SumFunctionOnSet([i \in S |-> st[i].bytes], S)
Oldest(ord, n) == {ord[j] : j \in 1..n}
\* Fault: only the number of exchanges is looked at.
FitsByCount(st, ord, total, n) == Len(ord) - n <= MaxExchanges
\* Nothing more need go once the n oldest are gone.
Fits(st, ord, total, n) ==
    \/ n = Len(ord)
    \/ /\ Len(ord) - n <= MaxExchanges
       /\ total - SizeOf(st, Oldest(ord, n)) <= MaxBytes

\* How many go: from the front, one at a time, until both bounds are met.
Least(st, ord, total, n) ==
    /\ Fits(st, ord, total, n)
    /\ \A m \in 0..(n - 1) : ~Fits(st, ord, total, m)
\* Fault: what was evicted stays on the bill.
SettleUnpaid(st, ord, total) ==
    \E n \in 0..Len(ord) :
        /\ Least(st, ord, total, n)
        /\ store' = [i \in Ids |-> IF i \in Oldest(ord, n) THEN Nothing ELSE st[i]]
        /\ order' = SubSeq(ord, n + 1, Len(ord))
        /\ bytes' = total
        /\ dropped' = dropped + n
\* evict(), once `part' has made the store `st', held in the order `ord' and charged `total'.
Settle(st, ord, total) ==
    \E n \in 0..Len(ord) :
        /\ Least(st, ord, total, n)
        /\ store' = [i \in Ids |-> IF i \in Oldest(ord, n) THEN Nothing ELSE st[i]]
        /\ order' = SubSeq(ord, n + 1, Len(ord))
        /\ bytes' = total - SizeOf(st, Oldest(ord, n))
        /\ dropped' = dropped + n

-----------------------------------------------------------------------------
(* part(): an exchange not held yet gets an entry whatever the line is.      *)

Entry(id) == IF store[id] = Nothing THEN Blank ELSE store[id]
\* Fault: every line makes its exchange the youngest.
OrderWithAlways(id) == Append(order, id)
OrderWith(id) == IF store[id] = Nothing THEN Append(order, id) ELSE order
StoreWith(line, m, size) ==
    [store EXCEPT ![line.id] = [bytes |-> Entry(line.id).bytes + size,
                                msgs  |-> [Entry(line.id).msgs EXCEPT ![line.k] = m]]]

\* Fault: the head that opens a direction is free.
GrowthWithoutHead(was) == IF was = Nothing THEN 0 ELSE -Size(was)
\* A head replaces what its direction held, a new run's head included.
Growth(was) == IF was = Nothing THEN 1 ELSE 1 - Size(was)
OpenDirection(line) ==
    LET growth == Growth(Entry(line.id).msgs[line.k])
    IN Settle(StoreWith(line, Opened(line), growth), OrderWith(line.id), bytes + growth)

\* A direction takes pieces once its head is here and until one went missing.
OpenForMore(m) == m # Nothing /\ ~m.gap
\* Fault: a piece that is further on than expected is taken for the next one.
IsNextOrLater(line, m) == line.off >= Len(m.d)
IsNext(line, m) == line.off = Len(m.d)
\* Fault: a piece that does not fit is skipped.
BrokenUnmarked(m) == m
Broken(m) == [m EXCEPT !.gap = TRUE, !.more = TRUE]

AddPiece(line) ==
    LET m == Entry(line.id).msgs[line.k]
    IN IF ~OpenForMore(m) THEN
           /\ store' = [store EXCEPT ![line.id] = Entry(line.id)]
           /\ order' = OrderWith(line.id)
           /\ UNCHANGED <<bytes, dropped>>
       ELSE IF ~IsNext(line, m) THEN
           /\ store' = StoreWith(line, Broken(m), 0)
           /\ UNCHANGED <<order, bytes, dropped>>
       ELSE Settle(StoreWith(line,
                             [m EXCEPT !.d = Append(@, [run |-> line.run, off |-> line.off])], 1),
                   order, bytes + 1)

Part(line) == IF line.t = "head" THEN OpenDirection(line) ELSE AddPiece(line)

ResetStore ==
    /\ store' = [i \in Ids |-> Nothing]
    /\ order' = <<>>
    /\ bytes' = 0
    /\ dropped' = 0

\* The store by itself: any line may come, in any order.
StoreNext ==
    \/ \E line \in HeadLines \cup BodyLines : Part(line)
    \/ ResetStore
StoreSpec == StoreInit /\ [][StoreNext]_storeVars

-----------------------------------------------------------------------------
(* What the store promises whatever lines it is given.                       *)

StoreTypeOK == store \in [Ids -> Entries \cup {Nothing}]

Held(i, k) == store[i] # Nothing /\ store[i].msgs[k] # Nothing

\* Nothing is concatenated across a hole: the pieces of a body are those at the offsets
\* 0, 1, 2, ... and a body known to be broken is not taken for the whole message.
Contiguous ==
    \A i \in Ids, k \in Directions : Held(i, k) =>
        LET m == store[i].msgs[k]
        IN /\ \A j \in 1..Len(m.d) : m.d[j].off = j - 1
           /\ m.gap => m.more

\* The store is a queue of the entries it holds: what eviction can drop is what is held,
\* once each.
OrderIsStore ==
    /\ \A i \in Ids : store[i] # Nothing <=> \E j \in 1..Len(order) : order[j] = i
    /\ \A j, l \in 1..Len(order) : order[j] = order[l] => j = l

\* What an entry takes, by its two directions.
Charge(msgs) ==
    SumFunctionOnSet([k \in Directions |-> IF msgs[k] = Nothing THEN 0 ELSE Size(msgs[k])],
                     Directions)

\* The bill is right: replaced heads, refused pieces and evictions included, so the
\* store neither evicts early for ever nor grows past its bound.
BytesAddUp ==
    LET held == {i \in Ids : store[i] # Nothing}
    IN /\ bytes = SizeOf(store, held)
       /\ \A i \in held : store[i].bytes = Charge(store[i].msgs)

\* No more is held than the two bounds allow.  (An entry with neither direction, left by
\* a body line without a head, is not counted: it is dropped with the next eviction.)
Bounded ==
    /\ bytes <= MaxBytes
    /\ Cardinality({i \in Ids : Held(i, "req") \/ Held(i, "res")}) <= MaxExchanges
=============================================================================
