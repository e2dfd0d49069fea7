------------------------------- MODULE Capture -------------------------------
(***************************************************************************)
(* Capturing the exchanges of one connection: the TC program of              *)
(* agent/src/bpf/httptop.bpf.c sees segments and ships records through a     *)
(* ring buffer; agent/src/probes/httptop.js pairs responses with requests    *)
(* and stitches bodies together; a timer drains what has settled.            *)
(*                                                                         *)
(* The response direction is a stream of positions.  A response occupies an   *)
(* interval of it, beginning with its head; a segment is an interval within   *)
(* a response.  Each interface (and each of egress and ingress, on loopback)  *)
(* may sight a segment, and so may a retransmission: any number of times, in  *)
(* any order, as long as the response is the one being given.                 *)
(***************************************************************************)
EXTENDS Integers, Sequences, FiniteSetsExt

CONSTANTS
    Responses,    (* <<[start, len, head, says, extra], ...>>: where a response is,   *)
                  (* the length of its head, the Content-Length that is read in the   *)
                  (* first 1, 2, ... positions of that head, and its continuation     *)
                  (* budget (resp_extra or resp_extra_err)                            *)
    Segments,     (* the segments [seq, len] the network may carry                   *)
    ChunkMax,     (* CHUNK_MAX: the most one record holds                            *)
    SegChunks,    (* SEG_CHUNKS: the most records of one segment                     *)
    RespCap,      (* resp_cap: the most of a first segment that is captured          *)
    RingSize,     (* the records the ring buffer holds                               *)
    HeadMax,      (* HEAD_MAX                                                        *)
    BodyMax,      (* BODY_MAX                                                        *)
    MaxSightings, (* bound: sightings of segments and of requests                    *)
    MaxLapses,    (* bound: pauses in which what is kept by age goes                 *)
    Nothing

Msgs == 1..Len(Responses)
Start(m) == Responses[m].start
HeadLen(m) == Responses[m].head
BodyLen(m) == Responses[m].len - HeadLen(m)
Says(m) == Responses[m].says
OfResponse(seg, m) == Start(m) <= seg.seq /\ seg.seq + seg.len <= Start(m) + Responses[m].len

Positive(n) == n \in Nat \ {0}
Windows == [next : Nat, remaining : Nat \ {0}]
ASSUME CaptureAssumption ==
    /\ Responses \in Seq([start : Nat, len : Nat, head : Nat \ {0},
                          says : Seq(Nat \cup {Nothing}), extra : Nat])
    /\ \A m \in Msgs : HeadLen(m) <= Responses[m].len
    \* What a whole head says is never less than the body that follows (HEAD and 304 say
    \* more).  A head that is cut may say nothing yet, or a number short of digits; it is
    \* read as zero only if it is zero.
    /\ \A m \in Msgs : /\ Len(Says(m)) = HeadLen(m)
                       /\ Says(m)[HeadLen(m)] # Nothing => BodyLen(m) <= Says(m)[HeadLen(m)]
                       /\ \A n \in 1..HeadLen(m) : Says(m)[n] = 0 => BodyLen(m) = 0
    /\ \A m, n \in Msgs : m < n => Start(m) + Responses[m].len <= Start(n)
    /\ Segments \subseteq [seq : Nat, len : Nat \ {0}]
    /\ \A seg \in Segments : \E m \in Msgs : OfResponse(seg, m)
    /\ Positive(ChunkMax) /\ Positive(SegChunks) /\ Positive(RespCap) /\ Positive(RingSize)
    /\ Positive(HeadMax) /\ Positive(BodyMax) /\ ChunkMax < HeadMax /\ ChunkMax < BodyMax
    /\ Nothing \notin Windows \cup [clen : Nat \cup {Nothing}, taken : Nat, more : BOOLEAN]
    /\ Nothing \notin Nat

VARIABLES
    \* the kernel
    win,        (* body_win: [next, remaining] or Nothing                            *)
    ring,       (* the records submitted and not read yet                            *)
    \* httptop.js
    seen,       (* the keys of the records taken                                     *)
    pending,    (* the requests that await a response, oldest first                  *)
    recent,     (* recentEvents: every pair so far, as [msg, req, got, trunc, out]:   *)
                (* `got' are the positions stitched so far, head included, and `out'  *)
                (* what was drained                                                  *)
    slot,       (* bodyFill: the pair that a continuation goes to, or 0              *)
    \* the connection and the past
    asked,      (* the last request sent                                             *)
    inOrder,    (* how much of its response was sighted in order since its first     *)
                (* segment was last sighted                                          *)
    cuts,       (* why the capture of a response ended, when nothing says so          *)
    slips,      (* what pairing cannot do without and did not get                    *)
    sightings, lapses

kernel == <<win, ring>>
js == <<seen, pending, recent, slot>>
past == <<asked, inOrder, cuts, slips, sightings, lapses>>
vars == <<kernel, js, past>>

Least(a, b) == IF a < b THEN a ELSE b

Init ==
    /\ win = Nothing /\ ring = <<>>
    /\ seen = {} /\ pending = <<>> /\ recent = <<>> /\ slot = 0
    /\ asked = 0 /\ inOrder = 0 /\ cuts = {} /\ slips = {}
    /\ sightings = 0 /\ lapses = 0

-----------------------------------------------------------------------------
(* The kernel: handle().                                                     *)

IsFirst(seg) == \E m \in Msgs : seg.seq = Start(m)
\* A continuation rides along if it picks up where the last captured segment ended.
Wanted(seg) == IsFirst(seg) \/ (win # Nothing /\ win.next = seg.seq)
Limit(seg) == IF IsFirst(seg) THEN RespCap ELSE win.remaining

\* Fault: every record is stamped with the segment's first byte.
ChunkOfSegment(seg, want, j) ==
    LET off == (j - 1) * ChunkMax
        n == Least(want - off, ChunkMax)
    IN [kind |-> IF IsFirst(seg) /\ j = 1 THEN "response" ELSE "body",
        seq |-> seg.seq, len |-> n,
        trunc |-> off + n = want /\ want < seg.len]
\* The records of the first `want' bytes: each is stamped with its own first byte, and the
\* last one planned is flagged if the segment goes on.
Chunk(seg, want, j) ==
    LET off == (j - 1) * ChunkMax
        n == Least(want - off, ChunkMax)
    IN [kind |-> IF IsFirst(seg) /\ j = 1 THEN "response" ELSE "body",
        seq |-> seg.seq + off, len |-> n,
        trunc |-> off + n = want /\ want < seg.len]
Chunks(want) == Least(SegChunks, (want + ChunkMax - 1) \div ChunkMax)

\* Fault: a continuation that is cut leaves its window open, moved on.
AdvancedPastHole(seg, off) ==
    IF win.remaining > off THEN [next |-> seg.seq + seg.len, remaining |-> win.remaining - off]
    ELSE Nothing
\* Fault: a window without budget is kept.
AdvancedUnbudgeted(seg, off) ==
    IF off = seg.len THEN [next |-> seg.seq + seg.len, remaining |-> win.remaining - off]
    ELSE Nothing
\* The window moves only over a segment that was taken whole, and while budget is left.
Advanced(seg, off) ==
    IF off = seg.len /\ win.remaining > off
    THEN [next |-> seg.seq + seg.len, remaining |-> win.remaining - off]
    ELSE Nothing
\* A first segment always decides anew.
Armed(seg, off) ==
    LET extra == Responses[asked].extra
    IN IF off = seg.len /\ extra > 0 THEN [next |-> seg.seq + seg.len, remaining |-> extra]
       ELSE Nothing

\* Ship what fits of `n' records; the rest of the segment is lost if the ring is full.
Ship(seg, want) ==
    LET n == Chunks(want)
        fit == Least(n, RingSize - Len(ring))
        off == Least(want, fit * ChunkMax)
        flagged == fit = n /\ off = want /\ want < seg.len
        full == IF fit < n THEN {"ring"} ELSE {}
        cut == IF off < seg.len /\ ~flagged /\ fit = n THEN {"ceiling"} ELSE {}
        budget == IF IsFirst(seg) THEN Responses[asked].extra ELSE win.remaining - off
        spent == IF off = seg.len /\ budget = 0 THEN {"budget"} ELSE {}
    IN /\ ring' = ring \o [j \in 1..fit |-> Chunk(seg, want, j)]
       /\ win' = IF fit = 0 THEN win
                 ELSE IF IsFirst(seg) THEN Armed(seg, off) ELSE Advanced(seg, off)
       /\ cuts' = cuts \cup {<<asked, why>> : why \in full \cup cut \cup spent}
       /\ slips' = IF IsFirst(seg) /\ fit = 0 THEN slips \cup {"ring"} ELSE slips

\* The rate limit: a continuation it refuses closes the window, a first segment keeps its
\* first chunk.
Refused(seg, want) ==
    IF ~IsFirst(seg)
    THEN /\ win' = Nothing
         /\ cuts' = cuts \cup {<<asked, "rate">>}
         /\ UNCHANGED <<ring, slips>>
    ELSE Ship(seg, ChunkMax)
Metered(seg, want) == ~IsFirst(seg) \/ want > ChunkMax

Sight(seg) ==
    /\ asked > 0 /\ OfResponse(seg, asked)
    /\ sightings < MaxSightings
    /\ sightings' = sightings + 1
    /\ inOrder' = IF IsFirst(seg) THEN seg.len
                  ELSE IF seg.seq = Start(asked) + inOrder THEN inOrder + seg.len ELSE inOrder
    /\ IF ~Wanted(seg)
       THEN UNCHANGED <<kernel, cuts, slips>>
       ELSE LET want == Least(seg.len, Limit(seg))
            IN \/ Ship(seg, want)
               \/ Metered(seg, want) /\ Refused(seg, want)
    /\ UNCHANGED <<js, asked, lapses>>

\* A request is one record.  The client sends the next one when it has the whole response
\* (no pipelining), and repeats one until the response begins.
SightRequest(m) ==
    /\ m = asked + 1 \/ (m = asked /\ inOrder = 0)
    /\ sightings < MaxSightings
    /\ sightings' = sightings + 1
    /\ asked' = m
    /\ inOrder' = 0
    /\ LET lost == Len(ring) >= RingSize
           unseen == asked \in Msgs /\ m # asked /\ inOrder = 0
       IN /\ ring' = IF lost THEN ring ELSE Append(ring, [kind |-> "request", msg |-> m])
          /\ slips' = slips \cup {why \in {"ring"} : lost} \cup {why \in {"unseen"} : unseen}
    /\ UNCHANGED <<win, js, cuts, lapses>>

\* The LRU map needed the entry.
WindowEvicted ==
    /\ win # Nothing
    /\ win' = Nothing
    /\ cuts' = cuts \cup {<<asked, "evicted">>}
    /\ UNCHANGED <<ring, js, asked, inOrder, slips, sightings, lapses>>

-----------------------------------------------------------------------------
(* The ring buffer's callback: onEvent().                                    *)

Key(rec) == IF rec.kind = "request" THEN <<"req", rec.msg>> ELSE <<"res", rec.seq>>
Positions(rec) == [j \in 1..rec.len |-> rec.seq + j - 1]
Taken(e) == Len(e.got)

\* What stitching a record leaves of a pair: a head up to HEAD_MAX, a body up to BODY_MAX.
Fed(e, rec) ==
    LET got == e.got \o Positions(rec)
        most == IF Len(got) < HeadLen(e.msg) THEN HeadMax ELSE HeadLen(e.msg) + BodyMax
    IN [e EXCEPT !.got = SubSeq(got, 1, Least(Len(got), most)),
                 !.trunc = @ \/ rec.trunc]
\* It collects no more once its head is given up or its body is full.
Full(e) == \/ Taken(e) < HeadLen(e.msg) /\ Taken(e) >= HeadMax
           \/ Taken(e) >= HeadLen(e.msg) + BodyMax

\* Fault: loopback's second sighting is taken for another record.
IsDuplicateNever(rec) == FALSE
\* isDuplicate()
IsDuplicate(rec) == Key(rec) \in seen

OnRequest(rec) ==
    /\ pending' = Append(pending, rec.msg)
    /\ UNCHANGED <<recent, slot, cuts>>

\* Fault: a request that was answered stays.
StillPending == pending
NoLongerPending == Tail(pending)

MsgAt(p) == CHOOSE m \in Msgs : Start(m) = p
\* A response pairs with the oldest request that waits.  Paired or not, it ends what the
\* one before it was collecting.
OnResponse(rec) ==
    /\ IF pending = <<>>
       THEN slot' = 0 /\ UNCHANGED <<pending, recent>>
       ELSE LET e == Fed([msg |-> MsgAt(rec.seq), req |-> pending[1], got |-> <<>>,
                          trunc |-> FALSE, out |-> Nothing], rec)
            IN /\ pending' = NoLongerPending
               /\ recent' = Append(recent, e)
               /\ slot' = IF Full(e) THEN 0 ELSE Len(recent) + 1
    /\ UNCHANGED cuts

\* A flag ends the body; a record that no pair collects is dropped.
OnBody(rec) ==
    /\ UNCHANGED pending
    /\ IF slot = 0
       THEN UNCHANGED <<recent, slot, cuts>>
       ELSE LET e == Fed(recent[slot], rec)
            IN /\ recent' = [recent EXCEPT ![slot] = e]
               /\ slot' = IF rec.trunc \/ Full(e) THEN 0 ELSE slot
               /\ cuts' = IF Full(e) /\ Taken(e) < Responses[e.msg].len
                          THEN cuts \cup {<<e.msg, "room">>} ELSE cuts

\* A key that was forgotten is taken again.
Repeated(rec) == \/ rec.kind = "request" /\ \E i \in 1..Len(recent) : recent[i].req = rec.msg
                 \/ rec.kind = "request" /\ \E i \in 1..Len(pending) : pending[i] = rec.msg
                 \/ rec.kind = "response" /\ \E i \in 1..Len(recent) :
                                                   recent[i].msg = MsgAt(rec.seq)

Consume ==
    /\ ring # <<>>
    /\ ring' = Tail(ring)
    /\ LET rec == ring[1]
       IN IF IsDuplicate(rec)
          THEN /\ cuts' = IF rec.kind # "request" /\ rec.trunc
                          THEN cuts \cup {<<asked, "flag">>} ELSE cuts
               /\ UNCHANGED <<js, slips>>
          ELSE /\ seen' = seen \cup {Key(rec)}
               /\ slips' = slips \cup {why \in {"repeated"} : lapses > 0 /\ Repeated(rec)}
               /\ CASE rec.kind = "request"  -> OnRequest(rec)
                    [] rec.kind = "response" -> OnResponse(rec)
                    [] rec.kind = "body"     -> OnBody(rec)
    /\ UNCHANGED <<win, asked, inOrder, sightings, lapses>>

-----------------------------------------------------------------------------
(* The timers of httptop.js and export.js.                                   *)

\* What of n positions of a response is body.
BodyIn(m, n) == IF n < HeadLen(m) THEN 0 ELSE n - HeadLen(m)
BodyTaken(e) == BodyIn(e.msg, Taken(e))
\* contentLength() of as much of the head as was stitched, whole or not.
ContentLength(e) ==
    LET n == Least(Taken(e), HeadLen(e.msg)) IN IF n = 0 THEN Nothing ELSE Says(e.msg)[n]

\* Fault: only what the kernel flagged is cut.
SealByFlag(e) == [clen |-> ContentLength(e), taken |-> Taken(e), more |-> e.trunc]
\* seal(): the Content-Length decides where there is one.
Seal(e) ==
    LET clen == ContentLength(e)
    IN [clen |-> clen, taken |-> Taken(e),
        more |-> e.trunc \/ (clen # Nothing /\ BodyTaken(e) < clen)]

\* drainRecent(): the pairs that are old enough are a prefix; they leave as they are, and
\* what is stitched to them from now on is for nobody.
Drain(n) ==
    /\ recent[n].out = Nothing
    /\ recent' = [i \in 1..Len(recent) |->
                     IF i <= n /\ recent[i].out = Nothing
                     THEN [recent[i] EXCEPT !.out = Seal(recent[i])] ELSE recent[i]]
    /\ UNCHANGED <<kernel, seen, pending, slot, past>>

\* sampleRates(), after four, five or ten seconds in which nothing was sighted: the keys,
\* then the slots, then the requests are forgotten.
Lapse ==
    /\ lapses < MaxLapses
    /\ lapses' = lapses + 1
    /\ ring = <<>> /\ \A i \in 1..Len(recent) : recent[i].out # Nothing
    /\ seen' = {}
    /\ slot' \in {slot, 0}
    /\ pending' = pending \/ (slot' = 0 /\ pending' = <<>>)
    /\ cuts' = cuts \cup {<<asked, "age">>}
    /\ UNCHANGED <<kernel, recent, asked, inOrder, slips, sightings>>

Next ==
    \/ \E seg \in Segments : Sight(seg)
    \/ \E m \in Msgs : SightRequest(m)
    \/ WindowEvicted
    \/ Consume
    \/ \E n \in 1..Len(recent) : Drain(n)
    \/ Lapse

Spec == Init /\ [][Next]_vars

-----------------------------------------------------------------------------

Records == [kind : {"request"}, msg : Msgs]
           \cup [kind : {"response", "body"}, seq : Nat, len : 1..ChunkMax, trunc : BOOLEAN]

TypeOK ==
    /\ win \in Windows \cup {Nothing}
    /\ ring \in Seq(Records) /\ Len(ring) <= RingSize
    /\ pending \in Seq(Msgs)
    /\ slot \in 0..Len(recent)
    /\ \A i \in 1..Len(recent) : /\ recent[i].msg \in Msgs /\ recent[i].req \in Msgs
                                  /\ recent[i].got \in Seq(Nat)
                                  /\ recent[i].trunc \in BOOLEAN

\* The first pair that a response made: a response whose key the timers forgot is taken
\* again if it is sighted again, and pairs if a request is left over.
IsFirstPair(i) == \A j \in 1..(i - 1) : recent[j].msg # recent[i].msg
\* What there was of a pair when it left, or what there is of it now.
Leaves(e) == IF e.out = Nothing THEN Taken(e) ELSE e.out.taken

\* A retransmission or a reordering is dropped rather than mis-stitched: what leaves of a
\* response is the beginning of that response, without a hole and without a repeat.  (A
\* pair that has left may still be fed a repeat that the timers forgot; nobody reads it.
\* A second pair of the same response starts at its beginning too, and may miss what was
\* taken again before it.)
Stitched ==
    \A i \in 1..Len(recent) : LET e == recent[i] IN
        IsFirstPair(i) => \A j \in 1..Leaves(e) : e.got[j] = Start(e.msg) + j - 1

\* A response in whose head, whole or cut, a length was read leaves with all of its body or
\* marked as cut, whatever was lost and whenever the timer fired.  (It says nothing of the
\* head: one cut after `Content-Length: 0' leaves without a mark.  A number short of digits
\* is no authority, yet no body comes with a head that is cut, so it marks.)
WholeOrMarked ==
    \A i \in 1..Len(recent) : LET e == recent[i] IN
        e.out # Nothing /\ e.out.clen # Nothing
            => e.out.more \/ BodyIn(e.msg, e.out.taken) = BodyLen(e.msg)

\* However often its segments were sighted, a response makes one pair, and the pair is
\* with its own request, as long as no first record was lost and none was forgotten.
PairedOnce ==
    slips = {} => \A i, j \in 1..Len(recent) :
        /\ recent[i].msg = recent[i].req
        /\ recent[i].msg = recent[j].msg => i = j

InHand == IF ring = <<>> THEN {recent[i] : i \in {k \in 1..Len(recent) : recent[k].msg = asked}}
          ELSE {}
Whys(m) == {why \in {"ring", "rate", "ceiling", "budget", "flag", "room", "evicted", "age"} :
               <<m, why>> \in cuts}

\* The window survives double sightings: once the first segment was sighted and the rest
\* in order after it, with any other sightings in between, all of it is taken or marked
\* as cut, unless the capture stopped for one of the reasons that leave no mark.
AllTakenOrMarked ==
    \A e \in InHand : Whys(e.msg) = {} => e.trunc \/ Taken(e) >= inOrder

\* What httptop.bpf.c says: running out stops on a boundary that is flagged, "a truncation
\* the reader is told about", and a ring that fills is the one stop that is not.  (What the
\* LRU map or the timers dropped is not the emitter's doing, and a known length tells.)
OnlyTheRingIsQuiet ==
    \A e \in InHand : Whys(e.msg) \cap {"ring", "evicted", "age"} = {}
                          => Seal(e).more \/ Taken(e) >= inOrder
=============================================================================
