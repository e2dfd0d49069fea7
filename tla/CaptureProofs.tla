---------------------------- MODULE CaptureProofs ----------------------------
(***************************************************************************)
(* What capturing a connection promises for any responses, any chunking, any *)
(* ring and any budgets.                                                     *)
(***************************************************************************)
EXTENDS Capture, FiniteSums, SequenceTheorems

-----------------------------------------------------------------------------
(* Chunks of a length.                                                       *)

LEMMA LeastIs ==
    ASSUME NEW a \in Int, NEW b \in Int
    PROVE  /\ Least(a, b) \in Int /\ Least(a, b) <= a /\ Least(a, b) <= b
           /\ Least(a, b) = a \/ Least(a, b) = b
BY DEF Least

LEMMA TimesStep ==
    ASSUME NEW k \in Nat, NEW c \in Nat
    PROVE  k * c \in Nat /\ (k + 1) * c = k * c + c
OBVIOUS

LEMMA TimesLess ==
    ASSUME NEW k \in Nat, NEW l \in Nat, NEW c \in Nat, k < l
    PROVE  k * c + c <= l * c
<1>1. (l - k - 1) \in Nat /\ l = (l - k - 1) + k + 1
  OBVIOUS
<1>2. l * c = (l - k - 1) * c + (k * c + c)
  BY <1>1
<1>3. (l - k - 1) * c \in Nat /\ k * c \in Nat
  BY <1>1, TimesStep
<1> QED
  BY <1>2, <1>3

LEMMA ChunkCount ==
    ASSUME NEW w \in Nat \ {0}, NEW c \in Nat \ {0}
    PROVE  /\ (w + c - 1) \div c \in Nat \ {0}
           /\ \A k \in Nat : k < (w + c - 1) \div c => k * c < w
<1> DEFINE n == (w + c - 1) \div c
<1>1. n \in Int /\ n * c <= w + c - 1 /\ w + c - 1 < n * c + c
  OBVIOUS
<1> HIDE DEF n
<1>2. n > 0
  <2>1. CASE n <= 0
    <3>1. -n \in Nat /\ (-n) * c \in Nat /\ n * c = -((-n) * c)
      BY <1>1, <2>1
    <3> QED BY <1>1, <3>1
  <2> QED BY <1>1, <2>1
<1>3. ASSUME NEW k \in Nat, k < n PROVE k * c < w
  <2>1. k * c + c <= n * c /\ k * c \in Nat
    BY <1>1, <1>2, <1>3, TimesLess, TimesStep
  <2>2. n * c \in Int
    BY <1>1
  <2> QED BY <1>1, <2>1, <2>2
<1> QED
  BY <1>1, <1>2, <1>3 DEF n

-----------------------------------------------------------------------------
(* Responses and their positions.                                            *)

Last(m) == Start(m) + Responses[m].len
In(p, m) == m \in Msgs /\ Start(m) <= p /\ p < Last(m)

LEMMA ResponseFacts ==
    ASSUME NEW m \in Msgs
    PROVE  /\ Start(m) \in Nat /\ HeadLen(m) \in Nat \ {0} /\ Responses[m].len \in Nat
           /\ HeadLen(m) <= Responses[m].len
           /\ Responses[m].says \in Seq(Nat \cup {Nothing}) /\ Responses[m].extra \in Nat
           /\ Last(m) \in Nat /\ Start(m) < Last(m) /\ In(Start(m), m)
<1> DEFINE R == [start : Nat, len : Nat, head : Nat \ {0},
                 says : Seq(Nat \cup {Nothing}), extra : Nat]
<1>1. Responses[m] \in R
  <2>1. Responses \in Seq(R) /\ m \in 1..Len(Responses)
    BY CaptureAssumption DEF Msgs
  <2> HIDE DEF R
  <2> QED BY <2>1
<1>2. HeadLen(m) <= Responses[m].len
  BY CaptureAssumption
<1> QED
  BY <1>1, <1>2 DEF Start, HeadLen, Last, In

LEMMA MsgsAreNat == Msgs \subseteq Nat \ {0}
BY DEF Msgs

\* Positions are in the order of their responses, and in one response each.
LEMMA InOrderOfMsgs ==
    ASSUME NEW p \in Nat, NEW q \in Nat, NEW m, NEW n, In(p, m), In(q, n)
    PROVE  (m < n => p < q) /\ (p <= q => m <= n) /\ (p = q => m = n)
<1>1. m \in Msgs /\ n \in Msgs /\ m \in Nat /\ n \in Nat
  BY MsgsAreNat DEF In
<1>2. /\ Start(m) \in Nat /\ Last(m) \in Nat /\ Start(n) \in Nat /\ Last(n) \in Nat
  BY <1>1, ResponseFacts
<1>3. (m < n => Last(m) <= Start(n)) /\ (n < m => Last(n) <= Start(m))
  BY <1>1, CaptureAssumption DEF Last
<1> QED
  BY <1>1, <1>2, <1>3 DEF In

LEMMA OneResponse ==
    ASSUME NEW p \in Nat, NEW m, NEW n, In(p, m), In(p, n)
    PROVE  m = n
BY InOrderOfMsgs

LEMMA StartsApart ==
    ASSUME NEW m \in Msgs, NEW n \in Msgs, Start(m) = Start(n)
    PROVE  m = n
BY ResponseFacts, InOrderOfMsgs

LEMMA ConstantFacts ==
    /\ ChunkMax \in Nat \ {0} /\ SegChunks \in Nat \ {0} /\ RespCap \in Nat \ {0}
    /\ RingSize \in Nat \ {0} /\ HeadMax \in Nat \ {0} /\ BodyMax \in Nat \ {0}
    /\ ChunkMax < HeadMax /\ ChunkMax < BodyMax
BY CaptureAssumption DEF Positive

LEMMA SegmentFacts ==
    ASSUME NEW seg \in Segments, NEW m \in Msgs, OfResponse(seg, m)
    PROVE  /\ seg.seq \in Nat /\ seg.len \in Nat \ {0}
           /\ Start(m) <= seg.seq /\ seg.seq + seg.len <= Last(m) /\ In(seg.seq, m)
           /\ IsFirst(seg) <=> seg.seq = Start(m)
<1>1. seg \in [seq : Nat, len : Nat \ {0}]
  BY CaptureAssumption
<1>2. seg.seq \in Nat /\ seg.len \in Nat \ {0}
  BY <1>1
<1>3. Start(m) \in Nat /\ Responses[m].len \in Nat
  BY ResponseFacts
<1>4. Start(m) <= seg.seq /\ seg.seq + seg.len <= Last(m) /\ In(seg.seq, m)
  BY <1>2, <1>3 DEF OfResponse, Last, In
<1>5. ASSUME NEW n \in Msgs, seg.seq = Start(n)
      PROVE  seg.seq = Start(m)
  <2>1. In(Start(n), n)
    BY ResponseFacts
  <2>2. n = m
    BY <1>2, <1>4, <1>5, <2>1, InOrderOfMsgs
  <2> QED BY <1>5, <2>2
<1> QED
  BY <1>2, <1>4, <1>5 DEF IsFirst

-----------------------------------------------------------------------------
(* The records of a segment.                                                 *)

Data(rec) == rec.kind # "request"
EndOf(rec) == rec.seq + rec.len
\* A record of a response is of one response, and a response's first record is where it begins.
DataRecords ==
    {rec \in [kind : {"response", "body"}, seq : Nat, len : 1..ChunkMax, trunc : BOOLEAN] :
        /\ \E m \in Msgs : In(rec.seq, m)
        /\ rec.kind = "response" <=> \E m \in Msgs : rec.seq = Start(m)}
Kept == [kind : {"request"}, msg : Msgs] \cup DataRecords

LEMMA RecordKinds ==
    /\ Kept \subseteq Records
    /\ \A rec \in Kept : Data(rec) <=> rec \in DataRecords
    /\ \A rec \in Kept : ~Data(rec) => rec.kind = "request" /\ rec.msg \in Msgs
    /\ \A rec \in DataRecords :
          /\ rec \in Kept /\ Data(rec) /\ rec.kind \in {"response", "body"}
          /\ rec.seq \in Nat /\ rec.len \in Nat \ {0} /\ rec.len <= ChunkMax
          /\ EndOf(rec) \in Nat /\ rec.seq < EndOf(rec) /\ rec.trunc \in BOOLEAN
          /\ \E m \in Msgs : In(rec.seq, m)
          /\ rec.kind = "response" <=> \E m \in Msgs : rec.seq = Start(m)
BY ConstantFacts DEF Kept, Records, Data, DataRecords, EndOf

LEMMA ChunksFacts ==
    ASSUME NEW want \in Nat \ {0}
    PROVE  /\ Chunks(want) \in Nat \ {0}
           /\ \A k \in Nat : k < Chunks(want) => k * ChunkMax \in Nat /\ k * ChunkMax < want
<1> DEFINE n == (want + ChunkMax - 1) \div ChunkMax
<1>1. n \in Nat \ {0} /\ \A k \in Nat : k < n => k * ChunkMax < want
  BY ConstantFacts, ChunkCount
<1> HIDE DEF n
<1>2. Chunks(want) \in Nat \ {0} /\ Chunks(want) <= n
  BY <1>1, ConstantFacts DEF Chunks, Least, n
<1>3. \A k \in Nat : k * ChunkMax \in Nat
  BY ConstantFacts, TimesStep
<1> QED
  BY <1>1, <1>2, <1>3

\* A planned record is where and what it should be.
LEMMA ChunkFacts ==
    ASSUME NEW seg \in Segments, NEW m \in Msgs, OfResponse(seg, m),
           NEW want \in Nat \ {0}, want <= seg.len, NEW j \in Nat \ {0}, j <= Chunks(want)
    PROVE  LET rec == Chunk(seg, want, j) IN
           /\ rec \in DataRecords
           /\ rec.seq = seg.seq + (j - 1) * ChunkMax
           /\ (j - 1) * ChunkMax \in Nat /\ (j - 1) * ChunkMax < want
           /\ EndOf(rec) = seg.seq + Least(want, j * ChunkMax)
           /\ In(rec.seq, m)
           /\ rec.kind = "response" <=> rec.seq = Start(m)
           /\ rec.trunc <=> Least(want, j * ChunkMax) = want /\ want < seg.len
<1> DEFINE off == (j - 1) * ChunkMax
           n == Least(want - off, ChunkMax)
<1>1. j - 1 \in Nat /\ j - 1 < Chunks(want)
  BY ChunksFacts
<1>2. off \in Nat /\ off < want
  BY <1>1, ChunksFacts
<1>3. j * ChunkMax = off + ChunkMax
  <2>1. ((j - 1) + 1) * ChunkMax = (j - 1) * ChunkMax + ChunkMax
    BY <1>1, ConstantFacts, TimesStep
  <2>2. (j - 1) + 1 = j
    OBVIOUS
  <2> QED BY <2>1, <2>2
<1>4. Chunk(seg, want, j) =
        [kind |-> IF IsFirst(seg) /\ j = 1 THEN "response" ELSE "body",
         seq |-> seg.seq + off, len |-> n, trunc |-> off + n = want /\ want < seg.len]
  BY DEF Chunk
<1> HIDE DEF off
<1>5. n \in 1..ChunkMax /\ off + n = Least(want, j * ChunkMax)
  BY <1>2, <1>3, ConstantFacts DEF Least
<1>6. seg.seq \in Nat /\ seg.len \in Nat \ {0} /\ Start(m) <= seg.seq
      /\ seg.seq + seg.len <= Last(m) /\ (IsFirst(seg) <=> seg.seq = Start(m))
      /\ Start(m) \in Nat /\ Last(m) \in Nat
  BY SegmentFacts, ResponseFacts
<1> HIDE DEF n
<1>8. In(seg.seq + off, m)
  BY <1>2, <1>6 DEF In
<1>9. (IsFirst(seg) /\ j = 1) <=> seg.seq + off = Start(m)
  <2>1. j = 1 => off = 0
    BY ConstantFacts DEF off
  <2>2. j # 1 => off > 0
    <3>1. ASSUME j # 1 PROVE off > 0
      <4>1. 0 * ChunkMax + ChunkMax <= off
        BY <1>1, <3>1, ConstantFacts, TimesLess DEF off
      <4>2. 0 * ChunkMax = 0
        BY ConstantFacts
      <4> QED BY <1>2, <4>1, <4>2, ConstantFacts
    <3> QED BY <3>1
  <2> QED BY <1>2, <1>6, <2>1, <2>2
<1>10. EndOf(Chunk(seg, want, j)) = seg.seq + Least(want, j * ChunkMax)
  BY <1>2, <1>4, <1>5, <1>6, ConstantFacts DEF EndOf
<1> DEFINE rec == Chunk(seg, want, j)
<1>11. rec.seq = seg.seq + off /\ (rec.kind = "response" <=> IsFirst(seg) /\ j = 1)
  BY <1>4
<1>12. rec.trunc <=> Least(want, j * ChunkMax) = want /\ want < seg.len
  <2>1. rec.trunc = (off + n = want /\ want < seg.len)
    BY <1>4
  <2> QED BY <1>5, <2>1
<1>7. Chunk(seg, want, j) \in DataRecords
  <2>1. rec \in [kind : {"response", "body"}, seq : Nat, len : 1..ChunkMax, trunc : BOOLEAN]
    BY <1>2, <1>4, <1>5, <1>6
  <2>2. ASSUME NEW k \in Msgs, rec.seq = Start(k) PROVE rec.seq = Start(m)
    <3>1. In(rec.seq, k)
      BY <2>2, ResponseFacts
    <3>2. k = m
      <4>1. rec.seq \in Nat /\ In(rec.seq, m)
        BY <1>2, <1>6, <1>8, <1>11
      <4> HIDE DEF rec
      <4> QED BY <3>1, <4>1, InOrderOfMsgs
    <3> QED BY <2>2, <3>2
  <2>3. rec.kind = "response" <=> \E k \in Msgs : rec.seq = Start(k)
    BY <1>9, <1>11, <2>2
  <2>4. \E k \in Msgs : In(rec.seq, k)
    BY <1>8, <1>11
  <2> HIDE DEF rec
  <2>5. rec \in DataRecords
    BY <2>1, <2>3, <2>4 DEF DataRecords
  <2> QED BY <2>5 DEF rec
<1> HIDE DEF rec
<1>13. rec.kind = "response" <=> rec.seq = Start(m)
  BY <1>9, <1>11
<1> QED
  BY <1>2, <1>7, <1>8, <1>10, <1>11, <1>12, <1>13 DEF off, rec

LEMMA ResponsesAreFinite == Len(Responses) \in Nat /\ Msgs = 1..Len(Responses)
BY CaptureAssumption DEF Msgs

LEMMA ChunkOfFirst ==
    ASSUME NEW n \in Nat \ {0}, n <= ChunkMax
    PROVE  Chunks(n) = 1
<1> DEFINE k == (n + ChunkMax - 1) \div ChunkMax
<1>1. ChunkMax \in Nat \ {0} /\ SegChunks \in Nat \ {0}
  BY ConstantFacts
<1>2. k \in Nat \ {0} /\ \A j \in Nat : j < k => j * ChunkMax < n
  BY <1>1, ChunkCount
<1> HIDE DEF k
<1>3. k = 1
  <2>1. ASSUME k > 1 PROVE FALSE
    <3>1. 1 * ChunkMax < n
      BY <1>2, <2>1
    <3> QED BY <1>1, <3>1
  <2> QED BY <1>2, <2>1
<1> QED
  BY <1>1, <1>3 DEF Chunks, Least, k

-----------------------------------------------------------------------------
(* Types.                                                                    *)

Seals == [clen : Nat \cup {Nothing}, taken : Nat, more : BOOLEAN]
Pairs == [msg : Msgs, req : Msgs, got : Seq(Nat), trunc : BOOLEAN, out : Seals \cup {Nothing}]
Types ==
    /\ win \in Windows \cup {Nothing}
    /\ ring \in Seq(Kept) /\ Len(ring) <= RingSize
    /\ pending \in Seq(Msgs)
    /\ recent \in Seq(Pairs)
    /\ slot \in 0..Len(recent)
    /\ asked \in 0..Len(Responses)
    /\ inOrder \in Nat
    /\ lapses \in Nat

LEMMA NothingElse == Nothing \notin Windows /\ Nothing \notin Seals /\ Nothing \notin Nat
BY CaptureAssumption DEF Seals

\* What a segment that is let through does: a number of its records that fits is shipped,
\* and the window is left alone, closed, or moved over the whole segment.
Shipped(seg, want, fit) ==
    /\ fit \in 0..Chunks(want) /\ Len(ring) + fit <= RingSize
    /\ ring' = ring \o [j \in 1..fit |-> Chunk(seg, want, j)]
    /\ \A j \in 1..fit : Chunk(seg, want, j) \in DataRecords
    /\ fit < Chunks(want) => Len(ring) + fit = RingSize /\ <<asked, "ring">> \in cuts'
    /\ fit = 0 => win' = win /\ (IsFirst(seg) => "ring" \in slips')
    /\ \A why : <<asked, why>> \in cuts' /\ <<asked, why>> \notin cuts =>
                    why \in {"ring", "ceiling", "budget"}
    /\ \A x \in cuts' : x \notin cuts => x[1] = asked
    /\ cuts \subseteq cuts' /\ slips \subseteq slips'
    /\ fit > 0 => LET off == Least(want, fit * ChunkMax) IN
         /\ off \in 1..seg.len
         /\ win' # Nothing => /\ off = seg.len
                              /\ win'.next = seg.seq + seg.len
                              /\ win'.remaining = IF IsFirst(seg) THEN Responses[asked].extra
                                                  ELSE win.remaining - off
         /\ win' = Nothing /\ <<asked, "ring">> \notin cuts' /\ <<asked, "ceiling">> \notin cuts'
               /\ <<asked, "budget">> \notin cuts'
            => Chunk(seg, want, fit).trunc

LEMMA ShipShips ==
    ASSUME Types, NEW seg \in Segments, asked > 0, OfResponse(seg, asked),
           NEW want \in Nat \ {0}, want <= seg.len,
           ~IsFirst(seg) => win # Nothing /\ want <= win.remaining,
           Ship(seg, want)
    PROVE  /\ \E fit \in Nat : Shipped(seg, want, fit)
           /\ win' \in Windows \cup {Nothing}
<1> DEFINE n == Chunks(want)
           fit == Least(n, RingSize - Len(ring))
           off == Least(want, fit * ChunkMax)
           flagged == fit = n /\ off = want /\ want < seg.len
           full == IF fit < n THEN {"ring"} ELSE {}
           cut == IF off < seg.len /\ ~flagged /\ fit = n THEN {"ceiling"} ELSE {}
           budget == IF IsFirst(seg) THEN Responses[asked].extra ELSE win.remaining - off
           spent == IF off = seg.len /\ budget = 0 THEN {"budget"} ELSE {}
<1>1. /\ ring' = ring \o [j \in 1..fit |-> Chunk(seg, want, j)]
      /\ win' = IF fit = 0 THEN win
                ELSE IF IsFirst(seg) THEN Armed(seg, off) ELSE Advanced(seg, off)
      /\ cuts' = cuts \cup {<<asked, why>> : why \in full \cup cut \cup spent}
      /\ slips' = IF IsFirst(seg) /\ fit = 0 THEN slips \cup {"ring"} ELSE slips
  BY DEF Ship
<1>2. /\ n \in Nat \ {0} /\ Len(ring) \in Nat /\ Len(ring) <= RingSize /\ RingSize \in Nat
      /\ \A k \in Nat : k < n => k * ChunkMax \in Nat /\ k * ChunkMax < want
  BY ConstantFacts, ChunksFacts DEF Types
<1>3. asked \in Msgs /\ asked \in Nat
  BY ResponsesAreFinite DEF Types
<1>4. /\ fit \in 0..n /\ fit \in Nat /\ Len(ring) + fit <= RingSize
      /\ (fit < n => Len(ring) + fit = RingSize)
  BY <1>2 DEF Least
<1>5. /\ seg.seq \in Nat /\ seg.len \in Nat \ {0} /\ Responses[asked].extra \in Nat
      /\ ChunkMax \in Nat \ {0}
  BY <1>3, SegmentFacts, ResponseFacts, ConstantFacts
<1> HIDE DEF fit, n
<1>6. ASSUME NEW j \in 1..fit PROVE Chunk(seg, want, j) \in DataRecords
  <2>1. j \in Nat \ {0} /\ j <= Chunks(want)
    BY <1>2, <1>4, <1>6 DEF n
  <2> QED BY <1>3, <2>1, ChunkFacts
<1>7. fit > 0 => off \in 1..seg.len
  <2>1. fit * ChunkMax \in Nat
    BY <1>4, <1>5, TimesStep
  <2>2. ASSUME fit > 0 PROVE fit * ChunkMax >= ChunkMax
    <3>1. fit - 1 \in Nat /\ fit = (fit - 1) + 1
      BY <1>4, <2>2
    <3>2. ((fit - 1) + 1) * ChunkMax = (fit - 1) * ChunkMax + ChunkMax
          /\ (fit - 1) * ChunkMax \in Nat
      BY <3>1, <1>5, TimesStep
    <3> QED BY <3>1, <3>2, <1>5
  <2> QED BY <2>1, <2>2, <1>5 DEF Least
<1>8. fit > 0 => Chunk(seg, want, fit).trunc = (off = want /\ want < seg.len)
  <2>1. ASSUME fit > 0
        PROVE  Chunk(seg, want, fit).trunc <=> Least(want, fit * ChunkMax) = want /\ want < seg.len
    <3>1. fit \in Nat \ {0} /\ fit <= Chunks(want)
      BY <1>4, <2>1 DEF n
    <3> QED BY <3>1, <1>3, ChunkFacts
  <2>2. fit > 0 => Chunk(seg, want, fit).trunc \in BOOLEAN
    BY <1>4, <1>6, RecordKinds
  <2> QED BY <2>1, <2>2
<1> HIDE DEF off
<1>9. ~IsFirst(seg) => win \in Windows /\ win.remaining \in Nat
  BY DEF Types, Windows
<1>10. /\ win' \in Windows \cup {Nothing}
       /\ fit > 0 /\ win' # Nothing =>
             /\ off = seg.len
             /\ win'.next = seg.seq + seg.len
             /\ win'.remaining = IF IsFirst(seg) THEN Responses[asked].extra
                                 ELSE win.remaining - off
  <2>1. CASE fit = 0
    BY <1>1, <2>1 DEF Types
  <2>2. CASE fit # 0 /\ IsFirst(seg)
    BY <1>1, <1>4, <1>5, <2>2 DEF Armed, Windows
  <2>3. CASE fit # 0 /\ ~IsFirst(seg)
    BY <1>1, <1>4, <1>5, <1>7, <1>9, <2>3 DEF Advanced, Windows
  <2> QED BY <2>1, <2>2, <2>3
<1>11. /\ (\A why : <<asked, why>> \in cuts' /\ <<asked, why>> \notin cuts =>
                       why \in {"ring", "ceiling", "budget"})
       /\ (\A x \in cuts' : x \notin cuts => x[1] = asked)
       /\ cuts \subseteq cuts' /\ slips \subseteq slips'
       /\ (fit < n => <<asked, "ring">> \in cuts')
       /\ (fit = 0 /\ IsFirst(seg) => "ring" \in slips')
  <2> HIDE DEF budget, flagged
  <2>1. full \cup cut \cup spent \subseteq {"ring", "ceiling", "budget"}
        /\ (fit < n => "ring" \in full \cup cut \cup spent)
    OBVIOUS
  <2> HIDE DEF full, cut, spent
  <2> QED BY <1>1, <2>1
<1>12. ASSUME fit > 0, win' = Nothing, <<asked, "ring">> \notin cuts',
              <<asked, "ceiling">> \notin cuts', <<asked, "budget">> \notin cuts'
       PROVE  Chunk(seg, want, fit).trunc
  <2>1. "ring" \notin full /\ "ceiling" \notin cut /\ "budget" \notin spent
    <3> HIDE DEF full, cut, spent
    <3> QED BY <1>1, <1>12
  <2>2. fit = n
    BY <1>2, <1>4, <2>1
  <2>3. off < seg.len => flagged
    BY <2>1, <2>2
  <2>4. ~(off = seg.len /\ budget = 0)
    BY <2>1
  <2>5. off # seg.len
    <3>1. CASE IsFirst(seg)
      BY <1>1, <1>5, <1>12, <2>4, <3>1, <1>10, NothingElse DEF Armed, Windows
    <3>2. CASE ~IsFirst(seg)
      <4>1. ASSUME off = seg.len PROVE win.remaining > off
        <5>1. off <= want
          BY <1>4, <1>5, TimesStep, LeastIs DEF off
        <5> QED BY <1>7, <1>9, <1>12, <2>4, <3>2, <4>1, <5>1, <1>5
      <4>2. off = seg.len => win' # Nothing
        <5>1. [next |-> seg.seq + seg.len, remaining |-> win.remaining - off] \in Windows
              \/ off # seg.len
          BY <4>1, <1>5, <1>7, <1>9, <1>12, <3>2 DEF Windows
        <5> QED BY <1>1, <1>4, <1>12, <3>2, <4>1, <5>1, NothingElse DEF Advanced
      <4> QED BY <4>2, <1>12
    <3> QED BY <3>1, <3>2
  <2>6. flagged
    BY <2>3, <2>5, <1>5, <1>7, <1>12
  <2> QED BY <2>6, <1>8, <1>12
<1> QED
  BY <1>1, <1>4, <1>6, <1>7, <1>10, <1>11, <1>12 DEF Shipped, off, n

LEMMA SightShips ==
    ASSUME Types, NEW seg \in Segments, Sight(seg)
    PROVE  /\ asked \in Msgs /\ asked > 0 /\ OfResponse(seg, asked)
           /\ inOrder' = IF IsFirst(seg) THEN seg.len
                         ELSE IF seg.seq = Start(asked) + inOrder THEN inOrder + seg.len
                         ELSE inOrder
           /\ UNCHANGED <<js, asked, lapses>>
           /\ \/ ~Wanted(seg) /\ UNCHANGED <<kernel, cuts, slips>>
              \/ Wanted(seg) /\ ~IsFirst(seg) /\ win' = Nothing /\ UNCHANGED <<ring, slips>>
                   /\ cuts' = cuts \cup {<<asked, "rate">>}
              \/ /\ Wanted(seg) /\ win' \in Windows \cup {Nothing}
                 /\ \E want \in Nat \ {0} : \E fit \in Nat :
                       /\ want <= seg.len /\ (IsFirst(seg) \/ want <= win.remaining)
                       /\ \/ want = Least(seg.len, Limit(seg))
                          \/ want = ChunkMax /\ want < Least(seg.len, Limit(seg)) /\ IsFirst(seg)
                       /\ Shipped(seg, want, fit)
<1> DEFINE want == Least(seg.len, Limit(seg))
<1>1. asked > 0 /\ OfResponse(seg, asked) /\ asked \in Msgs
  BY ResponsesAreFinite DEF Sight, Types
<1>2. seg.len \in Nat \ {0} /\ RespCap \in Nat \ {0} /\ ChunkMax \in Nat \ {0}
  BY <1>1, SegmentFacts, ConstantFacts
<1>3. ASSUME Wanted(seg)
      PROVE  want \in Nat \ {0} /\ want <= seg.len
             /\ (~IsFirst(seg) => win # Nothing /\ want <= win.remaining)
  BY <1>2, <1>3 DEF Wanted, Limit, Least, Types, Windows
<1>4. ASSUME Wanted(seg), Ship(seg, want)
      PROVE  win' \in Windows \cup {Nothing} /\ \E fit \in Nat : Shipped(seg, want, fit)
  <2> HIDE DEF want
  <2> QED BY <1>1, <1>3, <1>4, ShipShips
<1>5. ASSUME Wanted(seg), Metered(seg, want), Refused(seg, want), IsFirst(seg)
      PROVE  /\ ChunkMax < want /\ want <= seg.len
             /\ win' \in Windows \cup {Nothing} /\ \E fit \in Nat : Shipped(seg, ChunkMax, fit)
  <2> HIDE DEF want
  <2>1. ChunkMax < want /\ ChunkMax <= seg.len
    BY <1>2, <1>3, <1>5 DEF Metered
  <2>2. Ship(seg, ChunkMax)
    BY <1>5 DEF Refused
  <2> QED BY <1>1, <1>2, <1>3, <1>5, <2>1, <2>2, ShipShips
<1>6. ASSUME Refused(seg, want), ~IsFirst(seg)
      PROVE  win' = Nothing /\ UNCHANGED <<ring, slips>> /\ cuts' = cuts \cup {<<asked, "rate">>}
  BY <1>6 DEF Refused
<1>7. inOrder' = IF IsFirst(seg) THEN seg.len
                 ELSE IF seg.seq = Start(asked) + inOrder THEN inOrder + seg.len
                 ELSE inOrder
  BY DEF Sight
<1>8. UNCHANGED <<js, asked, lapses>>
  BY DEF Sight
<1>9. \/ ~Wanted(seg) /\ UNCHANGED <<kernel, cuts, slips>>
      \/ Wanted(seg) /\ Ship(seg, want)
      \/ Wanted(seg) /\ Metered(seg, want) /\ Refused(seg, want)
  BY DEF Sight
<1> HIDE DEF want
<1>10. CASE Wanted(seg) /\ Ship(seg, want)
  <2>1. PICK fit \in Nat : Shipped(seg, want, fit)
    BY <1>4, <1>10
  <2>2. want = Least(seg.len, Limit(seg))
    BY DEF want
  <2> QED BY <1>1, <1>3, <1>4, <1>7, <1>8, <1>10, <2>1, <2>2
<1>11. CASE Wanted(seg) /\ Metered(seg, want) /\ Refused(seg, want)
  <2>1. CASE IsFirst(seg)
    <3>1. PICK fit \in Nat : Shipped(seg, ChunkMax, fit)
      BY <1>5, <1>11, <2>1
    <3>2. ChunkMax < Least(seg.len, Limit(seg)) /\ ChunkMax <= seg.len
      BY <1>2, <1>3, <1>5, <1>11, <2>1 DEF want
    <3> QED BY <1>1, <1>2, <1>5, <1>7, <1>8, <1>11, <2>1, <3>1, <3>2
  <2>2. CASE ~IsFirst(seg)
    BY <1>1, <1>6, <1>7, <1>8, <1>11, <2>2
  <2> QED BY <2>1, <2>2
<1> QED
  BY <1>1, <1>7, <1>8, <1>9, <1>10, <1>11

LEMMA StitchType ==
    ASSUME NEW e \in Pairs, NEW rec \in DataRecords
    PROVE  /\ Fed(e, rec) \in Pairs
           /\ Fed(e, rec).msg = e.msg /\ Fed(e, rec).req = e.req /\ Fed(e, rec).out = e.out
           /\ Fed(e, rec).trunc = (e.trunc \/ rec.trunc)
           /\ Positions(rec) \in Seq(Nat) /\ Len(Positions(rec)) = rec.len
<1> DEFINE got == e.got \o Positions(rec)
           most == IF Len(got) < HeadLen(e.msg) THEN HeadMax ELSE HeadLen(e.msg) + BodyMax
           g == SubSeq(got, 1, Least(Len(got), most))
<1>1. Fed(e, rec) = [e EXCEPT !.got = g, !.trunc = @ \/ rec.trunc]
  BY DEF Fed
<1>2. rec.len \in Nat /\ rec.seq \in Nat /\ rec.trunc \in BOOLEAN
  BY RecordKinds
<1>3. Positions(rec) \in Seq(Nat) /\ Len(Positions(rec)) = rec.len
  BY <1>2 DEF Positions
<1>4. e.got \in Seq(Nat) /\ e.msg \in Msgs
  BY DEF Pairs
<1>5. got \in Seq(Nat)
  BY <1>3, <1>4
<1>6. most \in Nat
  BY <1>4, <1>5, ResponseFacts, ConstantFacts
<1> HIDE DEF got, most
<1>7. g \in Seq(Nat)
  <2>1. Least(Len(got), most) \in Nat /\ Least(Len(got), most) <= Len(got)
    BY <1>5, <1>6 DEF Least
  <2> QED BY <1>5, <2>1
<1> HIDE DEF g
<1> QED
  BY <1>1, <1>2, <1>3, <1>7 DEF Pairs

LEMMA SaysFacts ==
    ASSUME NEW m \in Msgs
    PROVE  /\ Len(Says(m)) = HeadLen(m)
           /\ Says(m)[HeadLen(m)] # Nothing => BodyLen(m) <= Says(m)[HeadLen(m)]
           /\ \A n \in 1..HeadLen(m) : Says(m)[n] = 0 => BodyLen(m) = 0
BY CaptureAssumption

\* A length that is read in a head is no less than the body in hand is short of.
LEMMA LengthRead ==
    ASSUME NEW e, e.msg \in Msgs, Taken(e) \in Nat
    PROVE  /\ ContentLength(e) \in Nat \cup {Nothing}
           /\ BodyTaken(e) \in Nat /\ BodyLen(e.msg) \in Nat
           /\ ContentLength(e) # Nothing /\ BodyTaken(e) >= ContentLength(e)
                 => BodyTaken(e) >= BodyLen(e.msg)
<1> DEFINE m == e.msg
           n == Least(Taken(e), HeadLen(m))
<1>1. /\ HeadLen(m) \in Nat \ {0} /\ Responses[m].len \in Nat /\ HeadLen(m) <= Responses[m].len
      /\ Says(m) \in Seq(Nat \cup {Nothing})
  BY ResponseFacts DEF Says
<1>2. /\ Len(Says(m)) = HeadLen(m)
      /\ Says(m)[HeadLen(m)] # Nothing => BodyLen(m) <= Says(m)[HeadLen(m)]
      /\ \A k \in 1..HeadLen(m) : Says(m)[k] = 0 => BodyLen(m) = 0
  BY SaysFacts
<1>3. BodyLen(m) \in Nat /\ BodyTaken(e) \in Nat
  BY <1>1 DEF BodyLen, BodyTaken, BodyIn
<1>4. n \in 0..HeadLen(m) /\ (Taken(e) >= HeadLen(m) => n = HeadLen(m))
  BY <1>1 DEF Least
<1>5. ContentLength(e) = IF n = 0 THEN Nothing ELSE Says(m)[n]
  BY DEF ContentLength
<1> HIDE DEF m, n
<1>6. ContentLength(e) \in Nat \cup {Nothing}
  <2>1. n # 0 => n \in 1..Len(Says(m))
    BY <1>1, <1>2, <1>4
  <2>2. n # 0 => Says(m)[n] \in Nat \cup {Nothing}
    BY <1>1, <2>1
  <2> QED BY <1>5, <2>2
<1>7. ASSUME ContentLength(e) # Nothing, BodyTaken(e) >= ContentLength(e)
      PROVE  BodyTaken(e) >= BodyLen(m)
  <2>1. n \in 1..HeadLen(m) /\ ContentLength(e) = Says(m)[n] /\ ContentLength(e) \in Nat
    BY <1>4, <1>5, <1>6, <1>7, <1>1
  <2>2. CASE Taken(e) >= HeadLen(m)
    <3>1. BodyLen(m) <= ContentLength(e)
      BY <1>2, <1>4, <1>7, <2>1, <2>2
    <3> QED BY <1>3, <1>7, <2>1, <3>1
  <2>3. CASE Taken(e) < HeadLen(m)
    <3>1. BodyTaken(e) = 0
      BY <2>3 DEF BodyTaken, BodyIn, m
    <3>2. ContentLength(e) = 0
      BY <1>7, <2>1, <3>1
    <3>3. BodyLen(m) = 0
      BY <1>2, <2>1, <3>2
    <3> QED BY <3>1, <3>3
  <2> QED BY <1>1, <2>2, <2>3
<1> QED
  BY <1>3, <1>6, <1>7 DEF m

LEMMA Sealed ==
    ASSUME NEW e \in Pairs
    PROVE  Seal(e) \in Seals
<1>1. /\ e.msg \in Msgs /\ Taken(e) \in Nat /\ e.trunc \in BOOLEAN
  BY DEF Pairs, Taken
<1>2. ContentLength(e) \in Nat \cup {Nothing}
  BY <1>1, LengthRead
<1> QED
  BY <1>1, <1>2 DEF Seal, Seals

LEMMA HeadOfRing ==
    ASSUME Types, ring # <<>>
    PROVE  /\ ring[1] \in Kept /\ Tail(ring) \in Seq(Kept) /\ Len(ring) \in Nat \ {0}
           /\ Len(Tail(ring)) = Len(ring) - 1
           /\ \A i \in 1..Len(Tail(ring)) : Tail(ring)[i] = ring[i + 1]
           /\ ring[1].kind = "request" <=> ~Data(ring[1])
BY DEF Types, Data

\* The message of a response's first record: the response does begin there.
LEMMA MsgAtStart ==
    ASSUME NEW m \in Msgs
    PROVE  MsgAt(Start(m)) = m
<1>1. \E n \in Msgs : Start(n) = Start(m)
  OBVIOUS
<1>2. MsgAt(Start(m)) \in Msgs /\ Start(MsgAt(Start(m))) = Start(m)
  BY <1>1, Zenon DEF MsgAt
<1> QED
  BY <1>2, StartsApart

\* What a response record does, and what a record of a body does.
LEMMA ResponseStep ==
    ASSUME Types, NEW rec \in DataRecords, NEW m \in Msgs, rec.seq = Start(m),
           pending # <<>>, OnResponse(rec)
    PROVE  LET e == [msg |-> m, req |-> pending[1], got |-> <<>>, trunc |-> FALSE,
                     out |-> Nothing] IN
           /\ e \in Pairs
           /\ pending' = Tail(pending) /\ pending[1] \in Msgs
           /\ recent' = Append(recent, Fed(e, rec))
           /\ Fed(e, rec).got = Positions(rec)
           /\ ~Full(Fed(e, rec)) /\ slot' = Len(recent) + 1
           /\ cuts' = cuts
<1> DEFINE e == [msg |-> m, req |-> pending[1], got |-> <<>>, trunc |-> FALSE, out |-> Nothing]
<1>1. pending[1] \in Msgs
  BY DEF Types
<1>2. e \in Pairs
  BY <1>1 DEF Pairs
<1>3. MsgAt(rec.seq) = m
  BY MsgAtStart
<1>4. /\ pending' = Tail(pending)
      /\ recent' = Append(recent, Fed(e, rec))
      /\ slot' = IF Full(Fed(e, rec)) THEN 0 ELSE Len(recent) + 1
      /\ cuts' = cuts
  BY <1>3 DEF OnResponse, NoLongerPending
<1>5. /\ rec.len \in Nat /\ rec.len <= ChunkMax
      /\ Positions(rec) \in Seq(Nat) /\ Len(Positions(rec)) = rec.len
  BY <1>2, RecordKinds, StitchType
<1>6. Fed(e, rec).got = Positions(rec)
  <2> DEFINE got == <<>> \o Positions(rec)
             most == IF Len(got) < HeadLen(m) THEN HeadMax ELSE HeadLen(m) + BodyMax
  <2>1. got = Positions(rec)
    BY <1>5
  <2>2. Fed(e, rec).got = SubSeq(got, 1, Least(Len(got), most))
    BY DEF Fed
  <2>3. most \in Nat /\ Len(got) <= most
    BY <1>5, <2>1, ResponseFacts, ConstantFacts
  <2> HIDE DEF got, most
  <2>4. Least(Len(got), most) = Len(got)
    BY <1>5, <2>1, <2>3 DEF Least
  <2>5. SubSeq(got, 1, Len(got)) = got
    BY <1>5, <2>1
  <2> QED BY <2>1, <2>2, <2>4, <2>5
<1>7. ~Full(Fed(e, rec))
  <2>1. Taken(Fed(e, rec)) = rec.len
    BY <1>5, <1>6 DEF Taken
  <2>2. Fed(e, rec).msg = m
    BY <1>2, StitchType
  <2> HIDE DEF e
  <2> QED BY <1>5, <2>1, <2>2, ResponseFacts, ConstantFacts DEF Full
<1> QED
  BY <1>1, <1>2, <1>4, <1>6, <1>7

LEMMA BodyStep ==
    ASSUME Types, NEW rec \in DataRecords, slot # 0, OnBody(rec)
    PROVE  /\ recent[slot] \in Pairs /\ pending' = pending
           /\ recent' = [recent EXCEPT ![slot] = Fed(recent[slot], rec)]
           /\ slot' = IF rec.trunc \/ Full(Fed(recent[slot], rec)) THEN 0 ELSE slot
           /\ Fed(recent[slot], rec) \in Pairs
           /\ \A x \in cuts' : x \in cuts \/ x = <<recent[slot].msg, "room">>
           /\ cuts \subseteq cuts'
           /\ Full(Fed(recent[slot], rec))
                 /\ Taken(Fed(recent[slot], rec)) < Responses[recent[slot].msg].len
              => <<recent[slot].msg, "room">> \in cuts'
<1>1. recent[slot] \in Pairs
  BY DEF Types
<1>2. Fed(recent[slot], rec) \in Pairs /\ Fed(recent[slot], rec).msg = recent[slot].msg
  BY <1>1, StitchType
<1> QED
  BY <1>1, <1>2 DEF OnBody

LEMMA TypesHold == Spec => []Types
<1>1. Init => Types
  BY ConstantFacts, ResponsesAreFinite DEF Init, Types
<1>2. Types /\ [Next]_vars => Types'
  <2> SUFFICES ASSUME Types, [Next]_vars PROVE Types'
    OBVIOUS
  <2> USE ResponsesAreFinite, ConstantFacts
  <2>1. ASSUME NEW seg \in Segments, Sight(seg) PROVE Types'
    <3>1. /\ UNCHANGED <<js, asked, lapses>> /\ asked \in Msgs
          /\ inOrder' = IF IsFirst(seg) THEN seg.len
                        ELSE IF seg.seq = Start(asked) + inOrder THEN inOrder + seg.len
                        ELSE inOrder
          /\ OfResponse(seg, asked)
      BY <2>1, SightShips
    <3>2. seg.len \in Nat
      BY <3>1, SegmentFacts
    <3>3. win' \in Windows \cup {Nothing} /\ ring' \in Seq(Kept) /\ Len(ring') <= RingSize
      <4>1. CASE UNCHANGED ring /\ win' \in {win, Nothing}
        BY <4>1 DEF Types
      <4>2. ASSUME win' \in Windows \cup {Nothing},
                   NEW want \in Nat \ {0}, NEW fit \in Nat, Shipped(seg, want, fit)
            PROVE  ring' \in Seq(Kept) /\ Len(ring') <= RingSize
        <5> DEFINE new == [j \in 1..fit |-> Chunk(seg, want, j)]
        <5>1. ring' = ring \o new /\ Len(ring) + fit <= RingSize
          BY <4>2 DEF Shipped
        <5>2. \A j \in 1..fit : Chunk(seg, want, j) \in Kept
          BY <4>2, RecordKinds DEF Shipped
        <5>3. new \in Seq(Kept) /\ Len(new) = fit
          BY <5>2
        <5> HIDE DEF new
        <5> QED BY <5>1, <5>3 DEF Types
      <4> QED BY <2>1, <4>1, <4>2, SightShips DEF kernel
    <3> QED BY <3>1, <3>2, <3>3 DEF Types, js
  <2>2. ASSUME NEW m \in Msgs, SightRequest(m) PROVE Types'
    <3>1. [kind |-> "request", msg |-> m] \in Kept
      BY DEF Kept
    <3>2. ring' \in Seq(Kept) /\ Len(ring') <= RingSize
      <4> DEFINE rq == [kind |-> "request", msg |-> m]
      <4>1. rq \in Kept
        BY <3>1
      <4> HIDE DEF rq
      <4>2. ring' = ring \/ (Len(ring) < RingSize /\ ring' = Append(ring, rq))
        BY <2>2 DEF SightRequest, rq, Types
      <4>3. ring \in Seq(Kept) /\ Len(ring) <= RingSize
        BY DEF Types
      <4>4. Append(ring, rq) \in Seq(Kept) /\ Len(Append(ring, rq)) = Len(ring) + 1
            /\ Len(ring) \in Nat
        BY <4>1, <4>3
      <4> QED BY <4>2, <4>3, <4>4
    <3>3. asked' \in 0..Len(Responses) /\ inOrder' \in Nat
      BY <2>2 DEF SightRequest, Types
    <3> HIDE DEF Msgs
    <3> QED BY <2>2, <3>2, <3>3 DEF SightRequest, Types, js
  <2>3. CASE WindowEvicted
    BY <2>3 DEF WindowEvicted, Types, js
  <2>4. CASE Consume
    <3> DEFINE rec == ring[1]
    <3>1. /\ ring # <<>> /\ ring' = Tail(ring)
          /\ UNCHANGED <<win, asked, inOrder, sightings, lapses>>
      BY <2>4 DEF Consume
    <3>2. ring' \in Seq(Kept) /\ Len(ring') <= RingSize
      BY <3>1, HeadOfRing DEF Types
    <3>3. /\ pending' \in Seq(Msgs) /\ recent' \in Seq(Pairs) /\ slot' \in 0..Len(recent')
      <4>1. CASE UNCHANGED js
        BY <4>1 DEF Types, js
      <4>2. CASE rec.kind = "request" /\ OnRequest(rec)
        <5>1. rec.msg \in Msgs
          BY <3>1, <4>2, HeadOfRing, RecordKinds
        <5> QED BY <4>2, <5>1 DEF OnRequest, Types
      <4>3. CASE rec.kind = "response" /\ OnResponse(rec)
        <5>1. CASE pending = <<>>
          BY <4>3, <5>1 DEF OnResponse, Types
        <5>2. CASE pending # <<>>
          <6> DEFINE e == Fed([msg |-> MsgAt(rec.seq), req |-> pending[1], got |-> <<>>,
                               trunc |-> FALSE, out |-> Nothing], rec)
          <6>1. pending' = Tail(pending) /\ recent' = Append(recent, e)
                /\ slot' \in {0, Len(recent) + 1}
            BY <4>3, <5>2 DEF OnResponse, NoLongerPending
          <6>2. e \in Pairs
            <7>1. rec \in DataRecords
              BY <3>1, <4>3, HeadOfRing, RecordKinds
            <7>2. PICK m \in Msgs : rec.seq = Start(m)
              BY <4>3, <7>1, RecordKinds
            <7>3. [msg |-> MsgAt(rec.seq), req |-> pending[1], got |-> <<>>,
                   trunc |-> FALSE, out |-> Nothing] \in Pairs
              BY <5>2, <7>2, MsgAtStart DEF Types, Pairs
            <7> QED BY <7>1, <7>3, StitchType
          <6> HIDE DEF e
          <6> QED BY <5>2, <6>1, <6>2 DEF Types
        <5> QED BY <5>1, <5>2
      <4>4. CASE rec.kind = "body" /\ OnBody(rec)
        <5>1. rec \in DataRecords
          BY <3>1, <4>4, HeadOfRing, RecordKinds
        <5>2. CASE slot = 0
          BY <4>4, <5>2 DEF OnBody, Types
        <5>3. CASE slot # 0
          <6>1. /\ recent' = [recent EXCEPT ![slot] = Fed(recent[slot], rec)]
                /\ slot' \in {0, slot} /\ pending' = pending
                /\ Fed(recent[slot], rec) \in Pairs
            BY <4>4, <5>1, <5>3, BodyStep
          <6> QED BY <5>3, <6>1 DEF Types
        <5> QED BY <5>2, <5>3
      <4> QED BY <2>4, <3>1, <4>1, <4>2, <4>3, <4>4, HeadOfRing, RecordKinds DEF Consume
    <3> QED BY <3>1, <3>2, <3>3 DEF Types
  <2>5. ASSUME NEW n \in 1..Len(recent), Drain(n) PROVE Types'
    <3>1. /\ recent' = [i \in 1..Len(recent) |->
                 IF i <= n /\ recent[i].out = Nothing
                 THEN [recent[i] EXCEPT !.out = Seal(recent[i])] ELSE recent[i]]
          /\ UNCHANGED <<kernel, seen, pending, slot, past>>
      BY <2>5 DEF Drain
    <3>2. \A i \in 1..Len(recent) : recent[i] \in Pairs
      BY DEF Types
    <3>3. \A i \in 1..Len(recent) : [recent[i] EXCEPT !.out = Seal(recent[i])] \in Pairs
      BY <3>2, Sealed DEF Pairs
    <3>4. recent' \in Seq(Pairs) /\ Len(recent') = Len(recent)
      <4> DEFINE f(i) == IF i <= n /\ recent[i].out = Nothing
                         THEN [recent[i] EXCEPT !.out = Seal(recent[i])] ELSE recent[i]
      <4>1. \A i \in 1..Len(recent) : f(i) \in Pairs
        BY <3>2, <3>3
      <4>2. recent' = [i \in 1..Len(recent) |-> f(i)]
        BY <3>1
      <4>3. Len(recent) \in Nat
        BY DEF Types
      <4> HIDE DEF f
      <4> QED BY <4>1, <4>2, <4>3
    <3> QED BY <3>1, <3>4 DEF Types, kernel, past
  <2>6. CASE Lapse
    <3>1. /\ slot' \in {slot, 0} /\ pending' \in {pending, <<>>} /\ lapses' = lapses + 1
          /\ UNCHANGED <<win, ring, recent, asked, inOrder>>
      BY <2>6 DEF Lapse, kernel
    <3>2. <<>> \in Seq(Msgs)
      OBVIOUS
    <3>3. slot' \in 0..Len(recent') /\ lapses' \in Nat
      BY <3>1 DEF Types
    <3>4. pending' \in Seq(Msgs)
      <4> HIDE DEF Msgs
      <4> QED BY <3>1, <3>2 DEF Types
    <3> QED BY <3>1, <3>3, <3>4 DEF Types
  <2>7. CASE UNCHANGED vars
    BY <2>7 DEF Types, vars, kernel, js, past
  <2> QED BY <2>1, <2>2, <2>3, <2>4, <2>5, <2>6, <2>7 DEF Next
<1> QED
  BY <1>1, <1>2, PTL DEF Spec

\* TypeOK of Capture.tla
THEOREM TypeCorrect == Spec => []TypeOK
<1>1. Types => TypeOK
  <2> SUFFICES ASSUME Types PROVE TypeOK
    OBVIOUS
  <2>1. ring \in Seq(Records)
    BY RecordKinds DEF Types
  <2>2. ASSUME NEW i \in 1..Len(recent)
        PROVE  /\ recent[i].msg \in Msgs /\ recent[i].req \in Msgs
               /\ recent[i].got \in Seq(Nat) /\ recent[i].trunc \in BOOLEAN
    <3>1. recent[i] \in Pairs
      BY DEF Types
    <3> QED BY <3>1 DEF Pairs
  <2> QED BY <2>1, <2>2 DEF Types, TypeOK
<1> QED
  BY <1>1, TypesHold, PTL

-----------------------------------------------------------------------------
(* What the ring and the past say of each other.                             *)

SeqKey(p) == <<"res", p>>
KeysOf(rg) == {Key(rg[j]) : j \in 1..Len(rg)}
\* The message a record is of.
Of(rec, m) == IF Data(rec) THEN In(rec.seq, m) ELSE rec.msg = m

\* The window is in a response that was asked for, past its first segment.
WinPlace == win # Nothing => \E m \in 1..asked :
    /\ Start(m) < win.next /\ win.next <= Last(m)
    /\ m = asked => inOrder > 0

\* Records are read in the order of their messages, a request before its response; nothing
\* of a response is there before the response was sighted.
RingOrder == \A i, j \in 1..Len(ring), m, n \in Msgs :
    i < j /\ Of(ring[i], m) /\ Of(ring[j], n)
        => m <= n /\ (Data(ring[i]) /\ ~Data(ring[j]) => m < n)
SeenOrder == \A p \in Nat, j \in 1..Len(ring), m, n \in Msgs :
    SeqKey(p) \in seen /\ In(p, m) /\ Of(ring[j], n) => m <= n /\ (~Data(ring[j]) => m < n)
PendingOrder == \A i \in 1..Len(pending) :
    /\ \A j \in 1..Len(ring), n \in Msgs : Of(ring[j], n) => pending[i] <= n
    /\ pending[i] <= asked
RingAsked == \A j \in 1..Len(ring), n \in Msgs :
    Of(ring[j], n) => n <= asked /\ (Data(ring[j]) /\ n = asked => inOrder > 0)
SeenAsked == \A p \in Nat, m \in Msgs :
    SeqKey(p) \in seen /\ In(p, m) => m <= asked /\ (m = asked => inOrder > 0)
PairsAsked == \A i \in 1..Len(recent) :
    recent[i].msg <= asked /\ (recent[i].msg = asked => inOrder > 0)
Order == /\ WinPlace /\ RingOrder /\ SeenOrder /\ PendingOrder
         /\ RingAsked /\ SeenAsked /\ PairsAsked

\* A sighting adds records of the response that is being given to the ring.
Added(i) == i \in 1..Len(ring') /\ i > Len(ring)

LEMMA ShippedRecords ==
    ASSUME Types, NEW seg \in Segments, asked \in Msgs, OfResponse(seg, asked),
           NEW want \in Nat \ {0}, want <= seg.len, NEW fit \in Nat, Shipped(seg, want, fit)
    PROVE  /\ Len(ring') = Len(ring) + fit /\ Len(ring) \in Nat
           /\ \A i \in 1..Len(ring) : ring'[i] = ring[i]
           /\ \A i \in 1..fit : /\ ring'[Len(ring) + i] = Chunk(seg, want, i)
                                /\ Chunk(seg, want, i) \in DataRecords
                                /\ In(Chunk(seg, want, i).seq, asked)
           /\ \A i : Added(i) => i - Len(ring) \in 1..fit
<1> DEFINE new == [j \in 1..fit |-> Chunk(seg, want, j)]
<1>1. ring' = ring \o new /\ \A j \in 1..fit : Chunk(seg, want, j) \in DataRecords
  BY DEF Shipped
<1>2. new \in Seq(Kept) /\ Len(new) = fit
  BY <1>1, RecordKinds
<1>3. ring \in Seq(Kept)
  BY DEF Types
<1>4. ASSUME NEW i \in 1..fit PROVE In(Chunk(seg, want, i).seq, asked)
  <2>1. i \in Nat \ {0} /\ i <= Chunks(want)
    BY <1>4, ChunksFacts DEF Shipped
  <2> QED BY <2>1, ChunkFacts
<1>5. Len(ring') = Len(ring) + fit /\ Len(ring) \in Nat
  <2> HIDE DEF new
  <2>1. Len(ring \o new) = Len(ring) + Len(new)
    BY <1>2, <1>3
  <2>2. Len(ring) \in Nat
    BY <1>3
  <2> QED BY <1>1, <1>2, <2>1, <2>2
<1>6. \A i \in 1..Len(ring) : ring'[i] = ring[i]
  <2> HIDE DEF new
  <2> QED BY <1>1, <1>2, <1>3
<1>7. ASSUME NEW i \in 1..fit PROVE ring'[Len(ring) + i] = Chunk(seg, want, i)
  <2>1. ring'[Len(ring) + i] = new[i]
    <3> HIDE DEF new
    <3> QED BY <1>1, <1>2, <1>3
  <2> QED BY <2>1
<1> QED
  BY <1>1, <1>4, <1>5, <1>6, <1>7 DEF Added

\* A continuation is picked up after the first segment was sighted.
LEMMA Continues ==
    ASSUME Types, Order, NEW seg \in Segments, asked \in Msgs, OfResponse(seg, asked),
           Wanted(seg), ~IsFirst(seg)
    PROVE  win # Nothing /\ win.next = seg.seq /\ Start(asked) < win.next /\ inOrder > 0
<1>1. win # Nothing /\ win.next = seg.seq
  BY DEF Wanted
<1>2. In(seg.seq, asked) /\ Start(asked) < seg.seq /\ seg.seq \in Nat /\ Start(asked) \in Nat
  BY SegmentFacts, ResponseFacts
<1>3. PICK m \in 1..asked : /\ Start(m) < win.next /\ win.next <= Last(m)
                            /\ m = asked => inOrder > 0
  BY <1>1 DEF Order, WinPlace
<1>4. m = asked
  <2>1. m \in Msgs /\ asked \in Nat
    BY ResponsesAreFinite
  <2>2. Start(m) \in Nat /\ Last(m) \in Nat
    BY <2>1, ResponseFacts
  <2>3. win.next - 1 \in Nat /\ In(win.next - 1, m)
    BY <1>1, <1>2, <1>3, <2>1, <2>2 DEF In
  <2>4. asked <= m
    <3>1. In(Start(asked), asked)
      BY ResponseFacts
    <3>2. Start(asked) <= win.next - 1
      BY <1>1, <1>2
    <3> QED BY <1>2, <2>3, <3>1, <3>2, InOrderOfMsgs
  <2> QED BY <1>3, <2>1, <2>4
<1> QED
  BY <1>1, <1>2, <1>3, <1>4

\* What a sighting does, whatever it takes.
LEMMA SightAdds ==
    ASSUME Types, Order, NEW seg \in Segments, Sight(seg)
    PROVE  /\ UNCHANGED <<seen, pending, recent, slot, asked, lapses>> /\ asked \in Msgs
           /\ Len(ring) \in Nat /\ Len(ring') \in Nat /\ Len(ring) <= Len(ring')
           /\ \A i \in 1..Len(ring) : ring'[i] = ring[i]
           /\ \A i \in 1..Len(ring') : i > Len(ring) =>
                 /\ ring'[i] \in DataRecords /\ In(ring'[i].seq, asked)
                 /\ inOrder' > 0
           /\ inOrder > 0 => inOrder' > 0
           /\ \/ win' = win \/ win' = Nothing
              \/ /\ inOrder' > 0
                 /\ Start(asked) < win'.next /\ win'.next <= Last(asked)
<1>1. /\ asked \in Msgs /\ asked > 0 /\ OfResponse(seg, asked)
      /\ inOrder' = IF IsFirst(seg) THEN seg.len
                    ELSE IF seg.seq = Start(asked) + inOrder THEN inOrder + seg.len
                    ELSE inOrder
      /\ UNCHANGED <<js, asked, lapses>>
  BY SightShips
<1>2. /\ seg.seq \in Nat /\ seg.len \in Nat \ {0} /\ seg.seq + seg.len <= Last(asked)
      /\ Start(asked) <= seg.seq /\ Start(asked) \in Nat
  BY <1>1, SegmentFacts, ResponseFacts
<1>3. (inOrder > 0 => inOrder' > 0) /\ (IsFirst(seg) => inOrder' > 0)
  BY <1>1, <1>2 DEF Types
<1>4. Wanted(seg) => inOrder' > 0
  BY <1>1, <1>3, Continues
<1>5. UNCHANGED <<seen, pending, recent, slot, asked, lapses>>
  BY <1>1 DEF js
<1>6. CASE UNCHANGED ring /\ win' \in {win, Nothing}
  <2>1. Len(ring) \in Nat
    BY DEF Types
  <2> QED BY <1>1, <1>3, <1>5, <1>6, <2>1
<1>7. ASSUME Wanted(seg), NEW want \in Nat \ {0}, NEW fit \in Nat, want <= seg.len,
             Shipped(seg, want, fit)
      PROVE  /\ Len(ring) \in Nat /\ Len(ring') \in Nat /\ Len(ring) <= Len(ring')
             /\ \A i \in 1..Len(ring) : ring'[i] = ring[i]
             /\ \A i \in 1..Len(ring') : i > Len(ring) =>
                   ring'[i] \in DataRecords /\ In(ring'[i].seq, asked)
             /\ \/ win' = win \/ win' = Nothing
                \/ Start(asked) < win'.next /\ win'.next <= Last(asked)
  <2>1. /\ Len(ring') = Len(ring) + fit /\ Len(ring) \in Nat
        /\ \A i \in 1..Len(ring) : ring'[i] = ring[i]
        /\ \A i \in 1..fit : /\ ring'[Len(ring) + i] = Chunk(seg, want, i)
                             /\ Chunk(seg, want, i) \in DataRecords
                             /\ In(Chunk(seg, want, i).seq, asked)
    BY <1>1, <1>7, ShippedRecords
  <2>2. ASSUME NEW i \in 1..Len(ring'), i > Len(ring)
        PROVE  ring'[i] \in DataRecords /\ In(ring'[i].seq, asked)
    <3>1. i - Len(ring) \in 1..fit /\ i = Len(ring) + (i - Len(ring))
      BY <2>1, <2>2
    <3> QED BY <2>1, <3>1
  <2>3. win' = win \/ win' = Nothing \/ win'.next = seg.seq + seg.len
    BY <1>7 DEF Shipped
  <2>4. \/ win' = win \/ win' = Nothing
        \/ Start(asked) < win'.next /\ win'.next <= Last(asked)
    BY <1>2, <2>3
  <2>5. Len(ring') \in Nat /\ Len(ring) <= Len(ring')
    BY <2>1
  <2> QED BY <2>1, <2>2, <2>4, <2>5
<1>8. \/ UNCHANGED ring /\ win' \in {win, Nothing}
      \/ Wanted(seg) /\ \E want \in Nat \ {0}, fit \in Nat : want <= seg.len /\ Shipped(seg, want, fit)
  BY SightShips DEF kernel
<1> QED
  BY <1>1, <1>3, <1>4, <1>5, <1>6, <1>7, <1>8

LEMMA OfUnique ==
    ASSUME NEW rec \in Kept, NEW m \in Msgs, NEW n \in Msgs, Of(rec, m), Of(rec, n)
    PROVE  m = n
<1>1. CASE Data(rec)
  <2>1. rec.seq \in Nat /\ In(rec.seq, m) /\ In(rec.seq, n)
    BY <1>1, RecordKinds DEF Of
  <2> QED BY <2>1, InOrderOfMsgs
<1>2. CASE ~Data(rec)
  BY <1>2 DEF Of
<1> QED BY <1>1, <1>2

LEMMA OrderInit == Init => Order
BY ResponsesAreFinite DEF Init, Order, WinPlace, RingOrder, SeenOrder, PendingOrder, RingAsked, SeenAsked, PairsAsked

LEMMA OrderSight ==
    ASSUME Types, Order, NEW seg \in Segments, Sight(seg)
    PROVE  Order'
<1> USE DEF Order
<1>1. /\ UNCHANGED <<seen, pending, recent, slot, asked, lapses>> /\ asked \in Msgs
      /\ Len(ring) \in Nat /\ Len(ring') \in Nat /\ Len(ring) <= Len(ring')
      /\ \A i \in 1..Len(ring) : ring'[i] = ring[i]
      /\ inOrder > 0 => inOrder' > 0
  BY SightAdds
<1>2. /\ \A i \in 1..Len(ring') : i > Len(ring) =>
                 /\ ring'[i] \in DataRecords /\ In(ring'[i].seq, asked)
                 /\ inOrder' > 0
  BY SightAdds
<1>3. \/ win' = win \/ win' = Nothing
      \/ /\ inOrder' > 0
         /\ Start(asked) < win'.next /\ win'.next <= Last(asked)
  BY SightAdds
<1>4. Msgs \subseteq Nat \ {0}
  BY MsgsAreNat
<1>5. ASSUME NEW i \in 1..Len(ring'), i > Len(ring), NEW n \in Msgs, Of(ring'[i], n)
      PROVE  n = asked /\ Data(ring'[i]) /\ inOrder' > 0
  <2>1. ring'[i] \in DataRecords /\ In(ring'[i].seq, asked) /\ inOrder' > 0
    BY <1>2, <1>5
  <2>2. Data(ring'[i]) /\ ring'[i] \in Kept
    BY <2>1, RecordKinds
  <2>3. Of(ring'[i], asked)
    BY <2>1, <2>2 DEF Of
  <2> QED BY <1>1, <1>5, <2>1, <2>2, <2>3, OfUnique
<1>6. ASSUME NEW i \in 1..Len(ring'), ~(i > Len(ring))
      PROVE  i \in 1..Len(ring) /\ ring'[i] = ring[i]
  BY <1>1, <1>6
<1>7. WinPlace'
  <2>1. CASE win' = win
    BY <1>1, <2>1 DEF WinPlace
  <2>2. CASE win' # win
    <3>1. asked \in 1..asked
      BY <1>1, <1>4
    <3> QED BY <1>1, <1>3, <2>2, <3>1 DEF WinPlace
  <2> QED BY <2>1, <2>2
<1>8. RingAsked'
  <2> SUFFICES ASSUME NEW j \in 1..Len(ring'), NEW n \in Msgs, Of(ring'[j], n)
               PROVE  n <= asked' /\ (Data(ring'[j]) /\ n = asked' => inOrder' > 0)
    BY DEF RingAsked
  <2>1. CASE j > Len(ring)
    BY <1>1, <1>4, <1>5, <2>1
  <2>2. CASE ~(j > Len(ring))
    BY <1>1, <1>6, <2>2 DEF RingAsked
  <2> QED BY <2>1, <2>2
<1>9. RingOrder'
  <2> SUFFICES ASSUME NEW i \in 1..Len(ring'), NEW j \in 1..Len(ring'), i < j,
                      NEW m \in Msgs, NEW n \in Msgs, Of(ring'[i], m), Of(ring'[j], n)
               PROVE  m <= n /\ (Data(ring'[i]) /\ ~Data(ring'[j]) => m < n)
    BY DEF RingOrder
  <2>1. CASE j > Len(ring)
    <3>1. n = asked /\ Data(ring'[j])
      BY <1>5, <2>1
    <3>2. m <= asked
      BY <1>1, <1>8 DEF RingAsked
    <3> QED BY <3>1, <3>2
  <2>2. CASE ~(j > Len(ring))
    <3>1. ~(i > Len(ring))
      BY <1>1, <2>2
    <3> QED BY <1>6, <2>2, <3>1 DEF RingOrder
  <2> QED BY <2>1, <2>2
<1>10. SeenOrder'
  <2> SUFFICES ASSUME NEW p \in Nat, NEW j \in 1..Len(ring'), NEW m \in Msgs, NEW n \in Msgs,
                      SeqKey(p) \in seen', In(p, m), Of(ring'[j], n)
               PROVE  m <= n /\ (~Data(ring'[j]) => m < n)
    BY DEF SeenOrder
  <2>1. CASE j > Len(ring)
    BY <1>1, <1>5, <2>1 DEF SeenAsked
  <2>2. CASE ~(j > Len(ring))
    BY <1>1, <1>6, <2>2 DEF SeenOrder
  <2> QED BY <2>1, <2>2
<1>11. PendingOrder'
  <2> SUFFICES ASSUME NEW i \in 1..Len(pending)
               PROVE  /\ \A j \in 1..Len(ring'), n \in Msgs : Of(ring'[j], n) => pending[i] <= n
                      /\ pending[i] <= asked
    BY <1>1 DEF PendingOrder
  <2>1. pending[i] <= asked
    BY DEF PendingOrder
  <2>2. ASSUME NEW j \in 1..Len(ring'), NEW n \in Msgs, Of(ring'[j], n) PROVE pending[i] <= n
    BY <1>5, <1>6, <2>1, <2>2 DEF PendingOrder
  <2> QED BY <2>1, <2>2
<1>12. SeenAsked' /\ PairsAsked'
  BY <1>1 DEF SeenAsked, PairsAsked
<1> QED
  BY <1>7, <1>8, <1>9, <1>10, <1>11, <1>12

LEMMA OrderRequest ==
    ASSUME Types, Order, NEW k \in Msgs, SightRequest(k)
    PROVE  Order'
<1> USE DEF Order
<1>1. /\ k = asked + 1 \/ (k = asked /\ inOrder = 0)
      /\ asked' = k /\ inOrder' = 0
      /\ UNCHANGED <<win, seen, pending, recent, slot>>
      /\ asked \in Nat /\ k \in Nat /\ Len(ring) \in Nat
  BY MsgsAreNat, ResponsesAreFinite DEF SightRequest, js, Types
<1>2. \/ ring' = ring
      \/ ring' = Append(ring, [kind |-> "request", msg |-> k])
  BY DEF SightRequest
<1>3. /\ Len(ring') \in Nat
      /\ \A i \in 1..Len(ring') : \/ (i <= Len(ring) /\ ring'[i] = ring[i])
                                   \/ (i > Len(ring) /\ ~Data(ring'[i]) /\ ring'[i].msg = k)
  <2>1. CASE ring' = ring
    BY <1>1, <2>1
  <2>2. CASE ring' = Append(ring, [kind |-> "request", msg |-> k])
    <3> DEFINE rq == [kind |-> "request", msg |-> k]
    <3>1. ~Data(rq) /\ rq.msg = k
      BY DEF Data
    <3> HIDE DEF rq
    <3>2. ring \in Seq(Kept)
      BY DEF Types
    <3>3. Len(ring') = Len(ring) + 1 /\ \A i \in 1..Len(ring) + 1 :
             ring'[i] = IF i <= Len(ring) THEN ring[i] ELSE rq
      BY <2>2, <3>2 DEF rq
    <3> QED BY <1>1, <3>1, <3>3
  <2> QED BY <1>2, <2>1, <2>2
<1>4. Msgs \subseteq Nat
  BY MsgsAreNat
<1>5. ASSUME NEW i \in 1..Len(ring'), i > Len(ring), NEW n \in Msgs, Of(ring'[i], n)
      PROVE  n = k /\ ~Data(ring'[i])
  BY <1>3, <1>5 DEF Of
<1>6. ASSUME NEW i \in 1..Len(ring'), ~(i > Len(ring))
      PROVE  i \in 1..Len(ring) /\ ring'[i] = ring[i]
  BY <1>1, <1>3, <1>6
\* What was asked for before, and what was sighted of it, is of a message before this one.
<1>7. ASSUME NEW n \in Msgs, n <= asked, n = asked => inOrder > 0
      PROVE  n < k
  BY <1>1, <1>4, <1>7
<1>8. WinPlace'
  <2> SUFFICES ASSUME win # Nothing
               PROVE  \E m \in 1..k : /\ Start(m) < win.next /\ win.next <= Last(m)
                                      /\ m = k => inOrder' > 0
    BY <1>1 DEF WinPlace
  <2>1. PICK m \in 1..asked : /\ Start(m) < win.next /\ win.next <= Last(m)
                              /\ m = asked => inOrder > 0
    BY DEF WinPlace
  <2>2. m \in Msgs
    BY <2>1, ResponsesAreFinite DEF Types
  <2>3. m < k
    BY <1>4, <1>7, <2>1, <2>2
  <2> QED BY <1>1, <2>1, <2>3
<1>9. RingAsked'
  <2> SUFFICES ASSUME NEW j \in 1..Len(ring'), NEW n \in Msgs, Of(ring'[j], n)
               PROVE  n <= k /\ (Data(ring'[j]) /\ n = k => inOrder' > 0)
    BY <1>1 DEF RingAsked
  <2>1. CASE j > Len(ring)
    BY <1>4, <1>5, <2>1
  <2>2. CASE ~(j > Len(ring))
    <3>1. n <= asked /\ (Data(ring[j]) /\ n = asked => inOrder > 0)
      BY <1>6, <2>2 DEF RingAsked
    <3> QED BY <1>1, <1>4, <1>6, <2>2, <3>1
  <2> QED BY <2>1, <2>2
<1>10. RingOrder'
  <2> SUFFICES ASSUME NEW i \in 1..Len(ring'), NEW j \in 1..Len(ring'), i < j,
                      NEW m \in Msgs, NEW n \in Msgs, Of(ring'[i], m), Of(ring'[j], n)
               PROVE  m <= n /\ (Data(ring'[i]) /\ ~Data(ring'[j]) => m < n)
    BY DEF RingOrder
  <2>1. CASE j > Len(ring)
    <3>1. n = k
      BY <1>5, <2>1
    <3>2. m <= k
      BY <1>1, <1>9 DEF RingAsked
    <3>3. ASSUME Data(ring'[i]) PROVE m < k
      <4>1. ~(i > Len(ring))
        BY <1>5, <3>3
      <4> QED BY <1>6, <1>7, <3>3, <4>1 DEF RingAsked
    <3> QED BY <3>1, <3>2, <3>3
  <2>2. CASE ~(j > Len(ring))
    <3>1. ~(i > Len(ring))
      BY <1>1, <1>3, <2>2
    <3> QED BY <1>6, <2>2, <3>1 DEF RingOrder
  <2> QED BY <2>1, <2>2
<1>11. SeenOrder'
  <2> SUFFICES ASSUME NEW p \in Nat, NEW j \in 1..Len(ring'), NEW m \in Msgs, NEW n \in Msgs,
                      SeqKey(p) \in seen, In(p, m), Of(ring'[j], n)
               PROVE  m <= n /\ (~Data(ring'[j]) => m < n)
    BY <1>1 DEF SeenOrder
  <2>1. CASE j > Len(ring)
    <3>1. m < k
      BY <1>7 DEF SeenAsked
    <3> QED BY <1>4, <1>5, <2>1, <3>1
  <2>2. CASE ~(j > Len(ring))
    BY <1>6, <2>2 DEF SeenOrder
  <2> QED BY <2>1, <2>2
<1>12. PendingOrder'
  <2> SUFFICES ASSUME NEW i \in 1..Len(pending)
               PROVE  /\ \A j \in 1..Len(ring'), n \in Msgs : Of(ring'[j], n) => pending[i] <= n
                      /\ pending[i] <= k
    BY <1>1 DEF PendingOrder
  <2>1. pending[i] <= asked /\ pending[i] \in Nat
    <3>1. pending[i] \in Msgs
      BY DEF Types
    <3> QED BY <1>4, <3>1 DEF PendingOrder
  <2>2. pending[i] <= k
    BY <1>1, <2>1
  <2>3. ASSUME NEW j \in 1..Len(ring'), NEW n \in Msgs, Of(ring'[j], n) PROVE pending[i] <= n
    BY <1>5, <1>6, <2>2, <2>3 DEF PendingOrder
  <2> QED BY <2>2, <2>3
<1>13. SeenAsked'
  BY <1>1, <1>4, <1>7 DEF SeenAsked
<1>14. PairsAsked'
  <2> SUFFICES ASSUME NEW i \in 1..Len(recent)
               PROVE  recent[i].msg <= k /\ (recent[i].msg = k => inOrder' > 0)
    BY <1>1 DEF PairsAsked
  <2>1. recent[i].msg \in Msgs
    <3>1. recent[i] \in Pairs
      BY DEF Types
    <3> QED BY <3>1 DEF Pairs
  <2>2. recent[i].msg < k
    BY <1>7, <2>1 DEF PairsAsked
  <2>3. recent[i].msg \in Nat /\ k \in Nat
    BY <1>1, <1>4, <2>1
  <2> QED BY <2>2, <2>3
<1> QED
  BY <1>8, <1>9, <1>10, <1>11, <1>12, <1>13, <1>14

-----------------------------------------------------------------------------
(* Reading a record, case by case.                                           *)

ReadAgain == /\ Key(ring[1]) \in seen /\ UNCHANGED <<pending, recent, slot>>
             /\ Data(ring[1]) /\ ring[1].trunc => <<asked, "flag">> \in cuts'
ReadRequest == /\ Key(ring[1]) \notin seen /\ ~Data(ring[1])
               /\ pending' = Append(pending, ring[1].msg) /\ UNCHANGED <<recent, slot>>
ReadUnpaired(m) == /\ Key(ring[1]) \notin seen /\ Data(ring[1]) /\ ring[1].seq = Start(m)
                   /\ pending = <<>> /\ slot' = 0 /\ UNCHANGED <<pending, recent>>
\* A new pair e, that collects.
ReadPaired(m, e) ==
    /\ Key(ring[1]) \notin seen /\ Data(ring[1]) /\ ring[1].seq = Start(m)
    /\ pending # <<>> /\ pending' = Tail(pending)
    /\ recent' = Append(recent, e) /\ slot' = Len(recent) + 1
    /\ e.msg = m /\ e.req = pending[1] /\ e.out = Nothing /\ ~Full(e)
    /\ e.trunc = ring[1].trunc /\ e.got = Positions(ring[1])
    /\ cuts' = cuts
ReadBody == Key(ring[1]) \notin seen /\ Data(ring[1]) /\ \A m \in Msgs : ring[1].seq # Start(m)
ReadLoose == ReadBody /\ slot = 0 /\ UNCHANGED <<pending, recent, slot>>
\* The pair that collects becomes e.
ReadStitched(e) ==
    /\ ReadBody /\ slot # 0 /\ pending' = pending
    /\ recent' = [recent EXCEPT ![slot] = e]
    /\ slot' = IF ring[1].trunc \/ Full(e) THEN 0 ELSE slot
    /\ e = Fed(recent[slot], ring[1])
    /\ e.msg = recent[slot].msg /\ e.req = recent[slot].req /\ e.out = recent[slot].out
    /\ e.trunc = (recent[slot].trunc \/ ring[1].trunc)
    /\ Full(e) /\ Taken(e) < Responses[e.msg].len => <<e.msg, "room">> \in cuts'

LEMMA ConsumeReads ==
    ASSUME Types, Consume
    PROVE  /\ ring # <<>> /\ ring' = Tail(ring) /\ ring[1] \in Kept
           /\ Len(ring) \in Nat \ {0} /\ Len(ring') = Len(ring) - 1
           /\ \A i \in 1..Len(ring') : ring'[i] = ring[i + 1]
           /\ UNCHANGED <<win, asked, inOrder, lapses>>
           /\ seen' = seen \cup {Key(ring[1])}
           /\ cuts \subseteq cuts'
           /\ \A x \in cuts' : x \in cuts \/ x[2] \in {"flag", "room"}
           /\ \/ ReadAgain \/ ReadRequest \/ ReadLoose
              \/ \E m \in Msgs : ReadUnpaired(m)
              \/ \E m \in Msgs, e \in Pairs : ReadPaired(m, e)
              \/ \E e \in Pairs : ReadStitched(e)
<1> DEFINE rec == ring[1]
<1>1. /\ ring # <<>> /\ ring' = Tail(ring)
      /\ UNCHANGED <<win, asked, inOrder, lapses>>
  BY DEF Consume
<1>2. /\ rec \in Kept /\ Len(ring) \in Nat \ {0} /\ Len(ring') = Len(ring) - 1
      /\ \A i \in 1..Len(ring') : ring'[i] = ring[i + 1]
  BY <1>1, HeadOfRing
<1>3. \/ /\ Key(rec) \in seen /\ UNCHANGED js
         /\ cuts' = IF rec.kind # "request" /\ rec.trunc THEN cuts \cup {<<asked, "flag">>} ELSE cuts
      \/ /\ Key(rec) \notin seen /\ seen' = seen \cup {Key(rec)}
         /\ CASE rec.kind = "request"  -> OnRequest(rec)
              [] rec.kind = "response" -> OnResponse(rec)
              [] rec.kind = "body"     -> OnBody(rec)
  BY DEF Consume, IsDuplicate
<1>4. seen' = seen \cup {Key(rec)}
  BY <1>3 DEF js
<1> DEFINE Cases == \/ ReadAgain \/ ReadRequest \/ ReadLoose
                    \/ \E m \in Msgs : ReadUnpaired(m)
                    \/ \E m \in Msgs, e \in Pairs : ReadPaired(m, e)
                    \/ \E e \in Pairs : ReadStitched(e)
           Cut == cuts \subseteq cuts' /\ \A x \in cuts' : x \in cuts \/ x[2] \in {"flag", "room"}
<1>5. CASE Key(rec) \in seen
  <2> HIDE DEF rec
  <2>0. cuts' = IF Data(rec) /\ rec.trunc THEN cuts \cup {<<asked, "flag">>} ELSE cuts
    BY <1>3, <1>5 DEF Data
  <2>1. ReadAgain
    BY <1>3, <1>5, <2>0 DEF ReadAgain, js, rec
  <2>2. Cut
    BY <2>0
  <2> QED BY <1>1, <1>2, <1>4, <2>1, <2>2 DEF rec
<1>6. CASE Key(rec) \notin seen /\ rec.kind = "request"
  <2>1. OnRequest(rec) /\ ~Data(rec)
    BY <1>3, <1>6 DEF Data
  <2>2. ReadRequest /\ Cut
    BY <1>6, <2>1 DEF ReadRequest, OnRequest
  <2> QED BY <1>1, <1>2, <1>4, <2>2
<1>7. CASE Key(rec) \notin seen /\ rec.kind = "response"
  <2>1. OnResponse(rec) /\ Data(rec) /\ rec \in DataRecords
    BY <1>2, <1>3, <1>7, RecordKinds DEF Data
  <2>2. PICK m \in Msgs : rec.seq = Start(m)
    BY <1>7, <2>1, RecordKinds
  <2>3. CASE pending = <<>>
    <3>1. ReadUnpaired(m) /\ Cut
      BY <1>7, <2>1, <2>2, <2>3 DEF OnResponse, ReadUnpaired
    <3> QED BY <1>1, <1>2, <1>4, <3>1
  <2>4. CASE pending # <<>>
    <3> DEFINE b == [msg |-> m, req |-> pending[1], got |-> <<>>, trunc |-> FALSE, out |-> Nothing]
    <3>1. /\ b \in Pairs /\ pending' = Tail(pending)
          /\ recent' = Append(recent, Fed(b, rec))
          /\ Fed(b, rec).got = Positions(rec)
          /\ ~Full(Fed(b, rec)) /\ slot' = Len(recent) + 1 /\ cuts' = cuts
      <4> HIDE DEF rec
      <4> QED BY <2>1, <2>2, <2>4, ResponseStep
    <3>2. b.msg = m /\ b.req = pending[1] /\ b.out = Nothing /\ b.trunc = FALSE
      OBVIOUS
    <3> HIDE DEF b
    <3>3. Fed(b, rec) \in Pairs /\ Fed(b, rec).msg = m /\ Fed(b, rec).req = pending[1]
          /\ Fed(b, rec).out = Nothing /\ Fed(b, rec).trunc = rec.trunc
      BY <2>1, <3>1, <3>2, StitchType, RecordKinds
    <3>4. ReadPaired(m, Fed(b, rec)) /\ Cut
      BY <1>7, <2>1, <2>2, <2>4, <3>1, <3>3 DEF ReadPaired
    <3> HIDE DEF rec, Cut
    <3> QED BY <1>1, <1>2, <1>4, <3>3, <3>4 DEF rec, Cut
  <2> QED BY <2>3, <2>4
<1>8. CASE Key(rec) \notin seen /\ rec.kind = "body"
  <2>1. OnBody(rec) /\ Data(rec) /\ rec \in DataRecords
    BY <1>2, <1>3, <1>8, RecordKinds DEF Data
  <2>2. ReadBody
    BY <1>8, <2>1, RecordKinds DEF ReadBody
  <2>3. CASE slot = 0
    <3>1. ReadLoose /\ Cut
      BY <2>1, <2>2, <2>3 DEF OnBody, ReadLoose
    <3> QED BY <1>1, <1>2, <1>4, <3>1
  <2>4. CASE slot # 0
    <3> DEFINE e == Fed(recent[slot], rec)
    <3>1. /\ recent[slot] \in Pairs /\ pending' = pending
          /\ recent' = [recent EXCEPT ![slot] = e]
          /\ slot' = IF rec.trunc \/ Full(e) THEN 0 ELSE slot
          /\ e \in Pairs /\ cuts \subseteq cuts'
          /\ \A x \in cuts' : x \in cuts \/ x = <<recent[slot].msg, "room">>
          /\ Full(e) /\ Taken(e) < Responses[recent[slot].msg].len
                => <<recent[slot].msg, "room">> \in cuts'
      BY <2>1, <2>4, BodyStep
    <3>2. e.msg = recent[slot].msg /\ e.req = recent[slot].req /\ e.out = recent[slot].out
          /\ e.trunc = (recent[slot].trunc \/ rec.trunc)
      BY <2>1, <3>1, StitchType
    <3>3. e = Fed(recent[slot], rec)
      OBVIOUS
    <3> HIDE DEF e
    <3>4. ReadStitched(e) /\ Cut
      BY <2>2, <2>4, <3>1, <3>2, <3>3 DEF ReadStitched
    <3> QED BY <1>1, <1>2, <1>4, <3>1, <3>4
  <2> QED BY <2>3, <2>4
<1> QED
  BY <1>2, <1>5, <1>6, <1>7, <1>8, RecordKinds DEF Data

\* What the cases do to what waits for a response.
LEMMA PendingRead ==
    ASSUME Types, Consume
    PROVE  \A i \in 1..Len(pending') :
              \/ \E j \in 1..Len(pending) : pending'[i] = pending[j]
              \/ ReadRequest /\ pending'[i] = ring[1].msg
<1>1. pending \in Seq(Msgs) /\ Len(pending) \in Nat
  BY DEF Types
<1> SUFFICES ASSUME NEW i \in 1..Len(pending')
             PROVE  \/ \E j \in 1..Len(pending) : pending'[i] = pending[j]
                    \/ ReadRequest /\ pending'[i] = ring[1].msg
  OBVIOUS
<1>2. CASE UNCHANGED pending
  BY <1>2
<1>3. CASE ReadRequest
  BY <1>1, <1>3 DEF ReadRequest
<1>4. CASE pending # <<>> /\ pending' = Tail(pending)
  <2>1. i + 1 \in 1..Len(pending) /\ pending'[i] = pending[i + 1]
    BY <1>1, <1>4
  <2> QED BY <2>1
<1> QED
  BY <1>2, <1>3, <1>4, ConsumeReads DEF ReadAgain, ReadLoose, ReadUnpaired, ReadPaired, ReadStitched

\* The pairs after a read: as before, or a new one, or one that got more.
LEMMA RecentRead ==
    ASSUME Types, Consume
    PROVE  /\ Len(recent') \in Nat /\ Len(recent) \in Nat /\ Len(recent) <= Len(recent')
           /\ \A i \in 1..Len(recent) : /\ recent'[i].msg = recent[i].msg
                                        /\ recent'[i].req = recent[i].req
                                        /\ recent'[i].out = recent[i].out
                                        /\ (recent'[i] = recent[i] \/ i = slot)
           /\ \A i \in 1..Len(recent') : i > Len(recent) =>
                 /\ i = Len(recent) + 1
                 /\ \E m \in Msgs, e \in Pairs : ReadPaired(m, e) /\ recent'[i] = e
<1>1. recent \in Seq(Pairs) /\ Len(recent) \in Nat
  BY DEF Types
<1>2. CASE UNCHANGED recent
  BY <1>1, <1>2
<1>3. ASSUME NEW m \in Msgs, NEW e \in Pairs, ReadPaired(m, e)
      PROVE  /\ Len(recent') = Len(recent) + 1
             /\ \A i \in 1..Len(recent) : recent'[i] = recent[i]
             /\ recent'[Len(recent) + 1] = e
  BY <1>1, <1>3 DEF ReadPaired
<1>4. CASE \E m \in Msgs, e \in Pairs : ReadPaired(m, e)
  <2>1. PICK m \in Msgs, e \in Pairs : ReadPaired(m, e)
    BY <1>4
  <2>2. /\ Len(recent') = Len(recent) + 1
        /\ \A i \in 1..Len(recent) : recent'[i] = recent[i]
        /\ recent'[Len(recent) + 1] = e
    BY <1>3, <2>1
  <2>3. \A i \in 1..Len(recent') : i > Len(recent) => i = Len(recent) + 1
    BY <1>1, <2>2
  <2> QED BY <1>1, <2>1, <2>2, <2>3
<1>5. CASE \E e \in Pairs : ReadStitched(e)
  <2>1. PICK e \in Pairs : ReadStitched(e)
    BY <1>5
  <2>2. /\ recent' = [recent EXCEPT ![slot] = e] /\ slot \in 1..Len(recent)
        /\ e.msg = recent[slot].msg /\ e.req = recent[slot].req /\ e.out = recent[slot].out
    BY <2>1 DEF ReadStitched, Types
  <2>3. Len(recent') = Len(recent) /\ recent'[slot] = e
        /\ \A i \in 1..Len(recent) : i # slot => recent'[i] = recent[i]
    BY <1>1, <2>2
  <2> QED BY <1>1, <2>2, <2>3
<1> QED
  BY <1>2, <1>4, <1>5, ConsumeReads DEF ReadAgain, ReadRequest, ReadLoose, ReadUnpaired

LEMMA OrderConsume ==
    ASSUME Types, Order, Consume
    PROVE  Order'
<1> USE DEF Order
<1> DEFINE rec == ring[1]
<1>1. /\ ring # <<>> /\ rec \in Kept /\ Len(ring) \in Nat \ {0}
      /\ Len(ring') = Len(ring) - 1
      /\ \A i \in 1..Len(ring') : ring'[i] = ring[i + 1]
      /\ UNCHANGED <<win, asked, inOrder, lapses>>
      /\ seen' = seen \cup {Key(rec)}
  BY ConsumeReads
<1>2. ASSUME NEW i \in 1..Len(ring')
      PROVE  i + 1 \in 1..Len(ring) /\ 1 < i + 1 /\ ring'[i] = ring[i + 1]
  BY <1>1, <1>2
<1>3. 1 \in 1..Len(ring)
  BY <1>1
<1>4. ASSUME NEW p \in Nat, SeqKey(p) = Key(rec), NEW m \in Msgs, In(p, m)
      PROVE  Data(rec) /\ rec.seq = p /\ Of(rec, m)
  <2>1. Data(rec) /\ rec.seq = p
    BY <1>4 DEF SeqKey, Key, Data
  <2> QED BY <1>4, <2>1 DEF Of
<1> HIDE DEF rec
<1>5. WinPlace'
  BY <1>1 DEF WinPlace
<1>6. RingOrder'
  <2> SUFFICES ASSUME NEW i \in 1..Len(ring'), NEW j \in 1..Len(ring'), i < j,
                      NEW m \in Msgs, NEW n \in Msgs, Of(ring'[i], m), Of(ring'[j], n)
               PROVE  m <= n /\ (Data(ring'[i]) /\ ~Data(ring'[j]) => m < n)
    BY DEF RingOrder
  <2>1. i + 1 \in 1..Len(ring) /\ j + 1 \in 1..Len(ring) /\ i + 1 < j + 1
    BY <1>2
  <2> QED BY <1>2, <2>1 DEF RingOrder
<1>7. SeenOrder'
  <2> SUFFICES ASSUME NEW p \in Nat, NEW j \in 1..Len(ring'), NEW m \in Msgs, NEW n \in Msgs,
                      SeqKey(p) \in seen', In(p, m), Of(ring'[j], n)
               PROVE  m <= n /\ (~Data(ring'[j]) => m < n)
    BY DEF SeenOrder
  <2>1. j + 1 \in 1..Len(ring) /\ 1 < j + 1 /\ ring'[j] = ring[j + 1]
    BY <1>2
  <2>2. CASE SeqKey(p) \in seen
    BY <2>1, <2>2 DEF SeenOrder
  <2>3. CASE SeqKey(p) = Key(rec)
    BY <1>3, <1>4, <2>1, <2>3 DEF RingOrder, rec
  <2> QED BY <1>1, <2>2, <2>3
<1>8. PendingOrder'
  <2> SUFFICES ASSUME NEW i \in 1..Len(pending')
               PROVE  /\ \A j \in 1..Len(ring'), n \in Msgs : Of(ring'[j], n) => pending'[i] <= n
                      /\ pending'[i] <= asked
    BY <1>1 DEF PendingOrder
  <2>1. CASE \E j \in 1..Len(pending) : pending'[i] = pending[j]
    BY <1>2, <2>1 DEF PendingOrder
  <2>2. CASE ReadRequest /\ pending'[i] = rec.msg
    <3>1. rec.msg \in Msgs /\ Of(rec, rec.msg)
      BY <1>1, <2>2, RecordKinds DEF ReadRequest, Of, rec
    <3> QED BY <1>2, <1>3, <2>2, <3>1 DEF RingOrder, RingAsked, rec
  <2> QED BY <2>1, <2>2, PendingRead DEF rec
<1>9. RingAsked'
  BY <1>1, <1>2 DEF RingAsked
<1>10. SeenAsked'
  <2> SUFFICES ASSUME NEW p \in Nat, NEW m \in Msgs, SeqKey(p) \in seen', In(p, m)
               PROVE  m <= asked /\ (m = asked => inOrder > 0)
    BY <1>1 DEF SeenAsked
  <2>1. CASE SeqKey(p) \in seen
    BY <2>1 DEF SeenAsked
  <2>2. CASE SeqKey(p) = Key(rec)
    BY <1>3, <1>4, <2>2 DEF RingAsked, rec
  <2> QED BY <1>1, <2>1, <2>2
<1>11. PairsAsked'
  <2> SUFFICES ASSUME NEW i \in 1..Len(recent')
               PROVE  recent'[i].msg <= asked /\ (recent'[i].msg = asked => inOrder > 0)
    BY <1>1 DEF PairsAsked
  <2>1. /\ Len(recent) \in Nat /\ Len(recent') \in Nat
        /\ \A k \in 1..Len(recent) : recent'[k].msg = recent[k].msg
        /\ i > Len(recent) => \E m \in Msgs, e \in Pairs : ReadPaired(m, e) /\ recent'[i] = e
    BY RecentRead
  <2>2. CASE i > Len(recent)
    <3>1. PICK m \in Msgs, e \in Pairs : ReadPaired(m, e) /\ recent'[i] = e
      BY <2>1, <2>2
    <3>2. recent'[i].msg = m /\ Data(rec) /\ Of(rec, m)
      BY <3>1, ResponseFacts DEF ReadPaired, Of, rec
    <3> QED BY <1>3, <3>2 DEF RingAsked, rec
  <2>3. CASE ~(i > Len(recent))
    BY <2>1, <2>3 DEF PairsAsked
  <2> QED BY <2>2, <2>3
<1> QED
  BY <1>5, <1>6, <1>7, <1>8, <1>9, <1>10, <1>11

\* What a drain leaves of the pairs.
LEMMA DrainKeeps ==
    ASSUME Types, NEW n \in 1..Len(recent), Drain(n)
    PROVE  /\ UNCHANGED <<win, ring, seen, pending, slot, asked, inOrder, cuts, slips, lapses>>
           /\ Len(recent') = Len(recent) /\ Len(recent) \in Nat
           /\ \A i \in 1..Len(recent) :
                 /\ recent'[i].msg = recent[i].msg /\ recent'[i].req = recent[i].req
                 /\ recent'[i].got = recent[i].got /\ recent'[i].trunc = recent[i].trunc
                 /\ \/ recent'[i].out = recent[i].out
                    \/ recent[i].out = Nothing /\ recent'[i].out = Seal(recent[i])
<1>1. /\ recent' = [i \in 1..Len(recent) |->
                       IF i <= n /\ recent[i].out = Nothing
                       THEN [recent[i] EXCEPT !.out = Seal(recent[i])] ELSE recent[i]]
      /\ UNCHANGED <<kernel, seen, pending, slot, past>>
  BY DEF Drain
<1>2. recent \in Seq(Pairs) /\ Len(recent) \in Nat
  BY DEF Types
<1>3. Len(recent') = Len(recent)
  BY <1>1, <1>2
<1>4. ASSUME NEW i \in 1..Len(recent)
      PROVE  /\ recent'[i].msg = recent[i].msg /\ recent'[i].req = recent[i].req
             /\ recent'[i].got = recent[i].got /\ recent'[i].trunc = recent[i].trunc
             /\ \/ recent'[i].out = recent[i].out
                \/ recent[i].out = Nothing /\ recent'[i].out = Seal(recent[i])
  <2>1. recent[i] \in Pairs
    BY <1>2
  <2>2. \/ recent'[i] = [recent[i] EXCEPT !.out = Seal(recent[i])] /\ recent[i].out = Nothing
        \/ recent'[i] = recent[i]
    BY <1>1
  <2> QED BY <2>1, <2>2 DEF Pairs
<1> QED
  BY <1>1, <1>2, <1>3, <1>4 DEF kernel, past

LEMMA LapseForgets ==
    ASSUME Types, Lapse
    PROVE  /\ ring = <<>> /\ ring' = <<>> /\ seen' = {} /\ slot' \in {slot, 0}
           /\ pending' \in {pending, <<>>}
           /\ \A i \in 1..Len(recent) : recent[i].out # Nothing
           /\ cuts' = cuts \cup {<<asked, "age">>} /\ lapses' = lapses + 1
           /\ UNCHANGED <<win, recent, asked, inOrder, slips>>
BY DEF Lapse, kernel

LEMMA OrderHolds == Spec => []Order
<1>1. Types /\ Order /\ [Next]_vars => Order'
  <2> SUFFICES ASSUME Types, Order, [Next]_vars PROVE Order'
    OBVIOUS
  <2>1. ASSUME NEW seg \in Segments, Sight(seg) PROVE Order'
    BY <2>1, OrderSight
  <2>2. ASSUME NEW m \in Msgs, SightRequest(m) PROVE Order'
    BY <2>2, OrderRequest
  <2>3. CASE WindowEvicted
    BY <2>3 DEF WindowEvicted, js, Order, WinPlace, RingOrder, SeenOrder, PendingOrder, RingAsked,
                SeenAsked, PairsAsked
  <2>4. CASE Consume
    BY <2>4, OrderConsume
  <2>5. ASSUME NEW n \in 1..Len(recent), Drain(n) PROVE Order'
    <3>1. /\ UNCHANGED <<win, ring, seen, pending, slot, asked, inOrder>>
          /\ Len(recent') = Len(recent)
          /\ \A i \in 1..Len(recent) : recent'[i].msg = recent[i].msg
      BY <2>5, DrainKeeps
    <3> QED
      BY <3>1 DEF Order, WinPlace, RingOrder, SeenOrder, PendingOrder, RingAsked, SeenAsked, PairsAsked
  <2>6. CASE Lapse
    <3>1. /\ ring' = <<>> /\ ring = <<>> /\ seen' = {} /\ pending' \in {pending, <<>>}
          /\ UNCHANGED <<win, recent, asked, inOrder>>
      BY <2>6, LapseForgets
    <3>2. RingOrder' /\ SeenOrder' /\ RingAsked' /\ SeenAsked' /\ WinPlace' /\ PairsAsked'
      BY <3>1 DEF Order, WinPlace, RingOrder, SeenOrder, RingAsked, SeenAsked, PairsAsked
    <3>3. PendingOrder'
      BY <3>1 DEF Order, PendingOrder
    <3> QED BY <3>2, <3>3 DEF Order
  <2>7. CASE UNCHANGED vars
    BY <2>7 DEF vars, kernel, js, past, Order, WinPlace, RingOrder, SeenOrder, PendingOrder,
                RingAsked, SeenAsked, PairsAsked
  <2> QED BY <2>1, <2>2, <2>3, <2>4, <2>5, <2>6, <2>7 DEF Next
<1> QED
  BY <1>1, OrderInit, TypesHold, PTL DEF Spec

-----------------------------------------------------------------------------
(* A response makes one pair, with its own request.                          *)

Started(rg, m, i) == \E r \in 1..i : Data(rg[r]) /\ rg[r].seq = Start(m)
NoPair(m) == \A i \in 1..Len(recent) : recent[i].msg # m

\* A request that has not been answered.
InPending(b) == \E i \in 1..Len(pending) : pending[i] = b
InRing(b) == \E i \in 1..Len(ring) : ~Data(ring[i]) /\ ring[i].msg = b
\* Until a request is answered there is no record of a later message without its response
\* before it; its response is in the ring once it was sighted.
WaitsAt(b) ==
    /\ \A j \in 1..Len(ring), n \in Msgs : Of(ring[j], n) /\ n > b => Started(ring, b, j - 1)
    /\ asked > b \/ (asked = b /\ inOrder > 0) => Started(ring, b, Len(ring))
    /\ InPending(b) => NoPair(b) /\ SeqKey(Start(b)) \notin seen
PairingInv == slips = {} =>
    /\ Len(pending) <= 1
    /\ \A b \in Msgs : InPending(b) \/ InRing(b) => WaitsAt(b)
    /\ \A i \in 1..Len(recent) : recent[i].msg = recent[i].req
    /\ \A i, j \in 1..Len(recent) : recent[i].msg = recent[j].msg => i = j
\* What was read is remembered while nothing has lapsed.
Remembered == lapses = 0 =>
    /\ \A i \in 1..Len(recent) : /\ SeqKey(Start(recent[i].msg)) \in seen
                                 /\ <<"req", recent[i].req>> \in seen
    /\ \A i \in 1..Len(pending) : <<"req", pending[i]>> \in seen

\* A record that is read for the first time, as far as pairing can tell, is no repetition.
LEMMA NotRepeated ==
    ASSUME Types, Remembered, Consume, slips' = {}
    PROVE  slips = {} /\ (Key(ring[1]) \notin seen => ~Repeated(ring[1]))
<1> DEFINE rec == ring[1]
<1>1. \/ Key(rec) \in seen /\ slips' = slips
      \/ Key(rec) \notin seen /\ slips' = slips \cup {why \in {"repeated"} : lapses > 0 /\ Repeated(rec)}
  BY DEF Consume, IsDuplicate
<1>2. slips = {} /\ (Key(rec) \notin seen => ~(lapses > 0 /\ Repeated(rec)))
  BY <1>1
<1>3. rec \in Kept
  BY HeadOfRing DEF Consume
<1>4. ASSUME Key(rec) \notin seen, Repeated(rec), lapses = 0 PROVE FALSE
  <2>1. CASE rec.kind = "request"
    <3>1. <<"req", rec.msg>> \notin seen
      BY <1>4, <2>1 DEF Key
    <3>2. \/ \E i \in 1..Len(recent) : recent[i].req = rec.msg
          \/ \E i \in 1..Len(pending) : pending[i] = rec.msg
      BY <1>4, <2>1 DEF Repeated
    <3> QED BY <1>4, <3>1, <3>2 DEF Remembered
  <2>2. CASE rec.kind = "response"
    <3>1. PICK i \in 1..Len(recent) : recent[i].msg = MsgAt(rec.seq)
      BY <1>4, <2>2 DEF Repeated
    <3>2. rec \in DataRecords
      BY <1>3, <2>2, RecordKinds DEF Data
    <3>3. PICK m \in Msgs : rec.seq = Start(m)
      BY <2>2, <3>2, RecordKinds
    <3>4. recent[i].msg = m
      BY <3>1, <3>3, MsgAtStart
    <3>5. Key(rec) = SeqKey(Start(m))
      BY <2>2, <3>3 DEF Key, SeqKey
    <3> QED BY <1>4, <3>4, <3>5 DEF Remembered
  <2> QED BY <1>4, <2>1, <2>2 DEF Repeated
<1>5. lapses \in Nat
  BY DEF Types
<1> QED
  BY <1>2, <1>4, <1>5 DEF rec

LEMMA RememberedConsume ==
    ASSUME Types, Remembered, Consume
    PROVE  Remembered'
<1> SUFFICES ASSUME lapses' = 0
             PROVE  /\ \A i \in 1..Len(recent') : /\ SeqKey(Start(recent'[i].msg)) \in seen'
                                                  /\ <<"req", recent'[i].req>> \in seen'
                    /\ \A i \in 1..Len(pending') : <<"req", pending'[i]>> \in seen'
  BY DEF Remembered
<1>1. lapses = 0 /\ seen' = seen \cup {Key(ring[1])} /\ ring[1] \in Kept
  BY ConsumeReads
<1>2. /\ \A i \in 1..Len(recent) : /\ SeqKey(Start(recent[i].msg)) \in seen
                                   /\ <<"req", recent[i].req>> \in seen
      /\ \A i \in 1..Len(pending) : <<"req", pending[i]>> \in seen
  BY <1>1 DEF Remembered
<1>3. ASSUME NEW i \in 1..Len(recent')
      PROVE  SeqKey(Start(recent'[i].msg)) \in seen' /\ <<"req", recent'[i].req>> \in seen'
  <2>1. CASE i \in 1..Len(recent)
    BY <1>1, <1>2, <2>1, RecentRead
  <2>2. CASE i \notin 1..Len(recent)
    <3>1. i > Len(recent)
      BY <2>2, RecentRead
    <3>2. PICK m \in Msgs, e \in Pairs : ReadPaired(m, e) /\ recent'[i] = e
      BY <3>1, RecentRead
    <3>3. Key(ring[1]) = SeqKey(Start(m)) /\ recent'[i].msg = m
      BY <3>2 DEF ReadPaired, Key, SeqKey, Data
    <3>4. pending # <<>> /\ recent'[i].req = pending[1]
      BY <3>2 DEF ReadPaired
    <3>5. 1 \in 1..Len(pending)
      BY <3>4 DEF Types
    <3> QED BY <1>1, <1>2, <3>3, <3>4, <3>5
  <2> QED BY <2>1, <2>2
<1>4. ASSUME NEW i \in 1..Len(pending')
      PROVE  <<"req", pending'[i]>> \in seen'
  <2>1. CASE \E j \in 1..Len(pending) : pending'[i] = pending[j]
    BY <1>1, <1>2, <2>1
  <2>2. CASE ReadRequest /\ pending'[i] = ring[1].msg
    <3>1. ring[1].kind = "request"
      BY <2>2 DEF ReadRequest, Data
    <3> QED BY <1>1, <2>2, <3>1 DEF Key
  <2> QED BY <2>1, <2>2, PendingRead
<1> QED
  BY <1>3, <1>4

LEMMA RememberedHolds == Spec => []Remembered
<1>1. Init => Remembered
  BY DEF Init, Remembered
<1>2. Types /\ Remembered /\ [Next]_vars => Remembered'
  <2> SUFFICES ASSUME Types, Remembered, [Next]_vars PROVE Remembered'
    OBVIOUS
  <2>1. ASSUME NEW seg \in Segments, Sight(seg) PROVE Remembered'
    BY <2>1 DEF Sight, js, Remembered
  <2>2. ASSUME NEW m \in Msgs, SightRequest(m) PROVE Remembered'
    BY <2>2 DEF SightRequest, js, Remembered
  <2>3. CASE WindowEvicted
    BY <2>3 DEF WindowEvicted, js, Remembered
  <2>4. CASE Consume
    BY <2>4, RememberedConsume
  <2>5. ASSUME NEW n \in 1..Len(recent), Drain(n) PROVE Remembered'
    BY <2>5, DrainKeeps DEF Remembered
  <2>6. CASE Lapse
    BY <2>6, LapseForgets DEF Types, Remembered
  <2>7. CASE UNCHANGED vars
    BY <2>7 DEF vars, js, past, Remembered
  <2> QED BY <2>1, <2>2, <2>3, <2>4, <2>5, <2>6, <2>7 DEF Next
<1> QED
  BY <1>1, <1>2, TypesHold, PTL DEF Spec

LEMMA PairingSight ==
    ASSUME Types, Order, PairingInv, NEW seg \in Segments, Sight(seg)
    PROVE  PairingInv'
<1>1. /\ UNCHANGED <<seen, pending, recent, slot, asked, lapses>> /\ asked \in Msgs
      /\ Len(ring) \in Nat /\ Len(ring') \in Nat /\ Len(ring) <= Len(ring')
      /\ \A i \in 1..Len(ring) : ring'[i] = ring[i]
  BY SightAdds
<1>2. \A i \in 1..Len(ring') : i > Len(ring) => ring'[i] \in DataRecords /\ In(ring'[i].seq, asked)
  BY SightAdds
<1>3. \/ ~Wanted(seg) /\ UNCHANGED <<kernel, cuts, slips>>
      \/ ~IsFirst(seg) /\ UNCHANGED slips
      \/ \E want \in Nat \ {0}, fit \in Nat : want <= seg.len /\ Shipped(seg, want, fit)
  BY SightShips
<1>4. slips \subseteq slips'
  BY <1>3 DEF Shipped
<1>5. asked \in Nat /\ inOrder \in Nat /\ \A b \in Msgs : b \in Nat
  BY <1>1, MsgsAreNat DEF Types
<1>6. OfResponse(seg, asked)
  BY DEF Sight
\* A response that is sighted for the first time leaves its first record.
<1>7. ASSUME slips' = {}, inOrder' > 0, inOrder = 0
      PROVE  Started(ring', asked, Len(ring'))
  <2>1. seg.seq \in Nat /\ seg.len \in Nat \ {0} /\ (IsFirst(seg) <=> seg.seq = Start(asked))
        /\ Start(asked) \in Nat
    BY <1>1, <1>6, SegmentFacts, ResponseFacts
  <2>2. IsFirst(seg)
    BY <1>7, <2>1, SightShips
  <2>3. Wanted(seg)
    BY <2>2 DEF Wanted
  <2>4. PICK want \in Nat \ {0}, fit \in Nat : want <= seg.len /\ Shipped(seg, want, fit)
    BY <1>3, <2>2, <2>3
  <2>5. fit # 0
    BY <1>7, <2>2, <2>4 DEF Shipped
  <2>6. ring'[Len(ring) + 1] = Chunk(seg, want, 1) /\ Chunk(seg, want, 1) \in DataRecords
        /\ Len(ring') = Len(ring) + fit
    <3>1. 1 \in 1..fit
      BY <2>5
    <3> QED BY <1>1, <1>6, <2>4, <3>1, ShippedRecords
  <2>7. Chunk(seg, want, 1).seq = seg.seq
    BY <2>1, ConstantFacts DEF Chunk
  <2>8. Data(ring'[Len(ring) + 1]) /\ ring'[Len(ring) + 1].seq = Start(asked)
        /\ Len(ring) + 1 \in 1..Len(ring')
    BY <1>1, <2>1, <2>2, <2>5, <2>6, <2>7, RecordKinds
  <2> QED BY <2>8 DEF Started
<1>8. ASSUME NEW b \in Msgs, NEW i \in 0..Len(ring), NEW k \in Nat, i <= k, Started(ring, b, i)
      PROVE  Started(ring', b, k)
  BY <1>1, <1>8 DEF Started
<1> SUFFICES ASSUME slips' = {}, slips = {}
             PROVE  /\ Len(pending') <= 1
                    /\ \A b \in Msgs : (InPending(b) \/ InRing(b))' => WaitsAt(b)'
                    /\ \A i \in 1..Len(recent') : recent'[i].msg = recent'[i].req
                    /\ \A i, j \in 1..Len(recent') : recent'[i].msg = recent'[j].msg => i = j
  BY <1>4 DEF PairingInv
<1>9. /\ Len(pending') <= 1
      /\ \A i \in 1..Len(recent') : recent'[i].msg = recent'[i].req
      /\ \A i, j \in 1..Len(recent') : recent'[i].msg = recent'[j].msg => i = j
  BY <1>1 DEF PairingInv
<1>10. ASSUME NEW b \in Msgs, (InPending(b) \/ InRing(b))'
       PROVE  WaitsAt(b)'
  <2>1. InPending(b) \/ InRing(b)
    <3>1. CASE InPending(b)'
      BY <1>1, <3>1 DEF InPending
    <3>2. CASE InRing(b)'
      <4>1. PICK i \in 1..Len(ring') : ~Data(ring'[i]) /\ ring'[i].msg = b
        BY <3>2 DEF InRing
      <4>2. ~(i > Len(ring))
        BY <1>2, <4>1, RecordKinds
      <4> QED BY <1>1, <4>1, <4>2 DEF InRing
    <3> QED BY <1>10, <3>1, <3>2
  <2>2. WaitsAt(b)
    BY <2>1 DEF PairingInv
  <2>3. ASSUME NEW j \in 1..Len(ring'), NEW n \in Msgs, Of(ring'[j], n), n > b
        PROVE  Started(ring', b, j - 1)
    <3>1. CASE j > Len(ring)
      <4>1. ring'[j] \in Kept /\ Of(ring'[j], asked)
        BY <1>2, <3>1, RecordKinds DEF Of
      <4>2. n = asked
        BY <1>1, <2>3, <4>1, OfUnique
      <4>3. Started(ring, b, Len(ring))
        BY <2>2, <2>3, <4>2 DEF WaitsAt
      <4> QED BY <1>1, <1>8, <3>1, <4>3
    <3>2. CASE ~(j > Len(ring))
      <4>1. j \in 1..Len(ring) /\ ring'[j] = ring[j]
        BY <1>1, <3>2
      <4>2. Started(ring, b, j - 1)
        BY <2>2, <2>3, <4>1 DEF WaitsAt
      <4> QED BY <1>1, <1>8, <4>1, <4>2
    <3> QED BY <3>1, <3>2
  <2>4. ASSUME asked' > b \/ (asked' = b /\ inOrder' > 0)
        PROVE  Started(ring', b, Len(ring'))
    <3>1. CASE asked > b \/ (asked = b /\ inOrder > 0)
      BY <1>1, <1>8, <2>2, <3>1 DEF WaitsAt
    <3>2. CASE ~(asked > b \/ (asked = b /\ inOrder > 0))
      BY <1>1, <1>5, <1>7, <2>4, <3>2
    <3> QED BY <3>1, <3>2
  <2>5. InPending(b)' => NoPair(b)' /\ SeqKey(Start(b)) \notin seen'
    BY <1>1, <2>2 DEF WaitsAt, InPending, NoPair
  <2> QED BY <2>3, <2>4, <2>5 DEF WaitsAt
<1> QED
  BY <1>9, <1>10

LEMMA PairingRequest ==
    ASSUME Types, Order, PairingInv, NEW k \in Msgs, SightRequest(k)
    PROVE  PairingInv'
<1> SUFFICES ASSUME slips' = {}
             PROVE  /\ Len(pending') <= 1
                    /\ \A b \in Msgs : (InPending(b) \/ InRing(b))' => WaitsAt(b)'
                    /\ \A i \in 1..Len(recent') : recent'[i].msg = recent'[i].req
                    /\ \A i, j \in 1..Len(recent') : recent'[i].msg = recent'[j].msg => i = j
  BY DEF PairingInv
<1>1. /\ k = asked + 1 \/ (k = asked /\ inOrder = 0)
      /\ asked' = k /\ inOrder' = 0
      /\ UNCHANGED <<win, seen, pending, recent, slot>>
      /\ asked \in Nat /\ k \in Nat /\ Len(ring) \in Nat /\ asked \in 0..Len(Responses)
  BY MsgsAreNat, ResponsesAreFinite DEF SightRequest, js, Types
<1>2. /\ slips = {} /\ Len(ring) < RingSize
      /\ ~(asked \in Msgs /\ k # asked /\ inOrder = 0)
      /\ ring' = Append(ring, [kind |-> "request", msg |-> k])
  <2>1. slips' = slips \cup {why \in {"ring"} : Len(ring) >= RingSize}
                       \cup {why \in {"unseen"} : asked \in Msgs /\ k # asked /\ inOrder = 0}
    BY DEF SightRequest
  <2>2. slips = {} /\ ~(Len(ring) >= RingSize) /\ ~(asked \in Msgs /\ k # asked /\ inOrder = 0)
    BY <2>1
  <2> QED BY <1>1, <2>2, ConstantFacts DEF SightRequest
<1>3. /\ Len(ring') = Len(ring) + 1
      /\ \A i \in 1..Len(ring) : ring'[i] = ring[i]
      /\ ~Data(ring'[Len(ring) + 1]) /\ ring'[Len(ring) + 1].msg = k
  <2> DEFINE rq == [kind |-> "request", msg |-> k]
  <2>1. ~Data(rq) /\ rq.msg = k /\ ring' = Append(ring, rq)
    BY <1>2 DEF Data
  <2> HIDE DEF rq
  <2>2. ring \in Seq(Kept)
    BY DEF Types
  <2> QED BY <2>1, <2>2
<1>4. \A b \in Msgs : b \in Nat
  BY MsgsAreNat
<1>5. /\ Len(pending') <= 1
      /\ \A i \in 1..Len(recent') : recent'[i].msg = recent'[i].req
      /\ \A i, j \in 1..Len(recent') : recent'[i].msg = recent'[j].msg => i = j
  BY <1>1, <1>2 DEF PairingInv
<1>6. ASSUME NEW b \in Msgs, NEW i \in 0..Len(ring), NEW j \in Nat, i <= j, Started(ring, b, i)
      PROVE  Started(ring', b, j)
  BY <1>3, <1>6 DEF Started
<1>7. ASSUME NEW b \in Msgs, (InPending(b) \/ InRing(b))'
      PROVE  WaitsAt(b)'
  \* the request that is being sent: nothing after it is there
  <2>1. CASE b = k
    <3>1. ASSUME NEW j \in 1..Len(ring'), NEW n \in Msgs, Of(ring'[j], n), n > k
          PROVE  FALSE
      <4>1. CASE j = Len(ring) + 1
        BY <1>3, <3>1, <4>1, <1>4 DEF Of
      <4>2. CASE j # Len(ring) + 1
        <5>1. j \in 1..Len(ring) /\ ring'[j] = ring[j]
          BY <1>1, <1>3, <4>2
        <5> QED BY <1>1, <1>4, <3>1, <5>1 DEF Order, RingAsked
      <4> QED BY <4>1, <4>2
    <3>2. ~(asked' > k \/ (asked' = k /\ inOrder' > 0))
      BY <1>1
    <3>3. InPending(k)' => NoPair(k)' /\ SeqKey(Start(k)) \notin seen'
      <4> SUFFICES ASSUME InPending(k) PROVE NoPair(k) /\ SeqKey(Start(k)) \notin seen
        BY <1>1 DEF InPending, NoPair
      <4> QED BY <1>2 DEF PairingInv, WaitsAt
    <3> QED BY <2>1, <3>1, <3>2, <3>3 DEF WaitsAt
  <2>2. CASE b # k
    <3>1. InPending(b) \/ InRing(b)
      <4>1. CASE InPending(b)'
        BY <1>1, <4>1 DEF InPending
      <4>2. CASE InRing(b)'
        <5>1. PICK i \in 1..Len(ring') : ~Data(ring'[i]) /\ ring'[i].msg = b
          BY <4>2 DEF InRing
        <5>2. i \in 1..Len(ring) /\ ring'[i] = ring[i]
          BY <1>1, <1>3, <2>2, <5>1
        <5> QED BY <5>1, <5>2 DEF InRing
      <4> QED BY <1>7, <4>1, <4>2
    <3>2. WaitsAt(b)
      BY <1>2, <3>1 DEF PairingInv
    <3>3. b <= asked /\ b \in Msgs
      <4>1. CASE InPending(b)
        BY <4>1 DEF InPending, Order, PendingOrder
      <4>2. CASE InRing(b)
        <5>1. PICK i \in 1..Len(ring) : ~Data(ring[i]) /\ ring[i].msg = b
          BY <4>2 DEF InRing
        <5>2. Of(ring[i], b)
          BY <5>1 DEF Of
        <5> QED BY <5>2 DEF Order, RingAsked
      <4> QED BY <3>1, <4>1, <4>2
    <3>4. asked > b \/ (asked = b /\ inOrder > 0)
      <4>1. ASSUME asked = b PROVE inOrder > 0
        <5>1. inOrder # 0
          BY <1>2, <2>2, <4>1
        <5> QED BY <5>1 DEF Types
      <4> QED BY <1>1, <1>4, <3>3, <4>1
    <3>5. Started(ring, b, Len(ring))
      BY <3>2, <3>4 DEF WaitsAt
    <3>6. Started(ring', b, Len(ring')) /\ Started(ring', b, Len(ring))
      BY <1>1, <1>3, <1>6, <3>5
    <3>7. ASSUME NEW j \in 1..Len(ring'), NEW n \in Msgs, Of(ring'[j], n), n > b
          PROVE  Started(ring', b, j - 1)
      <4>1. CASE j = Len(ring) + 1
        BY <1>1, <3>6, <4>1
      <4>2. CASE j # Len(ring) + 1
        <5>1. j \in 1..Len(ring) /\ ring'[j] = ring[j]
          BY <1>1, <1>3, <4>2
        <5>2. Started(ring, b, j - 1)
          BY <3>2, <3>7, <5>1 DEF WaitsAt
        <5> QED BY <1>1, <1>6, <5>1, <5>2
      <4> QED BY <4>1, <4>2
    <3>8. InPending(b)' => NoPair(b)' /\ SeqKey(Start(b)) \notin seen'
      BY <1>1, <3>2 DEF WaitsAt, InPending, NoPair
    <3> QED BY <3>6, <3>7, <3>8 DEF WaitsAt
  <2> QED BY <2>1, <2>2
<1> QED
  BY <1>5, <1>7

LEMMA PairingConsume ==
    ASSUME Types, Order, Remembered, PairingInv, Consume
    PROVE  PairingInv'
<1> DEFINE rec == ring[1]
<1> SUFFICES ASSUME slips' = {}
             PROVE  /\ Len(pending') <= 1
                    /\ \A b \in Msgs : (InPending(b) \/ InRing(b))' => WaitsAt(b)'
                    /\ \A i \in 1..Len(recent') : recent'[i].msg = recent'[i].req
                    /\ \A i, j \in 1..Len(recent') : recent'[i].msg = recent'[j].msg => i = j
  BY DEF PairingInv
<1>1. /\ Len(pending) <= 1
      /\ \A b \in Msgs : InPending(b) \/ InRing(b) => WaitsAt(b)
      /\ \A i \in 1..Len(recent) : recent[i].msg = recent[i].req
      /\ \A i, j \in 1..Len(recent) : recent[i].msg = recent[j].msg => i = j
      /\ Key(rec) \notin seen => ~Repeated(rec)
  BY NotRepeated DEF PairingInv
<1>2. /\ rec \in Kept /\ Len(ring) \in Nat \ {0} /\ Len(ring') = Len(ring) - 1
      /\ \A i \in 1..Len(ring') : ring'[i] = ring[i + 1]
      /\ UNCHANGED <<asked, inOrder>>
      /\ seen' = seen \cup {Key(rec)}
  BY ConsumeReads
<1>3. pending \in Seq(Msgs) /\ Len(pending) \in Nat
  BY DEF Types
<1>4. \A b \in Msgs : b \in Nat
  BY MsgsAreNat
<1>5. 1 \in 1..Len(ring)
  BY <1>2
<1> HIDE DEF rec
\* Nothing can be read of a later message while a request waits.
<1>6. ASSUME NEW b \in Msgs, InPending(b) \/ InRing(b), NEW n \in Msgs, Of(rec, n)
      PROVE  n <= b
  <2>1. ~Started(ring, b, 1 - 1)
    BY DEF Started
  <2> QED BY <1>1, <1>4, <1>5, <1>6, <2>1 DEF WaitsAt, rec
\* The request that pairs is the response's own.
<1>7. ASSUME NEW m \in Msgs, Of(rec, m), pending # <<>>
      PROVE  pending[1] = m /\ InPending(m) /\ Tail(pending) = <<>> /\ 1 \in 1..Len(pending)
  <2>1. 1 \in 1..Len(pending) /\ pending[1] \in Msgs /\ InPending(pending[1])
    BY <1>3, <1>7 DEF InPending
  <2>2. pending[1] <= m
    BY <1>5, <1>7, <2>1 DEF Order, PendingOrder, rec
  <2>3. m <= pending[1]
    BY <1>6, <1>7, <2>1
  <2>4. pending[1] = m
    BY <1>4, <2>1, <2>2, <2>3
  <2>5. Tail(pending) = <<>>
    BY <1>1, <1>3, <1>7
  <2> QED BY <2>1, <2>4, <2>5
\* What waits after the read waited before.
<1>8. ASSUME NEW b \in Msgs, (InPending(b) \/ InRing(b))'
      PROVE  InPending(b) \/ InRing(b)
  <2>1. CASE InPending(b)'
    <3>1. PICK i \in 1..Len(pending') : pending'[i] = b
      BY <2>1 DEF InPending
    <3>2. CASE \E j \in 1..Len(pending) : pending'[i] = pending[j]
      BY <3>1, <3>2 DEF InPending
    <3>3. CASE ReadRequest /\ pending'[i] = rec.msg
      BY <1>5, <3>1, <3>3 DEF ReadRequest, InRing, rec
    <3> QED BY <3>2, <3>3, PendingRead DEF rec
  <2>2. CASE InRing(b)'
    <3>1. PICK i \in 1..Len(ring') : ~Data(ring'[i]) /\ ring'[i].msg = b
      BY <2>2 DEF InRing
    <3>2. i + 1 \in 1..Len(ring) /\ ring'[i] = ring[i + 1]
      BY <1>2, <3>1
    <3> QED BY <3>1, <3>2 DEF InRing
  <2> QED BY <1>8, <2>1, <2>2
\* A response whose request still waits after the read is not the one that was read.
<1>9. ASSUME NEW b \in Msgs, (InPending(b) \/ InRing(b))', Data(rec), rec.seq = Start(b)
      PROVE  FALSE
  <2>1. Of(rec, b) /\ Key(rec) = SeqKey(Start(b))
    BY <1>9, ResponseFacts DEF Of, Key, SeqKey, Data
  <2>2. ~InRing(b)
    <3> SUFFICES ASSUME NEW i \in 1..Len(ring), ~Data(ring[i]), ring[i].msg = b PROVE FALSE
      BY DEF InRing
    <3>1. Of(ring[i], b) /\ i # 1
      BY <1>9 DEF Of, rec
    <3>2. 1 < i
      BY <1>2, <3>1
    <3> QED BY <1>4, <1>5, <1>9, <2>1, <3>1, <3>2 DEF Order, RingOrder, rec
  <2>3. InPending(b)
    BY <1>8, <1>9, <2>2
  <2>4. Key(rec) \notin seen
    BY <1>1, <2>1, <2>3 DEF WaitsAt
  <2>5. pending # <<>>
    BY <1>3, <2>3 DEF InPending
  <2>6. ~InRing(b)'
    <3> SUFFICES ASSUME NEW i \in 1..Len(ring'), ~Data(ring'[i]), ring'[i].msg = b PROVE FALSE
      BY DEF InRing
    <3>1. i + 1 \in 1..Len(ring) /\ ring'[i] = ring[i + 1]
      BY <1>2
    <3> QED BY <2>2, <3>1 DEF InRing
  <2>7. pending' = Tail(pending)
    BY <1>9, <2>4, <2>5, ConsumeReads
       DEF rec, ReadAgain, ReadRequest, ReadLoose, ReadBody, ReadUnpaired, ReadPaired, ReadStitched
  <2>8. ~InPending(b)'
    <3>1. pending' = <<>>
      BY <1>7, <2>1, <2>5, <2>7
    <3>2. Len(pending') = 0
      BY <3>1
    <3> QED BY <3>2 DEF InPending
  <2> QED BY <1>9, <2>6, <2>8
<1>10. Len(pending') <= 1
  <2>1. CASE UNCHANGED pending
    BY <1>1, <2>1
  <2>2. CASE pending # <<>> /\ pending' = Tail(pending)
    BY <1>1, <1>3, <2>2
  <2>3. CASE ReadRequest
    <3>1. pending = <<>>
      <4> SUFFICES ASSUME pending # <<>> PROVE FALSE
        OBVIOUS
      <4>1. Of(rec, rec.msg) /\ rec.msg \in Msgs /\ rec.kind = "request"
        BY <1>2, <2>3, RecordKinds DEF ReadRequest, Of, rec
      <4>2. pending[1] = rec.msg /\ 1 \in 1..Len(pending)
        BY <1>7, <4>1
      <4> QED BY <1>1, <2>3, <4>1, <4>2 DEF ReadRequest, Repeated, rec
    <3> QED BY <2>3, <3>1 DEF ReadRequest
  <2> QED BY <2>1, <2>2, <2>3, ConsumeReads DEF ReadAgain, ReadLoose, ReadUnpaired, ReadPaired, ReadStitched
<1>11. ASSUME NEW b \in Msgs, (InPending(b) \/ InRing(b))'
       PROVE  WaitsAt(b)'
  <2>1. WaitsAt(b)
    BY <1>1, <1>8, <1>11
  <2>2. ASSUME NEW i \in Nat, i < Len(ring), Started(ring, b, i + 1)
        PROVE  Started(ring', b, i)
    <3>1. PICK r \in 1..(i + 1) : Data(ring[r]) /\ ring[r].seq = Start(b)
      BY <2>2 DEF Started
    <3>2. r # 1
      BY <1>9, <1>11, <3>1 DEF rec
    <3>3. r - 1 \in 1..i /\ r - 1 \in 1..Len(ring') /\ ring'[r - 1] = ring[r]
      BY <1>2, <2>2, <3>1, <3>2
    <3> QED BY <3>1, <3>3 DEF Started
  <2>3. ASSUME NEW j \in 1..Len(ring'), NEW n \in Msgs, Of(ring'[j], n), n > b
        PROVE  Started(ring', b, j - 1)
    <3>1. j + 1 \in 1..Len(ring) /\ ring'[j] = ring[j + 1]
      BY <1>2
    <3>2. Started(ring, b, (j + 1) - 1)
      BY <2>1, <2>3, <3>1 DEF WaitsAt
    <3>3. j - 1 \in Nat /\ j - 1 < Len(ring) /\ (j + 1) - 1 = (j - 1) + 1
      BY <1>2, <3>1
    <3> QED BY <2>2, <3>2, <3>3
  <2>4. ASSUME asked' > b \/ (asked' = b /\ inOrder' > 0)
        PROVE  Started(ring', b, Len(ring'))
    <3>1. Started(ring, b, Len(ring))
      BY <1>2, <2>1, <2>4 DEF WaitsAt
    <3>2. Len(ring') \in Nat /\ Len(ring') < Len(ring) /\ Len(ring) = Len(ring') + 1
      BY <1>2
    <3> QED BY <2>2, <3>1, <3>2
  <2>5. ASSUME InPending(b)'
        PROVE  NoPair(b)' /\ SeqKey(Start(b)) \notin seen'
    <3>1. NoPair(b) /\ SeqKey(Start(b)) \notin seen
      <4>1. CASE InPending(b)
        BY <2>1, <4>1 DEF WaitsAt
      <4>2. CASE ~InPending(b)
        <5>1. ReadRequest /\ rec.msg = b
          <6>1. PICK i \in 1..Len(pending') : pending'[i] = b
            BY <2>5 DEF InPending
          <6> QED BY <4>2, <6>1, PendingRead DEF InPending, rec
        <5>2. rec.kind = "request" /\ Of(rec, b) /\ ~Data(rec)
          BY <5>1 DEF ReadRequest, Data, Of, rec
        <5>3. \A i \in 1..Len(recent) : recent[i].req # b
          BY <1>1, <5>1, <5>2 DEF ReadRequest, Repeated, rec
        <5>4. NoPair(b)
          BY <1>1, <5>3 DEF NoPair
        <5>5. SeqKey(Start(b)) \notin seen
          <6>1. In(Start(b), b) /\ Start(b) \in Nat
            BY ResponseFacts
          <6> QED BY <1>4, <1>5, <5>2, <6>1 DEF Order, SeenOrder, rec
        <5> QED BY <5>4, <5>5
      <4> QED BY <4>1, <4>2
    <3>2. SeqKey(Start(b)) # Key(rec)
      BY <1>9, <2>5 DEF SeqKey, Key, Data
    <3>3. NoPair(b)'
      <4> SUFFICES ASSUME NEW i \in 1..Len(recent'), recent'[i].msg = b PROVE FALSE
        BY DEF NoPair
      <4>1. i > Len(recent)
        BY <3>1, RecentRead DEF NoPair
      <4>2. PICK m \in Msgs, e \in Pairs : ReadPaired(m, e) /\ recent'[i] = e
        BY <4>1, RecentRead
      <4>3. m = b /\ Data(rec) /\ rec.seq = Start(b)
        BY <4>2 DEF ReadPaired, rec
      <4> QED BY <1>9, <2>5, <4>3
    <3> QED BY <1>2, <3>1, <3>2, <3>3
  <2> QED BY <2>3, <2>4, <2>5 DEF WaitsAt
<1>12. ASSUME NEW m \in Msgs, NEW e \in Pairs, ReadPaired(m, e)
       PROVE  e.msg = m /\ e.req = m /\ NoPair(m)
  <2>1. Of(rec, m)
    BY <1>12, ResponseFacts DEF ReadPaired, Of, rec
  <2>2. pending[1] = m /\ InPending(m)
    BY <1>7, <1>12, <2>1 DEF ReadPaired
  <2> QED BY <1>1, <1>12, <2>2 DEF ReadPaired, WaitsAt
<1>13. \A i \in 1..Len(recent') : recent'[i].msg = recent'[i].req
  <2> SUFFICES ASSUME NEW i \in 1..Len(recent') PROVE recent'[i].msg = recent'[i].req
    OBVIOUS
  <2>1. CASE i > Len(recent)
    BY <1>12, <2>1, RecentRead
  <2>2. CASE ~(i > Len(recent))
    <3>1. i \in 1..Len(recent)
      BY <2>2, RecentRead
    <3> QED BY <1>1, <3>1, RecentRead
  <2> QED BY <2>1, <2>2
<1>14. \A i, j \in 1..Len(recent') : recent'[i].msg = recent'[j].msg => i = j
  <2> SUFFICES ASSUME NEW i \in 1..Len(recent'), NEW j \in 1..Len(recent'),
                      recent'[i].msg = recent'[j].msg, i <= j
               PROVE  i = j
    <3>1. \A i, j \in 1..Len(recent') : i <= j \/ j <= i
      OBVIOUS
    <3> QED BY <3>1
  <2>1. CASE j \in 1..Len(recent)
    <3>1. i \in 1..Len(recent)
      BY <2>1
    <3> QED BY <1>1, <2>1, <3>1, RecentRead
  <2>2. CASE j \notin 1..Len(recent)
    <3>1. j > Len(recent) /\ j = Len(recent) + 1
      BY <2>2, RecentRead
    <3>2. PICK m \in Msgs, e \in Pairs : ReadPaired(m, e) /\ recent'[j] = e
      BY <3>1, RecentRead
    <3>3. recent'[j].msg = m /\ NoPair(m)
      BY <1>12, <3>2
    <3>4. i \notin 1..Len(recent)
      BY <3>3, RecentRead DEF NoPair
    <3>5. i > Len(recent) /\ i = Len(recent) + 1
      BY <3>4, RecentRead
    <3> QED BY <3>1, <3>5
  <2> QED BY <2>1, <2>2
<1> QED
  BY <1>10, <1>11, <1>13, <1>14

\* PairedOnce of Capture.tla: with nothing lost and nothing forgotten, a response makes one
\* pair, and the pair is with its own request.
THEOREM OneResponseOnePair == Spec => []PairedOnce
<1>1. Init => PairingInv
  BY DEF Init, PairingInv, InPending, InRing
<1>2. Types /\ Order /\ Remembered /\ PairingInv /\ [Next]_vars => PairingInv'
  <2> SUFFICES ASSUME Types, Order, Remembered, PairingInv, [Next]_vars PROVE PairingInv'
    OBVIOUS
  <2>1. ASSUME NEW seg \in Segments, Sight(seg) PROVE PairingInv'
    BY <2>1, PairingSight
  <2>2. ASSUME NEW m \in Msgs, SightRequest(m) PROVE PairingInv'
    BY <2>2, PairingRequest
  <2> USE DEF PairingInv, InPending, InRing, WaitsAt, NoPair
  <2>3. CASE WindowEvicted
    BY <2>3 DEF WindowEvicted, js
  <2>4. CASE Consume
    BY <2>4, PairingConsume
  <2>5. ASSUME NEW n \in 1..Len(recent), Drain(n) PROVE PairingInv'
    <3>1. /\ UNCHANGED <<ring, seen, pending, asked, inOrder, slips>>
          /\ Len(recent') = Len(recent)
          /\ \A i \in 1..Len(recent) : recent'[i].msg = recent[i].msg /\ recent'[i].req = recent[i].req
      BY <2>5, DrainKeeps
    <3> QED BY <3>1
  <2>6. CASE Lapse
    BY <2>6, LapseForgets
  <2>7. CASE UNCHANGED vars
    BY <2>7 DEF vars, kernel, js, past
  <2> QED BY <2>1, <2>2, <2>3, <2>4, <2>5, <2>6, <2>7 DEF Next
<1>3. PairingInv => PairedOnce
  BY DEF PairingInv, PairedOnce
<1> QED
  BY <1>1, <1>2, <1>3, TypesHold, OrderHolds, RememberedHolds, PTL DEF Spec

-----------------------------------------------------------------------------
(* The pair that a continuation goes to.                                     *)

\* A pair whose bytes somebody will read, or did since nothing has lapsed.
Current(e) == e.out = Nothing \/ (e.msg = asked /\ <<asked, "age">> \notin cuts)
WinIn(m) == win # Nothing /\ asked = m /\ Start(m) < win.next

SlotInv == slot # 0 =>
    /\ slot = Len(recent) /\ ~Full(recent[slot]) /\ Taken(recent[slot]) > 0
    /\ Current(recent[slot]) =>
          /\ SeqKey(Start(recent[slot].msg)) \in seen
          /\ \A m \in Msgs : m > recent[slot].msg => SeqKey(Start(m)) \notin seen

\* What stitching adds to a pair that collects: the record's positions, all of them unless
\* that fills the pair.
LEMMA Grows ==
    ASSUME NEW e \in Pairs, ~Full(e), NEW rec \in DataRecords
    PROVE  /\ Taken(e) \in Nat /\ Taken(Fed(e, rec)) \in Nat /\ Taken(e) <= Taken(Fed(e, rec))
           /\ \A j \in 1..Taken(e) : Fed(e, rec).got[j] = e.got[j]
           /\ \A j \in 1..Taken(Fed(e, rec)) : j > Taken(e) =>
                 /\ Fed(e, rec).got[j] = rec.seq + (j - Taken(e)) - 1
                 /\ j - Taken(e) \in 1..rec.len
           /\ ~Full(Fed(e, rec)) => Taken(Fed(e, rec)) = Taken(e) + rec.len
<1> DEFINE got == e.got \o Positions(rec)
           most == IF Len(got) < HeadLen(e.msg) THEN HeadMax ELSE HeadLen(e.msg) + BodyMax
           k == Least(Len(got), most)
<1>1. /\ e.got \in Seq(Nat) /\ e.msg \in Msgs
      /\ rec.len \in Nat \ {0} /\ rec.seq \in Nat
      /\ Positions(rec) \in Seq(Nat) /\ Len(Positions(rec)) = rec.len
  BY StitchType, RecordKinds DEF Pairs
<1>2. /\ HeadLen(e.msg) \in Nat \ {0} /\ HeadMax \in Nat \ {0} /\ BodyMax \in Nat \ {0}
  BY <1>1, ResponseFacts, ConstantFacts
<1>3. Taken(e) = Len(e.got) /\ Taken(e) \in Nat
  BY <1>1 DEF Taken
<1>4. got \in Seq(Nat) /\ Len(got) = Taken(e) + rec.len
  <2>1. Len(got) = Len(e.got) + Len(Positions(rec)) /\ got \in Seq(Nat)
    BY <1>1, ConcatProperties
  <2> QED BY <1>1, <1>3, <2>1
<1>5. \A j \in 1..Len(got) : got[j] = IF j <= Taken(e) THEN e.got[j] ELSE Positions(rec)[j - Taken(e)]
  BY <1>1, <1>3
<1>6. \A j \in 1..rec.len : Positions(rec)[j] = rec.seq + j - 1
  BY DEF Positions
<1>7. Fed(e, rec).got = SubSeq(got, 1, k) /\ Fed(e, rec).msg = e.msg
  BY StitchType DEF Fed, Pairs
<1> HIDE DEF got
<1>8. most \in Nat /\ Taken(e) <= most
  <2>1. (Taken(e) < HeadLen(e.msg) => Taken(e) < HeadMax) /\ Taken(e) < HeadLen(e.msg) + BodyMax
    BY <1>2, <1>3 DEF Full
  <2>2. Taken(e) <= Len(got)
    BY <1>1, <1>3, <1>4
  <2>3. CASE Len(got) < HeadLen(e.msg)
    BY <1>2, <1>3, <1>4, <2>1, <2>2, <2>3
  <2>4. CASE ~(Len(got) < HeadLen(e.msg))
    BY <1>2, <1>3, <2>1, <2>4
  <2> QED BY <2>3, <2>4
<1>9. /\ k \in Nat /\ k <= Len(got) /\ Taken(e) <= k
      /\ k = Len(got) \/ (k = most /\ k < Len(got))
  <2> HIDE DEF most
  <2> QED BY <1>1, <1>3, <1>4, <1>8 DEF Least
<1>10. Len(Fed(e, rec).got) = k /\ \A j \in 1..k : Fed(e, rec).got[j] = got[j]
  <2> HIDE DEF k
  <2> QED BY <1>4, <1>7, <1>9
<1>11. Taken(Fed(e, rec)) = k
  BY <1>10 DEF Taken
<1>12. ~Full(Fed(e, rec)) => k = Len(got)
  <2> SUFFICES ASSUME k # Len(got) PROVE Full(Fed(e, rec))
    OBVIOUS
  <2>1. k = most /\ k < Len(got)
    BY <1>9
  <2> HIDE DEF k
  <2>2. CASE Len(got) < HeadLen(e.msg)
    BY <1>2, <1>4, <1>1, <1>3, <1>7, <1>11, <2>1, <2>2 DEF Full
  <2>3. CASE ~(Len(got) < HeadLen(e.msg))
    BY <1>2, <1>4, <1>1, <1>3, <1>7, <1>11, <2>1, <2>3 DEF Full
  <2> QED BY <2>2, <2>3
<1> HIDE DEF k, most
<1>13. ASSUME NEW j \in 1..k, j > Taken(e)
       PROVE  Fed(e, rec).got[j] = rec.seq + (j - Taken(e)) - 1 /\ j - Taken(e) \in 1..rec.len
  <2>1. j - Taken(e) \in 1..rec.len /\ j \in 1..Len(got)
    BY <1>1, <1>3, <1>4, <1>9, <1>13
  <2>2. Fed(e, rec).got[j] = Positions(rec)[j - Taken(e)]
    BY <1>3, <1>5, <1>10, <1>13, <2>1
  <2> QED BY <1>6, <2>1, <2>2
<1>14. ASSUME NEW j \in 1..Taken(e) PROVE Fed(e, rec).got[j] = e.got[j]
  <2>1. j \in 1..k /\ j \in 1..Len(got) /\ j <= Taken(e)
    BY <1>3, <1>4, <1>9
  <2> QED BY <1>5, <1>10, <2>1
<1> QED
  BY <1>3, <1>4, <1>9, <1>11, <1>12, <1>13, <1>14

\* Nothing but a lapse makes what was asked last an old story.
LEMMA CurrentStays ==
    ASSUME Types, Order, \/ \E seg \in Segments : Sight(seg)
                         \/ Consume
                         \/ WindowEvicted
    PROVE  asked' = asked /\ \A e : Current(e)' <=> Current(e)
<1>1. ASSUME NEW seg \in Segments, Sight(seg)
      PROVE  asked' = asked /\ (<<asked, "age">> \in cuts' <=> <<asked, "age">> \in cuts)
  <2>1. asked' = asked
    BY <1>1, SightAdds
  <2>2. \/ cuts' = cuts \/ cuts' = cuts \cup {<<asked, "rate">>}
        \/ \E want \in Nat \ {0}, fit \in Nat : Shipped(seg, want, fit)
    BY <1>1, SightShips
  <2>3. ASSUME NEW want \in Nat \ {0}, NEW fit \in Nat, Shipped(seg, want, fit)
        PROVE  <<asked, "age">> \in cuts' <=> <<asked, "age">> \in cuts
    BY <2>3 DEF Shipped
  <2> QED BY <2>1, <2>2, <2>3
<1>2. ASSUME Consume
      PROVE  asked' = asked /\ (<<asked, "age">> \in cuts' <=> <<asked, "age">> \in cuts)
  <2>1. /\ asked' = asked /\ cuts \subseteq cuts'
        /\ \A x \in cuts' : x \in cuts \/ x[2] \in {"flag", "room"}
    BY <1>2, ConsumeReads
  <2> QED BY <2>1
<1>3. ASSUME WindowEvicted
      PROVE  asked' = asked /\ (<<asked, "age">> \in cuts' <=> <<asked, "age">> \in cuts)
  BY <1>3 DEF WindowEvicted
<1> QED
  BY <1>1, <1>2, <1>3 DEF Current

LEMMA CurrentRequest ==
    ASSUME Types, Order, NEW k \in Msgs, SightRequest(k), NEW i \in 1..Len(recent)
    PROVE  Current(recent[i])' => Current(recent[i])
<1>1. /\ k = asked + 1 \/ (k = asked /\ inOrder = 0)
      /\ asked' = k /\ recent' = recent /\ cuts' = cuts
      /\ asked \in Nat /\ k \in Nat
  BY MsgsAreNat, ResponsesAreFinite DEF SightRequest, js, Types
<1>2. recent[i].msg \in Msgs
  <2>1. recent[i] \in Pairs
    BY DEF Types
  <2> QED BY <2>1 DEF Pairs
<1>3. recent[i].msg # k
  BY <1>1, <1>2, MsgsAreNat DEF Order, PairsAsked
<1> QED
  BY <1>1, <1>3 DEF Current

LEMMA SlotHolds == Spec => []SlotInv
<1>1. Init => SlotInv
  BY DEF Init, SlotInv
<1>2. Types /\ Order /\ SlotInv /\ [Next]_vars => SlotInv'
  <2> SUFFICES ASSUME Types, Order, SlotInv, [Next]_vars PROVE SlotInv'
    OBVIOUS
  <2>0. slot # 0 => slot \in 1..Len(recent) /\ recent[slot] \in Pairs /\ recent[slot].msg \in Msgs
    <3> SUFFICES ASSUME slot # 0
                 PROVE  slot \in 1..Len(recent) /\ recent[slot] \in Pairs /\ recent[slot].msg \in Msgs
      OBVIOUS
    <3>1. slot \in 1..Len(recent) /\ recent[slot] \in Pairs
      BY DEF Types
    <3> QED BY <3>1 DEF Pairs
  <2>1. ASSUME NEW seg \in Segments, Sight(seg) PROVE SlotInv'
    <3>1. UNCHANGED <<seen, recent, slot>> /\ \A e : Current(e)' <=> Current(e)
      BY <2>1, SightAdds, CurrentStays
    <3> QED BY <3>1 DEF SlotInv
  <2>2. ASSUME NEW k \in Msgs, SightRequest(k) PROVE SlotInv'
    <3>1. UNCHANGED <<seen, recent, slot>>
      BY <2>2 DEF SightRequest, js
    <3>2. \A i \in 1..Len(recent) : Current(recent[i])' => Current(recent[i])
      BY <2>2, CurrentRequest
    <3> QED BY <2>0, <3>1, <3>2 DEF SlotInv
  <2>3. CASE WindowEvicted
    <3>1. UNCHANGED <<seen, recent, slot>> /\ \A e : Current(e)' <=> Current(e)
      BY <2>3, CurrentStays DEF WindowEvicted, js
    <3> QED BY <3>1 DEF SlotInv
  <2>4. CASE Consume
    <3>1. /\ ring[1] \in Kept /\ seen' = seen \cup {Key(ring[1])} /\ 1 \in 1..Len(ring)
          /\ \A e : Current(e)' <=> Current(e)
      BY <2>4, ConsumeReads, CurrentStays
    <3>2. ASSUME UNCHANGED <<recent, slot>>, \A m \in Msgs : Key(ring[1]) = SeqKey(Start(m)) => Key(ring[1]) \in seen
          PROVE  SlotInv'
      BY <3>1, <3>2 DEF SlotInv
    <3>3. ASSUME ReadAgain PROVE SlotInv'
      BY <3>2, <3>3 DEF ReadAgain
    <3>4. ASSUME ReadRequest PROVE SlotInv'
      <4>1. \A m \in Msgs : Key(ring[1]) # SeqKey(Start(m))
        BY <3>4 DEF ReadRequest, Data, Key, SeqKey
      <4> QED BY <3>2, <3>4, <4>1 DEF ReadRequest
    <3>5. ASSUME ReadLoose PROVE SlotInv'
      BY <3>5 DEF ReadLoose, SlotInv
    <3>6. ASSUME NEW m \in Msgs, ReadUnpaired(m) PROVE SlotInv'
      BY <3>6 DEF ReadUnpaired, SlotInv
    <3>7. ASSUME NEW m \in Msgs, NEW e \in Pairs, ReadPaired(m, e) PROVE SlotInv'
      <4>1. Len(recent) \in Nat /\ recent \in Seq(Pairs)
        BY DEF Types
      <4>2. slot' = Len(recent') /\ recent'[slot'] = e
        BY <3>7, <4>1 DEF ReadPaired
      <4>3. e.msg = m /\ ~Full(e) /\ Key(ring[1]) = SeqKey(Start(m)) /\ Of(ring[1], m)
            /\ ring[1] \in DataRecords /\ e.got = Positions(ring[1])
        BY <3>1, <3>7, RecordKinds, ResponseFacts DEF ReadPaired, Key, SeqKey, Data, Of
      <4>4. Taken(e) > 0
        BY <4>3, StitchType, RecordKinds DEF Taken
      <4>5. ASSUME NEW n \in Msgs, n > m PROVE SeqKey(Start(n)) \notin seen'
        <5>1. SeqKey(Start(n)) \notin seen
          <6> SUFFICES ASSUME SeqKey(Start(n)) \in seen PROVE n <= m
            BY <4>5, MsgsAreNat
          <6>1. In(Start(n), n) /\ Start(n) \in Nat
            BY ResponseFacts
          <6> QED BY <3>1, <4>3, <6>1 DEF Order, SeenOrder
        <5>2. Start(n) # Start(m)
          BY <4>5, StartsApart, MsgsAreNat
        <5>3. SeqKey(Start(n)) # SeqKey(Start(m))
          BY <5>2 DEF SeqKey
        <5> QED BY <3>1, <4>3, <5>1, <5>3
      <4> QED BY <3>1, <4>2, <4>3, <4>4, <4>5 DEF SlotInv
    <3>8. ASSUME NEW e \in Pairs, ReadStitched(e) PROVE SlotInv'
      <4> SUFFICES ASSUME slot' # 0 PROVE SlotInv'
        BY DEF SlotInv
      <4>1. /\ slot' = slot /\ ~Full(e) /\ slot # 0
            /\ recent' = [recent EXCEPT ![slot] = e]
            /\ e.msg = recent[slot].msg /\ e.out = recent[slot].out
            /\ e = Fed(recent[slot], ring[1])
        BY <3>8 DEF ReadStitched
      <4>2. recent'[slot] = e /\ Len(recent') = Len(recent)
        BY <2>0, <4>1 DEF Types
      <4>3. ring[1] \in DataRecords /\ \A m \in Msgs : Key(ring[1]) # SeqKey(Start(m))
        BY <3>1, <3>8, RecordKinds DEF ReadStitched, ReadBody, Key, SeqKey, Data
      <4>4. Taken(e) > 0
        <5>1. Taken(recent[slot]) \in Nat /\ Taken(e) \in Nat /\ Taken(recent[slot]) <= Taken(e)
          BY <2>0, <4>1, <4>3, Grows DEF SlotInv
        <5>2. Taken(recent[slot]) > 0
          BY <4>1 DEF SlotInv
        <5> QED BY <5>1, <5>2
      <4>5. Current(e) <=> Current(recent[slot])
        BY <4>1 DEF Current
      <4> QED BY <3>1, <4>1, <4>2, <4>3, <4>4, <4>5 DEF SlotInv
    <3> QED BY <2>4, ConsumeReads, <3>3, <3>4, <3>5, <3>6, <3>7, <3>8
  <2>5. ASSUME NEW n \in 1..Len(recent), Drain(n) PROVE SlotInv'
    <3>1. /\ UNCHANGED <<seen, slot, asked, cuts>> /\ Len(recent') = Len(recent)
          /\ \A i \in 1..Len(recent) :
                 /\ recent'[i].msg = recent[i].msg /\ recent'[i].got = recent[i].got
                 /\ \/ recent'[i].out = recent[i].out
                    \/ recent[i].out = Nothing
      BY <2>5, DrainKeeps
    <3>2. \A i \in 1..Len(recent) : Current(recent[i])' => Current(recent[i])
      BY <3>1 DEF Current
    <3>3. \A i \in 1..Len(recent) : (Full(recent'[i]) <=> Full(recent[i])) /\ Taken(recent'[i]) = Taken(recent[i])
      BY <3>1 DEF Full, Taken
    <3> QED BY <2>0, <3>1, <3>2, <3>3 DEF SlotInv
  <2>6. CASE Lapse
    <3>1. /\ slot' \in {slot, 0} /\ recent' = recent /\ asked' = asked
          /\ \A i \in 1..Len(recent) : recent[i].out # Nothing
          /\ cuts' = cuts \cup {<<asked, "age">>}
      BY <2>6, LapseForgets
    <3>2. \A i \in 1..Len(recent) : ~Current(recent[i])'
      BY <3>1 DEF Current
    <3> QED BY <2>0, <3>1, <3>2 DEF SlotInv
  <2>7. CASE UNCHANGED vars
    BY <2>7 DEF vars, kernel, js, past, SlotInv, Current
  <2> QED BY <2>1, <2>2, <2>3, <2>4, <2>5, <2>6, <2>7 DEF Next
<1> QED
  BY <1>1, <1>2, TypesHold, OrderHolds, PTL DEF Spec

\* No record of a response waits in the ring unless its first one was taken or is before it...
Clean(m) ==
    /\ \A i \in 1..Len(ring) : Data(ring[i]) /\ In(ring[i].seq, m)
          => SeqKey(Start(m)) \in seen \/ Started(ring, m, i)
    /\ WinIn(m) => SeqKey(Start(m)) \in seen \/ Started(ring, m, Len(ring))
\* ...or the response is so old that no pair before it is collecting.
Stale(m) ==
    /\ asked >= m
    /\ \A i \in 1..Len(ring), n \in Msgs : Data(ring[i]) /\ In(ring[i].seq, n) => n >= m
    /\ slot # 0 /\ Current(recent[slot]) => recent[slot].msg >= m
CleanOrStale == \A m \in Msgs : Clean(m) \/ Stale(m)

LEMMA CleanSight ==
    ASSUME Types, Order, NEW seg \in Segments, Sight(seg), NEW m \in Msgs
    PROVE  (Clean(m) => Clean(m)') /\ (Stale(m) => Stale(m)')
<1>1. /\ UNCHANGED <<seen, pending, recent, slot, asked, lapses>> /\ asked \in Msgs
      /\ Len(ring) \in Nat /\ Len(ring') \in Nat /\ Len(ring) <= Len(ring')
      /\ \A i \in 1..Len(ring) : ring'[i] = ring[i]
  BY SightAdds
<1>2. \A i \in 1..Len(ring') : i > Len(ring) => ring'[i] \in DataRecords /\ In(ring'[i].seq, asked)
  BY SightAdds
<1>3. \A e : Current(e)' <=> Current(e)
  BY CurrentStays
<1>4. ASSUME NEW i \in 1..Len(ring'), i > Len(ring), NEW n \in Msgs, In(ring'[i].seq, n)
      PROVE  n = asked
  <2>1. ring'[i] \in DataRecords /\ In(ring'[i].seq, asked)
    BY <1>2, <1>4
  <2>2. ring'[i].seq \in Nat
    BY <2>1, RecordKinds
  <2> QED BY <1>4, <2>1, <2>2, OneResponse
<1>5. asked \in Nat /\ m \in Nat
  BY <1>1, MsgsAreNat
<1>6. ASSUME Stale(m) PROVE Stale(m)'
  <2>1. ASSUME NEW i \in 1..Len(ring'), NEW n \in Msgs, Data(ring'[i]), In(ring'[i].seq, n)
        PROVE  n >= m
    <3>1. CASE i > Len(ring)
      BY <1>4, <1>6, <2>1, <3>1 DEF Stale
    <3>2. CASE ~(i > Len(ring))
      <4>1. i \in 1..Len(ring) /\ ring'[i] = ring[i]
        BY <1>1, <3>2
      <4> QED BY <1>6, <2>1, <4>1 DEF Stale
    <3> QED BY <3>1, <3>2
  <2> QED BY <1>1, <1>3, <1>6, <2>1 DEF Stale
<1>7. ASSUME Clean(m) PROVE Clean(m)'
  <2>1. ASSUME NEW i \in 0..Len(ring), NEW k \in Nat, i <= k, Started(ring, m, i)
        PROVE  Started(ring', m, k)
    BY <1>1, <2>1 DEF Started
  <2>2. ASSUME NEW i \in 1..Len(ring'), i <= Len(ring), Data(ring'[i]), In(ring'[i].seq, m)
        PROVE  SeqKey(Start(m)) \in seen \/ Started(ring', m, i)
    <3>1. i \in 1..Len(ring) /\ ring'[i] = ring[i]
      BY <1>1, <2>2
    <3>2. SeqKey(Start(m)) \in seen \/ Started(ring, m, i)
      BY <1>7, <2>2, <3>1 DEF Clean
    <3> QED BY <2>1, <3>1, <3>2
  <2>3. CASE asked # m
    BY <1>1, <1>4, <2>2, <2>3 DEF Clean, WinIn
  <2>4. CASE asked = m /\ (ring' = ring /\ win' \in {win, Nothing})
    BY <1>1, <1>7, <2>4 DEF Clean, WinIn
  \* what is added has the response's first record before it
  <2>5. ASSUME asked = m, Wanted(seg), NEW want \in Nat \ {0}, NEW fit \in Nat,
               want <= seg.len, Shipped(seg, want, fit)
        PROVE  \/ fit = 0 /\ ring' = ring /\ win' = win
               \/ SeqKey(Start(m)) \in seen
               \/ Started(ring', m, Len(ring) + 1)
    <3>1. OfResponse(seg, asked)
      BY DEF Sight
    <3>2. seg.seq \in Nat /\ Start(asked) \in Nat /\ (IsFirst(seg) <=> seg.seq = Start(asked))
      BY <1>1, <3>1, SegmentFacts, ResponseFacts
    <3>3. /\ Len(ring') = Len(ring) + fit
          /\ \A i \in 1..fit : /\ ring'[Len(ring) + i] = Chunk(seg, want, i)
                               /\ Chunk(seg, want, i) \in DataRecords
      BY <1>1, <2>5, <3>1, ShippedRecords
    <3>4. CASE fit = 0
      <4>1. win' = win /\ ring' = ring \o [j \in 1..fit |-> Chunk(seg, want, j)]
        BY <2>5, <3>4 DEF Shipped
      <4>2. [j \in 1..fit |-> Chunk(seg, want, j)] = <<>>
        BY <3>4
      <4>3. ring \in Seq(Kept)
        BY DEF Types
      <4>4. ring \o <<>> = ring
        BY <4>3
      <4> QED BY <3>4, <4>1, <4>2, <4>4
    <3>5. CASE fit # 0 /\ IsFirst(seg)
      <4>1. 1 \in 1..fit
        BY <3>5
      <4>2. Chunk(seg, want, 1).seq = seg.seq
        BY <3>2, ConstantFacts DEF Chunk
      <4>3. Data(ring'[Len(ring) + 1]) /\ ring'[Len(ring) + 1].seq = Start(m)
            /\ Len(ring) + 1 \in 1..(Len(ring) + 1)
        BY <1>1, <2>5, <3>2, <3>3, <3>5, <4>1, <4>2, RecordKinds
      <4> QED BY <4>3 DEF Started
    <3>6. CASE fit # 0 /\ ~IsFirst(seg)
      <4>1. WinIn(m)
        BY <1>1, <2>5, <3>1, <3>6, Continues DEF WinIn
      <4>2. SeqKey(Start(m)) \in seen \/ Started(ring, m, Len(ring))
        BY <1>7, <4>1 DEF Clean
      <4> QED BY <1>1, <2>1, <4>2
    <3> QED BY <3>4, <3>5, <3>6
  <2>6. ASSUME SeqKey(Start(m)) \in seen \/ Started(ring', m, Len(ring) + 1),
               Len(ring) + 1 <= Len(ring')
        PROVE  Clean(m)'
    <3>1. ASSUME NEW k \in Nat, k > Len(ring)
          PROVE  SeqKey(Start(m)) \in seen \/ Started(ring', m, k)
      BY <1>1, <2>6, <3>1 DEF Started
    <3>2. Len(ring') > Len(ring)
      BY <1>1, <2>6
    <3>3. ASSUME NEW i \in 1..Len(ring'), Data(ring'[i]), In(ring'[i].seq, m)
          PROVE  SeqKey(Start(m)) \in seen' \/ Started(ring', m, i)
      <4>1. CASE i <= Len(ring)
        BY <1>1, <2>2, <3>3, <4>1
      <4>2. CASE ~(i <= Len(ring))
        BY <1>1, <3>1, <3>3, <4>2
      <4> QED BY <4>1, <4>2
    <3>4. SeqKey(Start(m)) \in seen' \/ Started(ring', m, Len(ring'))
      BY <1>1, <3>1, <3>2
    <3> QED BY <3>3, <3>4 DEF Clean
  <2>7. ASSUME asked = m, Wanted(seg), NEW want \in Nat \ {0}, NEW fit \in Nat,
               want <= seg.len, Shipped(seg, want, fit)
        PROVE  Clean(m)'
    <3>1. CASE fit = 0 /\ ring' = ring /\ win' = win
      BY <1>1, <1>7, <3>1 DEF Clean, WinIn
    <3>2. CASE SeqKey(Start(m)) \in seen
      BY <1>1, <3>2 DEF Clean
    <3>3. CASE fit # 0 /\ Started(ring', m, Len(ring) + 1)
      <4>1. OfResponse(seg, asked)
        BY DEF Sight
      <4>2. Len(ring') = Len(ring) + fit
        BY <1>1, <2>7, <4>1, ShippedRecords
      <4> QED BY <1>1, <2>6, <3>3, <4>2
    <3>4. CASE fit = 0
      <4>1. OfResponse(seg, asked)
        BY DEF Sight
      <4>2. Len(ring') = Len(ring) + fit
        BY <1>1, <2>7, <4>1, ShippedRecords
      <4>3. win' = win
        BY <2>7, <3>4 DEF Shipped
      <4>4. \A i \in 1..Len(ring') : i <= Len(ring) /\ ring'[i] = ring[i]
        BY <1>1, <3>4, <4>2
      <4>5. Len(ring') = Len(ring)
        BY <1>1, <3>4, <4>2
      <4> QED BY <1>1, <1>7, <2>1, <2>2, <4>3, <4>4, <4>5 DEF Clean, WinIn
    <3> QED BY <2>5, <2>7, <3>1, <3>2, <3>3, <3>4
  <2>8. \/ ring' = ring /\ win' \in {win, Nothing}
        \/ Wanted(seg) /\ \E want \in Nat \ {0}, fit \in Nat : want <= seg.len /\ Shipped(seg, want, fit)
    BY SightShips DEF kernel
  <2> QED BY <2>3, <2>4, <2>7, <2>8
<1> QED
  BY <1>6, <1>7

LEMMA CleanConsume ==
    ASSUME Types, Order, Consume, NEW m \in Msgs
    PROVE  (Clean(m) => Clean(m)') /\ (Stale(m) => Stale(m)')
<1> DEFINE rec == ring[1]
<1>1. /\ rec \in Kept /\ Len(ring) \in Nat \ {0} /\ Len(ring') = Len(ring) - 1
      /\ \A i \in 1..Len(ring') : ring'[i] = ring[i + 1]
      /\ UNCHANGED <<win, asked, inOrder>>
      /\ seen' = seen \cup {Key(rec)}
  BY ConsumeReads
<1>2. \A e : Current(e)' <=> Current(e)
  BY CurrentStays
<1>3. 1 \in 1..Len(ring)
  BY <1>1
<1> HIDE DEF rec
<1>4. ASSUME Clean(m) PROVE Clean(m)'
  <2>1. ASSUME NEW i \in Nat, i < Len(ring), Started(ring, m, i + 1)
        PROVE  SeqKey(Start(m)) \in seen' \/ Started(ring', m, i)
    <3>1. PICK r \in 1..(i + 1) : Data(ring[r]) /\ ring[r].seq = Start(m)
      BY <2>1 DEF Started
    <3>2. CASE r = 1
      BY <1>1, <3>1, <3>2 DEF rec, Key, SeqKey, Data
    <3>3. CASE r # 1
      <4>1. r - 1 \in 1..i /\ r - 1 \in 1..Len(ring') /\ ring'[r - 1] = ring[r]
        BY <1>1, <2>1, <3>1, <3>3
      <4> QED BY <3>1, <4>1 DEF Started
    <3> QED BY <3>2, <3>3
  <2>2. ASSUME NEW i \in 1..Len(ring'), Data(ring'[i]), In(ring'[i].seq, m)
        PROVE  SeqKey(Start(m)) \in seen' \/ Started(ring', m, i)
    <3>1. i + 1 \in 1..Len(ring) /\ ring'[i] = ring[i + 1] /\ i \in Nat /\ i < Len(ring)
      BY <1>1
    <3>2. SeqKey(Start(m)) \in seen \/ Started(ring, m, i + 1)
      BY <1>4, <2>2, <3>1 DEF Clean
    <3> QED BY <1>1, <2>1, <3>1, <3>2
  <2>3. ASSUME WinIn(m)'
        PROVE  SeqKey(Start(m)) \in seen' \/ Started(ring', m, Len(ring'))
    <3>1. SeqKey(Start(m)) \in seen \/ Started(ring, m, Len(ring))
      BY <1>1, <1>4, <2>3 DEF Clean, WinIn
    <3>2. Len(ring') \in Nat /\ Len(ring') < Len(ring) /\ Len(ring) = Len(ring') + 1
      BY <1>1
    <3> QED BY <1>1, <2>1, <3>1, <3>2
  <2> QED BY <2>2, <2>3 DEF Clean
<1>5. ASSUME Stale(m) PROVE Stale(m)'
  <2>1. \A i \in 1..Len(ring'), n \in Msgs : Data(ring'[i]) /\ In(ring'[i].seq, n) => n >= m
    <3> SUFFICES ASSUME NEW i \in 1..Len(ring'), NEW n \in Msgs, Data(ring'[i]), In(ring'[i].seq, n)
                 PROVE  n >= m
      OBVIOUS
    <3>1. i + 1 \in 1..Len(ring) /\ ring'[i] = ring[i + 1]
      BY <1>1
    <3> QED BY <1>5, <3>1 DEF Stale
  <2>2. slot' # 0 /\ Current(recent[slot])' => recent'[slot'].msg >= m
    <3> SUFFICES ASSUME slot' # 0, Current(recent[slot])' PROVE recent'[slot'].msg >= m
      OBVIOUS
    <3>1. CASE UNCHANGED <<recent, slot>>
      BY <1>2, <1>5, <3>1 DEF Stale
    <3>2. ASSUME NEW n \in Msgs, NEW e \in Pairs, ReadPaired(n, e)
          PROVE  recent'[slot'].msg >= m
      <4>1. recent \in Seq(Pairs) /\ Len(recent) \in Nat
        BY DEF Types
      <4>2. slot' = Len(recent) + 1 /\ recent'[Len(recent) + 1] = e /\ e.msg = n
        BY <3>2, <4>1 DEF ReadPaired
      <4>3. Data(rec) /\ In(rec.seq, n)
        BY <3>2, ResponseFacts DEF ReadPaired, rec
      <4>4. n >= m
        BY <1>3, <1>5, <4>3 DEF Stale, rec
      <4> QED BY <4>2, <4>4
    <3>3. ASSUME NEW e \in Pairs, ReadStitched(e)
          PROVE  recent'[slot'].msg >= m
      <4>1. /\ slot' = slot /\ slot # 0 /\ recent' = [recent EXCEPT ![slot] = e]
            /\ e.msg = recent[slot].msg /\ e.out = recent[slot].out
        BY <3>3 DEF ReadStitched
      <4>2. recent'[slot] = e /\ slot \in 1..Len(recent)
        BY <4>1 DEF Types
      <4>3. Current(recent[slot])
        <5>1. Current(e)'
          BY <4>1, <4>2
        <5>2. Current(e)
          BY <1>2, <5>1
        <5> QED BY <4>1, <5>2 DEF Current
      <4> QED BY <1>5, <4>1, <4>2, <4>3 DEF Stale
    <3> QED
      BY <3>1, <3>2, <3>3, ConsumeReads DEF ReadAgain, ReadRequest, ReadLoose, ReadUnpaired
  <2> QED BY <1>1, <1>5, <2>1, <2>2 DEF Stale
<1> QED
  BY <1>4, <1>5

LEMMA CleanHolds == Spec => []CleanOrStale
<1>1. Init => CleanOrStale
  BY DEF Init, CleanOrStale, Clean, WinIn
<1>2. Types /\ Order /\ SlotInv /\ CleanOrStale /\ [Next]_vars => CleanOrStale'
  <2> SUFFICES ASSUME Types, Order, SlotInv, CleanOrStale, [Next]_vars, NEW m \in Msgs
               PROVE  Clean(m)' \/ Stale(m)'
    BY DEF CleanOrStale
  <2>0. slot # 0 => slot \in 1..Len(recent)
    BY DEF Types
  <2>1. ASSUME NEW seg \in Segments, Sight(seg) PROVE Clean(m)' \/ Stale(m)'
    BY <2>1, CleanSight DEF CleanOrStale
  <2>2. ASSUME NEW k \in Msgs, SightRequest(k) PROVE Clean(m)' \/ Stale(m)'
    <3>1. /\ k = asked + 1 \/ (k = asked /\ inOrder = 0)
          /\ asked' = k /\ UNCHANGED <<win, seen, recent, slot>>
          /\ asked \in Nat /\ k \in Nat /\ Len(ring) \in Nat /\ m \in Nat
      BY <2>2, MsgsAreNat, ResponsesAreFinite DEF SightRequest, js, Types
    <3>2. /\ Len(ring') \in Nat /\ Len(ring) <= Len(ring')
          /\ \A i \in 1..Len(ring) : ring'[i] = ring[i]
          /\ \A i \in 1..Len(ring') : i > Len(ring) => ~Data(ring'[i])
      <4> DEFINE rq == [kind |-> "request", msg |-> k]
      <4>1. ~Data(rq) /\ (ring' = ring \/ ring' = Append(ring, rq))
        BY <2>2 DEF SightRequest, Data
      <4> HIDE DEF rq
      <4>2. ring \in Seq(Kept)
        BY DEF Types
      <4>3. CASE ring' = ring
        BY <3>1, <4>3
      <4>4. CASE ring' = Append(ring, rq)
        BY <3>1, <4>1, <4>2, <4>4
      <4> QED BY <4>1, <4>3, <4>4
    <3>3. ASSUME NEW i \in 1..Len(ring'), Data(ring'[i])
          PROVE  i \in 1..Len(ring) /\ ring'[i] = ring[i]
      BY <3>1, <3>2, <3>3
    <3>4. CASE Stale(m)
      <4>1. slot # 0 /\ Current(recent[slot])' => Current(recent[slot])
        <5>1. \A i \in 1..Len(recent) : Current(recent[i])' => Current(recent[i])
          BY <2>2, CurrentRequest
        <5> QED BY <2>0, <3>1, <5>1
      <4>2. \A i \in 1..Len(ring'), n \in Msgs : Data(ring'[i]) /\ In(ring'[i].seq, n) => n >= m
        BY <3>3, <3>4 DEF Stale
      <4>3. asked' >= m
        BY <3>1, <3>4 DEF Stale
      <4>4. slot' # 0 /\ Current(recent[slot])' => recent'[slot'].msg >= m
        BY <3>1, <3>4, <4>1 DEF Stale
      <4> QED BY <4>2, <4>3, <4>4 DEF Stale
    <3>5. CASE Clean(m)
      <4>1. ASSUME NEW i \in 0..Len(ring), NEW j \in Nat, i <= j, Started(ring, m, i)
            PROVE  Started(ring', m, j)
        BY <3>2, <4>1 DEF Started
      <4>2. ASSUME NEW i \in 1..Len(ring'), Data(ring'[i]), In(ring'[i].seq, m)
            PROVE  SeqKey(Start(m)) \in seen' \/ Started(ring', m, i)
        <5>1. i \in 1..Len(ring) /\ ring'[i] = ring[i]
          BY <3>3, <4>2
        <5>2. SeqKey(Start(m)) \in seen \/ Started(ring, m, i)
          BY <3>5, <4>2, <5>1 DEF Clean
        <5> QED BY <3>1, <4>1, <5>1, <5>2
      <4>3. ASSUME WinIn(m)' PROVE WinIn(m)
        <5>1. win # Nothing /\ k = m /\ Start(m) < win.next
          BY <3>1, <4>3 DEF WinIn
        <5>2. PICK n \in 1..asked : /\ Start(n) < win.next /\ win.next <= Last(n)
                                    /\ n = asked => inOrder > 0
          BY <5>1 DEF Order, WinPlace
        <5>3. n \in Msgs /\ n \in Nat
          BY <5>2, ResponsesAreFinite DEF Types
        <5>4. n < m => Last(n) <= Start(m)
          BY <5>3, CaptureAssumption DEF Last
        <5>5. win.next \in Nat /\ Last(n) \in Nat /\ Start(m) \in Nat
          BY <5>1, <5>3, ResponseFacts DEF Types, Windows
        <5>6. ~(n < m)
          BY <5>1, <5>2, <5>4, <5>5
        <5>7. asked = m
          BY <3>1, <5>1, <5>2, <5>3, <5>6
        <5> QED BY <5>1, <5>7 DEF WinIn
      <4>4. ASSUME WinIn(m)' PROVE SeqKey(Start(m)) \in seen' \/ Started(ring', m, Len(ring'))
        <5>1. SeqKey(Start(m)) \in seen \/ Started(ring, m, Len(ring))
          BY <3>5, <4>3, <4>4 DEF Clean
        <5>2. Len(ring) \in 0..Len(ring)
          BY <3>1
        <5> QED BY <3>1, <3>2, <4>1, <5>1, <5>2
      <4> QED BY <4>2, <4>4 DEF Clean
    <3> QED BY <3>4, <3>5 DEF CleanOrStale
  <2>3. CASE WindowEvicted
    <3>1. UNCHANGED <<ring, seen, recent, slot, asked>> /\ win' = Nothing
          /\ \A e : Current(e)' <=> Current(e)
      BY <2>3, CurrentStays DEF WindowEvicted, js
    <3> QED BY <3>1 DEF CleanOrStale, Clean, Stale, WinIn
  <2>4. CASE Consume
    BY <2>4, CleanConsume DEF CleanOrStale
  <2>5. ASSUME NEW n \in 1..Len(recent), Drain(n) PROVE Clean(m)' \/ Stale(m)'
    <3>1. /\ UNCHANGED <<win, ring, seen, slot, asked, cuts>> /\ Len(recent') = Len(recent)
          /\ \A i \in 1..Len(recent) :
                 /\ recent'[i].msg = recent[i].msg
                 /\ \/ recent'[i].out = recent[i].out
                    \/ recent[i].out = Nothing
      BY <2>5, DrainKeeps
    <3>2. \A i \in 1..Len(recent) : Current(recent[i])' => Current(recent[i])
      BY <3>1 DEF Current
    <3> QED BY <2>0, <3>1, <3>2 DEF CleanOrStale, Clean, Stale, WinIn
  <2>6. CASE Lapse
    <3>1. /\ ring' = <<>> /\ slot' \in {slot, 0} /\ recent' = recent /\ asked' = asked
          /\ \A i \in 1..Len(recent) : recent[i].out # Nothing
          /\ cuts' = cuts \cup {<<asked, "age">>} /\ win' = win
      BY <2>6, LapseForgets
    <3>2. slot' # 0 => ~Current(recent[slot])'
      BY <2>0, <3>1 DEF Current
    <3>3. Len(ring') = 0
      BY <3>1
    <3>4. CASE WinIn(m)
      BY <3>1, <3>2, <3>3, <3>4, MsgsAreNat DEF Stale, WinIn
    <3>5. CASE ~WinIn(m)
      BY <3>1, <3>3, <3>5 DEF Clean, WinIn
    <3> QED BY <3>4, <3>5
  <2>7. CASE UNCHANGED vars
    BY <2>7 DEF vars, kernel, js, past, CleanOrStale, Clean, Stale, WinIn, Current
  <2> QED BY <2>1, <2>2, <2>3, <2>4, <2>5, <2>6, <2>7 DEF Next
<1> QED
  BY <1>1, <1>2, TypesHold, OrderHolds, SlotHolds, PTL DEF Spec

-----------------------------------------------------------------------------
(* The pieces that segments are taken in, when the segments cut the stream in one way. *)

SegmentsAgree == \A s, t \in Segments :
    s # t => s.seq + s.len <= t.seq \/ t.seq + t.len <= s.seq

FirstLen(m) == (CHOOSE seg \in Segments : seg.seq = Start(m)).len
\* What is left of a response's budget once it was taken up to p.
BudgetAt(p, m) == Responses[m].extra - (p - (Start(m) + FirstLen(m)))
WantOf(seg, m) == Least(seg.len, IF seg.seq = Start(m) THEN RespCap ELSE BudgetAt(seg.seq, m))
IsPiece(q, seg, m, k) ==
    /\ OfResponse(seg, m) /\ WantOf(seg, m) \in 1..seg.len /\ k * ChunkMax < WantOf(seg, m)
    /\ q.seq = seg.seq + k * ChunkMax
    /\ q.len = Least(WantOf(seg, m) - k * ChunkMax, ChunkMax)
Plan == {q \in [seq : Nat, len : Nat] :
            \E seg \in Segments, m \in Msgs, k \in Nat : IsPiece(q, seg, m, k)}
PieceOf(rec) == [seq |-> rec.seq, len |-> rec.len]

\* Every record is of the plan, and the window knows what is left of the budget.
PlanInv == SegmentsAgree =>
    /\ \A i \in 1..Len(ring) : Data(ring[i]) => PieceOf(ring[i]) \in Plan
    /\ win # Nothing => \A m \in Msgs :
          Start(m) < win.next /\ win.next <= Last(m)
              => win.remaining = BudgetAt(win.next, m) /\ FirstLen(m) \in Nat

LEMMA FirstLenIs ==
    ASSUME SegmentsAgree, NEW seg \in Segments, NEW m \in Msgs, seg.seq = Start(m)
    PROVE  FirstLen(m) = seg.len
<1> DEFINE f == CHOOSE s \in Segments : s.seq = Start(m)
<1>1. f \in Segments /\ f.seq = Start(m)
  BY Zenon
<1> HIDE DEF f
<1>2. \A s \in Segments : s.seq \in Nat /\ s.len \in Nat \ {0}
  <2>1. \A s \in Segments : s \in [seq : Nat, len : Nat \ {0}]
    BY CaptureAssumption
  <2> QED BY <2>1
<1>3. f = seg
  <2> SUFFICES ASSUME f # seg PROVE FALSE
    OBVIOUS
  <2>1. f.seq + f.len <= seg.seq \/ seg.seq + seg.len <= f.seq
    BY <1>1 DEF SegmentsAgree
  <2> QED BY <1>1, <1>2, <2>1
<1> QED
  BY <1>3 DEF FirstLen, f

LEMMA PieceFacts ==
    ASSUME NEW q \in [seq : Nat, len : Nat], NEW seg \in Segments, NEW m \in Msgs,
           NEW k \in Nat, IsPiece(q, seg, m, k)
    PROVE  /\ k * ChunkMax \in Nat /\ seg.seq \in Nat /\ seg.len \in Nat \ {0}
           /\ q.seq = seg.seq + k * ChunkMax /\ q.len > 0
           /\ q.seq + q.len <= seg.seq + seg.len /\ q.seq + q.len <= q.seq + ChunkMax
           /\ In(seg.seq, m) /\ In(q.seq, m) /\ seg.seq + seg.len <= Last(m)
<1>1. /\ seg.seq \in Nat /\ seg.len \in Nat \ {0} /\ Start(m) <= seg.seq
      /\ seg.seq + seg.len <= Last(m) /\ In(seg.seq, m)
  BY SegmentFacts DEF IsPiece
<1>2. k * ChunkMax \in Nat /\ ChunkMax \in Nat \ {0}
  BY ConstantFacts, TimesStep
<1>3. Start(m) \in Nat /\ Last(m) \in Nat
  BY ResponseFacts
<1> DEFINE w == WantOf(seg, m)
           o == k * ChunkMax
<1>4. o < w /\ w <= seg.len /\ q.seq = seg.seq + o /\ q.len = Least(w - o, ChunkMax)
  BY <1>1 DEF IsPiece
<1>12. w \in Nat
  BY DEF IsPiece
<1> HIDE DEF w, o
<1>5. o \in Nat /\ o < w /\ w <= seg.len /\ q.seq \in Nat /\ q.len \in Nat
  BY <1>2, <1>4, <1>12 DEF o
<1>6. q.len > 0 /\ q.len <= ChunkMax /\ o + q.len <= w
  BY <1>2, <1>4, <1>5, <1>12 DEF Least
<1>7. In(q.seq, m)
  BY <1>1, <1>3, <1>4, <1>5, <1>12 DEF In
<1> QED
  BY <1>1, <1>2, <1>4, <1>5, <1>6, <1>7, <1>12 DEF o

\* The pieces of the plan lie apart.
LEMMA PiecesApart ==
    ASSUME SegmentsAgree, NEW q \in Plan, NEW r \in Plan
    PROVE  /\ q.seq < r.seq => q.seq + q.len <= r.seq
           /\ q.seq = r.seq => q = r
<1>1. q \in [seq : Nat, len : Nat] /\ r \in [seq : Nat, len : Nat]
  BY DEF Plan
<1>2. PICK s \in Segments, m \in Msgs, k \in Nat : IsPiece(q, s, m, k)
  BY DEF Plan
<1>3. PICK t \in Segments, n \in Msgs, l \in Nat : IsPiece(r, t, n, l)
  BY DEF Plan
<1>4. /\ k * ChunkMax \in Nat /\ s.seq \in Nat /\ s.len \in Nat \ {0}
      /\ q.seq = s.seq + k * ChunkMax /\ q.len > 0
      /\ q.seq + q.len <= s.seq + s.len /\ q.seq + q.len <= q.seq + ChunkMax
      /\ In(s.seq, m)
  BY <1>1, <1>2, PieceFacts
<1>5. /\ l * ChunkMax \in Nat /\ t.seq \in Nat /\ t.len \in Nat \ {0}
      /\ r.seq = t.seq + l * ChunkMax /\ r.len > 0
      /\ r.seq + r.len <= t.seq + t.len /\ r.seq + r.len <= r.seq + ChunkMax
      /\ In(t.seq, n)
  BY <1>1, <1>3, PieceFacts
<1>6. q.seq \in Nat /\ q.len \in Nat /\ r.seq \in Nat /\ r.len \in Nat /\ ChunkMax \in Nat \ {0}
  BY <1>1, ConstantFacts
<1>7. CASE s # t
  <2>1. s.seq + s.len <= t.seq \/ t.seq + t.len <= s.seq
    BY <1>7 DEF SegmentsAgree
  <2> QED BY <1>4, <1>5, <1>6, <2>1
<1>8. CASE s = t
  <2>1. m = n
    <3>1. s.seq \in Nat /\ In(s.seq, m) /\ In(s.seq, n)
      BY <1>4, <1>5, <1>8
    <3> QED BY <3>1, InOrderOfMsgs
  <2>2. k < l => k * ChunkMax + ChunkMax <= l * ChunkMax
    BY <1>6, TimesLess
  <2>3. l < k => l * ChunkMax + ChunkMax <= k * ChunkMax
    BY <1>6, TimesLess
  <2>4. k = l => q.len = r.len /\ q.seq = r.seq
    BY <1>2, <1>3, <1>8, <2>1 DEF IsPiece
  <2>5. q.seq = r.seq => k = l
    BY <1>4, <1>5, <1>6, <1>8, <2>2, <2>3
  <2>6. q.seq = r.seq => q = r
    BY <1>1, <2>4, <2>5
  <2>7. q.seq < r.seq => q.seq + q.len <= r.seq
    <3>1. q.seq < r.seq => k < l
      BY <1>4, <1>5, <1>6, <1>8, <2>3, <2>4
    <3> QED BY <1>4, <1>5, <1>6, <1>8, <2>2, <3>1
  <2> QED BY <2>6, <2>7
<1> QED
  BY <1>7, <1>8

\* The records of a segment follow each other.
LEMMA ChunksFollow ==
    ASSUME NEW seg \in Segments, NEW m \in Msgs, OfResponse(seg, m),
           NEW want \in Nat \ {0}, want <= seg.len,
           NEW i \in Nat \ {0}, NEW j \in Nat \ {0}, i < j, j <= Chunks(want)
    PROVE  /\ EndOf(Chunk(seg, want, i)) <= Chunk(seg, want, j).seq
           /\ j = i + 1 => EndOf(Chunk(seg, want, i)) = Chunk(seg, want, j).seq
<1>1. Chunks(want) \in Nat \ {0} /\ i <= Chunks(want) /\ i < Chunks(want)
  BY ChunksFacts
<1>2. i * ChunkMax \in Nat /\ i * ChunkMax < want
  BY <1>1, ChunksFacts
<1>3. EndOf(Chunk(seg, want, i)) = seg.seq + i * ChunkMax
  <2>1. EndOf(Chunk(seg, want, i)) = seg.seq + Least(want, i * ChunkMax)
    BY <1>1, ChunkFacts
  <2> QED BY <1>2, <2>1 DEF Least
<1>4. Chunk(seg, want, j).seq = seg.seq + (j - 1) * ChunkMax /\ (j - 1) * ChunkMax \in Nat
  BY ChunkFacts
<1>5. j - 1 = i \/ i < j - 1
  OBVIOUS
<1>6. i < j - 1 => i * ChunkMax + ChunkMax <= (j - 1) * ChunkMax
  <2>1. j - 1 \in Nat /\ i \in Nat
    OBVIOUS
  <2> QED BY <2>1, ConstantFacts, TimesLess
<1>7. seg.seq \in Nat
  BY SegmentFacts
<1> QED
  BY <1>2, <1>3, <1>4, <1>5, <1>6, <1>7, ConstantFacts

\* The window's budget is the one of the plan, and what is shipped is of the plan.
LEMMA ShippedPlan ==
    ASSUME Types, Order, PlanInv, SegmentsAgree, NEW seg \in Segments, asked \in Msgs,
           OfResponse(seg, asked), Wanted(seg),
           NEW want \in Nat \ {0}, want <= seg.len,
           \/ want = Least(seg.len, Limit(seg))
           \/ want = ChunkMax /\ want < Least(seg.len, Limit(seg)) /\ IsFirst(seg),
           NEW j \in Nat \ {0}, j <= Chunks(want)
    PROVE  PieceOf(Chunk(seg, want, j)) \in Plan
<1>1. /\ seg.seq \in Nat /\ seg.len \in Nat \ {0} /\ (IsFirst(seg) <=> seg.seq = Start(asked))
      /\ Start(asked) <= seg.seq /\ seg.seq + seg.len <= Last(asked)
      /\ Start(asked) \in Nat /\ Last(asked) \in Nat
  BY SegmentFacts, ResponseFacts
<1>2. Least(seg.len, Limit(seg)) = WantOf(seg, asked)
  <2>1. CASE IsFirst(seg)
    BY <1>1, <2>1 DEF Limit, WantOf
  <2>2. CASE ~IsFirst(seg)
    <3>1. win # Nothing /\ win.next = seg.seq /\ Start(asked) < win.next
      BY <2>2, Continues
    <3>2. win.next <= Last(asked)
      BY <1>1, <3>1
    <3>3. win.remaining = BudgetAt(seg.seq, asked)
      BY <3>1, <3>2 DEF PlanInv
    <3> QED BY <1>1, <2>2, <3>3 DEF Limit, WantOf
  <2> QED BY <2>1, <2>2
<1> DEFINE rec == Chunk(seg, want, j)
           k == j - 1
<1>3. k \in Nat /\ k * ChunkMax \in Nat /\ k * ChunkMax < want
      /\ rec.seq = seg.seq + k * ChunkMax /\ rec.seq \in Nat /\ rec.len \in Nat
  BY ChunkFacts, RecordKinds
<1>4. rec.len = Least(want - k * ChunkMax, ChunkMax)
  BY DEF Chunk
<1>5. CASE want = WantOf(seg, asked)
  <2>1. IsPiece(PieceOf(rec), seg, asked, k)
    <3> HIDE DEF k, rec
    <3> QED BY <1>1, <1>3, <1>4, <1>5 DEF IsPiece, PieceOf
  <2>2. PieceOf(rec) \in Plan
    <3> HIDE DEF k, rec
    <3>1. PieceOf(rec) \in [seq : Nat, len : Nat]
      BY <1>3 DEF PieceOf
    <3> QED BY <1>3, <2>1, <3>1 DEF Plan
  <2> QED BY <2>2
<1>6. CASE want = ChunkMax /\ want < WantOf(seg, asked) /\ IsFirst(seg)
  <2>1. k = 0
    BY <1>6, ChunkOfFirst, ConstantFacts
  <2>2. 0 * ChunkMax = 0
    BY ConstantFacts
  <2>3. WantOf(seg, asked) = Least(seg.len, RespCap) /\ Least(seg.len, RespCap) \in 1..seg.len
    BY <1>1, <1>6, ConstantFacts DEF WantOf, Least
  <2>4. rec.len = ChunkMax /\ rec.seq = seg.seq
    <3> HIDE DEF k, rec
    <3> QED BY <1>1, <1>3, <1>4, <1>6, <2>1, <2>2, ConstantFacts DEF Least
  <2>5. Least(WantOf(seg, asked) - 0 * ChunkMax, ChunkMax) = ChunkMax
    BY <1>6, <2>2, <2>3, ConstantFacts DEF Least
  <2>6. IsPiece(PieceOf(rec), seg, asked, 0)
    <3> HIDE DEF k, rec
    <3> QED BY <1>1, <1>6, <2>2, <2>3, <2>4, <2>5, ConstantFacts DEF IsPiece, PieceOf
  <2>7. PieceOf(rec) \in Plan
    <3> HIDE DEF k, rec
    <3>1. PieceOf(rec) \in [seq : Nat, len : Nat] /\ 0 \in Nat
      BY <1>3 DEF PieceOf
    <3> QED BY <2>6, <3>1 DEF Plan
  <2> QED BY <2>7
<1> QED
  BY <1>2, <1>5, <1>6

\* A piece of the plan within what is shipped is shipped.
LEMMA NoPieceBetween ==
    ASSUME SegmentsAgree, NEW seg \in Segments, NEW m \in Msgs, OfResponse(seg, m),
           NEW want \in Nat \ {0}, want <= seg.len, NEW fit \in Nat, fit <= Chunks(want),
           \A j \in 1..fit : PieceOf(Chunk(seg, want, j)) \in Plan,
           NEW q \in Plan, NEW j \in 1..fit,
           seg.seq <= q.seq, q.seq < EndOf(Chunk(seg, want, j))
    PROVE  \E i \in 1..j : Chunk(seg, want, i).seq = q.seq
<1> DEFINE d == q.seq - seg.seq
           k == d \div ChunkMax
<1>1. seg.seq \in Nat /\ q.seq \in Nat /\ ChunkMax \in Nat \ {0}
  BY SegmentFacts, ConstantFacts DEF Plan
<1>2. d \in Nat
  BY <1>1
<1> HIDE DEF d
<1>3. k \in Nat /\ k * ChunkMax <= d /\ d < k * ChunkMax + ChunkMax
  BY <1>1, <1>2
<1> HIDE DEF k
<1>4. j \in Nat \ {0} /\ j <= Chunks(want) /\ Chunks(want) \in Nat
  BY ChunksFacts
<1>5. EndOf(Chunk(seg, want, j)) = seg.seq + Least(want, j * ChunkMax) /\ j * ChunkMax \in Nat
  BY <1>1, <1>4, ChunkFacts, TimesStep
<1>6. d < want /\ d < j * ChunkMax
  BY <1>1, <1>5 DEF Least, d
<1>7. k < j
  <2> SUFFICES ASSUME j <= k PROVE FALSE
    BY <1>3, <1>4
  <2>1. j * ChunkMax <= k * ChunkMax
    <3>1. j = k \/ j < k
      BY <1>3, <1>4
    <3>2. j < k => j * ChunkMax + ChunkMax <= k * ChunkMax
      BY <1>1, <1>3, <1>4, TimesLess
    <3>3. k * ChunkMax \in Nat
      BY <1>1, <1>3, TimesStep
    <3> QED BY <1>1, <1>5, <3>1, <3>2, <3>3
  <2>2. k * ChunkMax \in Nat
    BY <1>1, <1>3, TimesStep
  <2> QED BY <1>1, <1>2, <1>3, <1>5, <1>6, <2>1, <2>2
<1> DEFINE i == k + 1
           rec == Chunk(seg, want, i)
<1>8. i \in 1..j /\ i \in Nat \ {0} /\ i <= Chunks(want) /\ i \in 1..fit /\ i - 1 = k
  BY <1>3, <1>4, <1>7
<1>9. /\ rec.seq = seg.seq + (i - 1) * ChunkMax
      /\ EndOf(rec) = seg.seq + Least(want, i * ChunkMax) /\ rec \in DataRecords
  BY <1>8, ChunkFacts
<1>10. i * ChunkMax = k * ChunkMax + ChunkMax /\ k * ChunkMax \in Nat
  BY <1>1, <1>3, TimesStep
<1>11. rec.seq <= q.seq /\ q.seq < EndOf(rec)
  <2>1. q.seq = seg.seq + d
    BY <1>1 DEF d
  <2> QED BY <1>1, <1>2, <1>3, <1>6, <1>8, <1>9, <1>10, <2>1 DEF Least
<1>12. PieceOf(rec) \in Plan
  BY <1>8
<1> HIDE DEF rec
<1>13. rec.seq = q.seq
  <2> SUFFICES ASSUME rec.seq < q.seq PROVE FALSE
    BY <1>1, <1>9, <1>11, RecordKinds
  <2>1. PieceOf(rec).seq + PieceOf(rec).len <= q.seq
    BY <1>12, PiecesApart DEF PieceOf
  <2> QED BY <1>1, <1>9, <1>11, <2>1, RecordKinds DEF PieceOf, EndOf
<1> QED
  BY <1>8, <1>13 DEF rec

-----------------------------------------------------------------------------
(* How far the records in the ring will take a pair.                         *)

\* The records of m that a pair of m will get: all of them if it collects already, and
\* else those from the first one of m.
Counted(rg, m, acc, j) == Data(rg[j]) /\ In(rg[j].seq, m) /\ (acc \/ Started(rg, m, j))
Reached(rg, m, acc, c, i, x) ==
    x = c \/ \E j \in 1..i : Counted(rg, m, acc, j) /\ x = EndOf(rg[j])
Fresh(rg, sn, i) == Key(rg[i]) \notin sn /\ \A j \in 1..(i - 1) : Key(rg[j]) # Key(rg[i])

\* What is below a position that will be reached was taken or will be.
Covered(rg, sn, m, acc, c) == \A q \in Plan, x \in Nat :
    In(q.seq, m) /\ Reached(rg, m, acc, c, Len(rg), x) /\ q.seq < x
        => SeqKey(q.seq) \in sn \cup KeysOf(rg)
\* A record that will be taken is past all that was reached before it.
Ahead(rg, sn, m, acc, c) == \A i \in 1..Len(rg), x \in Nat :
    Counted(rg, m, acc, i) /\ Fresh(rg, sn, i) /\ Reached(rg, m, acc, c, i - 1, x)
        => x <= rg[i].seq
\* A record that will be taken begins where one before it ends.
Chained(rg, sn, m, acc, c) ==
    /\ \A i \in 1..Len(rg) : Data(rg[i]) /\ In(rg[i].seq, m)
          => Counted(rg, m, acc, i) /\ (Fresh(rg, sn, i) => Reached(rg, m, acc, c, i - 1, rg[i].seq))
    /\ \A q \in Plan : In(q.seq, m) /\ SeqKey(q.seq) \in sn => q.seq + q.len <= c

\* A ring that grew by records that are not of m.
Longer(rg, rg2) == /\ rg \in Seq(Kept) /\ rg2 \in Seq(Kept) /\ Len(rg) <= Len(rg2)
                   /\ \A i \in 1..Len(rg) : rg2[i] = rg[i]

LEMMA LongerKeeps ==
    ASSUME NEW rg, NEW rg2, Longer(rg, rg2), NEW m, NEW acc, NEW c, NEW sn
    PROVE  /\ Len(rg) \in Nat /\ Len(rg2) \in Nat
           /\ \A i \in 1..Len(rg) : /\ i \in 1..Len(rg2)
                                    /\ Started(rg2, m, i) <=> Started(rg, m, i)
                                    /\ Counted(rg2, m, acc, i) <=> Counted(rg, m, acc, i)
                                    /\ Fresh(rg2, sn, i) <=> Fresh(rg, sn, i)
           /\ \A i \in 0..Len(rg) : \A x : Reached(rg2, m, acc, c, i, x) <=> Reached(rg, m, acc, c, i, x)
           /\ KeysOf(rg) \subseteq KeysOf(rg2)
<1>1. Len(rg) \in Nat /\ Len(rg2) \in Nat /\ Len(rg) <= Len(rg2)
  BY DEF Longer
<1>2. ASSUME NEW i \in 1..Len(rg) PROVE i \in 1..Len(rg2) /\ rg2[i] = rg[i] /\ 1..i \subseteq 1..Len(rg)
  BY <1>1 DEF Longer
<1>3. ASSUME NEW i \in 1..Len(rg) PROVE Started(rg2, m, i) <=> Started(rg, m, i)
  <2>1. \A r \in 1..i : rg2[r] = rg[r]
    BY <1>2
  <2> QED BY <2>1 DEF Started
<1>4. ASSUME NEW i \in 1..Len(rg) PROVE Counted(rg2, m, acc, i) <=> Counted(rg, m, acc, i)
  BY <1>2, <1>3 DEF Counted
<1>5. ASSUME NEW i \in 1..Len(rg) PROVE Fresh(rg2, sn, i) <=> Fresh(rg, sn, i)
  <2>1. \A r \in 1..(i - 1) : rg2[r] = rg[r]
    BY <1>1, <1>2
  <2> QED BY <1>2, <2>1 DEF Fresh
<1>6. ASSUME NEW i \in 0..Len(rg), NEW x
      PROVE  Reached(rg2, m, acc, c, i, x) <=> Reached(rg, m, acc, c, i, x)
  <2>1. \A r \in 1..i : rg2[r] = rg[r] /\ (Counted(rg2, m, acc, r) <=> Counted(rg, m, acc, r))
    BY <1>1, <1>2, <1>4
  <2> QED BY <2>1 DEF Reached
<1>7. KeysOf(rg) \subseteq KeysOf(rg2)
  BY <1>2 DEF KeysOf
<1>8. \A i \in 1..Len(rg) :
         /\ i \in 1..Len(rg2)
         /\ Started(rg2, m, i) <=> Started(rg, m, i)
         /\ Counted(rg2, m, acc, i) <=> Counted(rg, m, acc, i)
         /\ Fresh(rg2, sn, i) <=> Fresh(rg, sn, i)
  BY <1>2, <1>3, <1>4, <1>5, Zenon
<1>9. \A i \in 0..Len(rg) : \A x : Reached(rg2, m, acc, c, i, x) <=> Reached(rg, m, acc, c, i, x)
  BY <1>6, Zenon
<1> QED
  BY <1>1, <1>7, <1>8, <1>9, Zenon

LEMMA AppendOther ==
    ASSUME NEW rg, NEW rg2, Longer(rg, rg2), NEW m, NEW acc, NEW c, NEW sn,
           \A i \in 1..Len(rg2) : i > Len(rg) => ~(Data(rg2[i]) /\ In(rg2[i].seq, m))
    PROVE  /\ \A x : Reached(rg2, m, acc, c, Len(rg2), x) <=> Reached(rg, m, acc, c, Len(rg), x)
           /\ Started(rg2, m, Len(rg2)) => Started(rg, m, Len(rg)) \/ m \notin Msgs
           /\ Started(rg, m, Len(rg)) => Started(rg2, m, Len(rg2))
           /\ Covered(rg, sn, m, acc, c) => Covered(rg2, sn, m, acc, c)
           /\ Ahead(rg, sn, m, acc, c) => Ahead(rg2, sn, m, acc, c)
           /\ Chained(rg, sn, m, acc, c) => Chained(rg2, sn, m, acc, c)
<1>1. /\ Len(rg) \in Nat /\ Len(rg2) \in Nat
      /\ \A i \in 1..Len(rg) : /\ i \in 1..Len(rg2)
                               /\ Started(rg2, m, i) <=> Started(rg, m, i)
                               /\ Counted(rg2, m, acc, i) <=> Counted(rg, m, acc, i)
                               /\ Fresh(rg2, sn, i) <=> Fresh(rg, sn, i)
      /\ \A i \in 0..Len(rg) : \A x : Reached(rg2, m, acc, c, i, x) <=> Reached(rg, m, acc, c, i, x)
      /\ KeysOf(rg) \subseteq KeysOf(rg2)
  BY LongerKeeps
<1>2. \A i \in 1..Len(rg2) : i \notin 1..Len(rg) => ~Counted(rg2, m, acc, i)
  BY <1>1 DEF Counted
<1>3. ASSUME NEW x
      PROVE  Reached(rg2, m, acc, c, Len(rg2), x) <=> Reached(rg, m, acc, c, Len(rg), x)
  <2>1. Reached(rg2, m, acc, c, Len(rg2), x) <=> Reached(rg2, m, acc, c, Len(rg), x)
    BY <1>1, <1>2 DEF Reached
  <2>2. Len(rg) \in 0..Len(rg)
    BY <1>1
  <2> QED BY <1>1, <2>1, <2>2
<1>4. Started(rg2, m, Len(rg2)) => Started(rg, m, Len(rg)) \/ m \notin Msgs
  <2> SUFFICES ASSUME m \in Msgs, NEW r \in 1..Len(rg2), Data(rg2[r]), rg2[r].seq = Start(m)
               PROVE  Started(rg, m, Len(rg))
    BY DEF Started
  <2>1. In(Start(m), m)
    BY ResponseFacts
  <2>2. r \in 1..Len(rg)
    BY <1>1, <2>1
  <2>3. rg2[r] = rg[r]
    BY <2>2 DEF Longer
  <2> QED BY <2>2, <2>3 DEF Started
<1>5. Started(rg, m, Len(rg)) => Started(rg2, m, Len(rg2))
  <2> SUFFICES ASSUME NEW r \in 1..Len(rg), Data(rg[r]), rg[r].seq = Start(m)
               PROVE  Started(rg2, m, Len(rg2))
    BY DEF Started
  <2>1. r \in 1..Len(rg2) /\ rg2[r] = rg[r]
    BY <1>1 DEF Longer
  <2> QED BY <2>1 DEF Started
<1>6. Covered(rg, sn, m, acc, c) => Covered(rg2, sn, m, acc, c)
  BY <1>1, <1>3 DEF Covered
<1>7. \A i \in 1..Len(rg2) : i \in 1..Len(rg) => i - 1 \in 0..Len(rg) /\ rg2[i] = rg[i]
  BY <1>1 DEF Longer
<1>8. Ahead(rg, sn, m, acc, c) => Ahead(rg2, sn, m, acc, c)
  <2> SUFFICES ASSUME Ahead(rg, sn, m, acc, c), NEW i \in 1..Len(rg2), NEW x \in Nat,
                      Counted(rg2, m, acc, i), Fresh(rg2, sn, i), Reached(rg2, m, acc, c, i - 1, x)
               PROVE  x <= rg2[i].seq
    BY DEF Ahead
  <2>1. i \in 1..Len(rg)
    BY <1>2
  <2>2. Counted(rg, m, acc, i) /\ Fresh(rg, sn, i) /\ Reached(rg, m, acc, c, i - 1, x)
    BY <1>1, <1>7, <2>1
  <2> QED BY <1>7, <2>1, <2>2 DEF Ahead
<1>9. Chained(rg, sn, m, acc, c) => Chained(rg2, sn, m, acc, c)
  <2> SUFFICES ASSUME Chained(rg, sn, m, acc, c), NEW i \in 1..Len(rg2), Data(rg2[i]), In(rg2[i].seq, m)
               PROVE  Counted(rg2, m, acc, i) /\ (Fresh(rg2, sn, i) => Reached(rg2, m, acc, c, i - 1, rg2[i].seq))
    BY DEF Chained
  <2>1. i \in 1..Len(rg) /\ rg2[i] = rg[i] /\ i - 1 \in 0..Len(rg)
    BY <1>1, <1>7
  <2>2. Counted(rg, m, acc, i) /\ (Fresh(rg, sn, i) => Reached(rg, m, acc, c, i - 1, rg[i].seq))
    BY <2>1 DEF Chained
  <2> QED BY <1>1, <2>1, <2>2
<1> QED
  BY <1>3, <1>4, <1>5, <1>6, <1>8, <1>9

\* A ring that grew by the records of a segment of m.
Grown(rg, rg2, m, seg, want, fit) ==
    /\ Longer(rg, rg2) /\ Len(rg2) = Len(rg) + fit
    /\ \A j \in 1..fit : /\ rg2[Len(rg) + j] = Chunk(seg, want, j)
                         /\ PieceOf(Chunk(seg, want, j)) \in Plan

LEMMA GrownFacts ==
    ASSUME SegmentsAgree, NEW m \in Msgs, NEW seg \in Segments, OfResponse(seg, m),
           NEW want \in Nat \ {0}, want <= seg.len, NEW fit \in Nat \ {0}, fit <= Chunks(want),
           NEW rg, NEW rg2, Grown(rg, rg2, m, seg, want, fit)
    PROVE  /\ Len(rg) \in Nat /\ Len(rg2) = Len(rg) + fit /\ seg.seq \in Nat
           /\ rg2[Len(rg) + 1].seq = seg.seq
           /\ EndOf(rg2[Len(rg2)]) = seg.seq + Least(want, fit * ChunkMax)
           /\ \A i \in 1..Len(rg2) : i > Len(rg) =>
                 /\ rg2[i] \in DataRecords /\ In(rg2[i].seq, m) /\ seg.seq <= rg2[i].seq
                 /\ PieceOf(rg2[i]) \in Plan /\ Key(rg2[i]) = SeqKey(rg2[i].seq)
                 /\ \A q \in Plan : seg.seq <= q.seq /\ q.seq < EndOf(rg2[i])
                       => SeqKey(q.seq) \in KeysOf(rg2)
           /\ \A i, j \in 1..Len(rg2) : i > Len(rg) /\ i < j
                 => EndOf(rg2[i]) <= rg2[j].seq /\ (j = i + 1 => EndOf(rg2[i]) = rg2[j].seq)
<1> DEFINE L == Len(rg)
<1>1. L \in Nat /\ Len(rg2) = L + fit /\ fit \in Nat \ {0}
      /\ \A j \in 1..fit : rg2[L + j] = Chunk(seg, want, j) /\ PieceOf(Chunk(seg, want, j)) \in Plan
  BY DEF Grown, Longer
<1>2. seg.seq \in Nat
  BY SegmentFacts
<1> HIDE DEF L
<1>3. ASSUME NEW j \in 1..fit
      PROVE  /\ j \in Nat \ {0} /\ j <= Chunks(want) /\ L + j \in 1..Len(rg2)
             /\ rg2[L + j] = Chunk(seg, want, j)
             /\ rg2[L + j] \in DataRecords /\ In(rg2[L + j].seq, m) /\ seg.seq <= rg2[L + j].seq
             /\ PieceOf(rg2[L + j]) \in Plan /\ Key(rg2[L + j]) = SeqKey(rg2[L + j].seq)
             /\ rg2[L + j].seq = seg.seq + (j - 1) * ChunkMax
             /\ EndOf(rg2[L + j]) = seg.seq + Least(want, j * ChunkMax)
  <2>1. j \in Nat \ {0} /\ j <= Chunks(want) /\ L + j \in 1..Len(rg2)
    BY <1>1, ChunksFacts
  <2>2. /\ Chunk(seg, want, j) \in DataRecords /\ In(Chunk(seg, want, j).seq, m)
        /\ Chunk(seg, want, j).seq = seg.seq + (j - 1) * ChunkMax
        /\ EndOf(Chunk(seg, want, j)) = seg.seq + Least(want, j * ChunkMax)
        /\ (j - 1) * ChunkMax \in Nat
    BY <2>1, ChunkFacts
  <2>3. rg2[L + j] = Chunk(seg, want, j) /\ PieceOf(rg2[L + j]) \in Plan
    BY <1>1
  <2>4. Key(rg2[L + j]) = SeqKey(rg2[L + j].seq)
    BY <2>2, <2>3, RecordKinds DEF Key, SeqKey, Data
  <2>5. seg.seq <= rg2[L + j].seq
    BY <1>2, <2>2, <2>3
  <2> QED BY <2>1, <2>2, <2>3, <2>4, <2>5
<1>4. ASSUME NEW j \in 1..fit, NEW q \in Plan, seg.seq <= q.seq, q.seq < EndOf(rg2[L + j])
      PROVE  SeqKey(q.seq) \in KeysOf(rg2)
  <2>0. /\ q.seq < EndOf(Chunk(seg, want, j)) /\ fit \in Nat
        /\ \A i \in 1..fit : PieceOf(Chunk(seg, want, i)) \in Plan
    BY <1>1, <1>4
  <2>1. PICK i \in 1..j : Chunk(seg, want, i).seq = q.seq
    BY <1>4, <2>0, NoPieceBetween
  <2>2. i \in 1..fit
    BY <1>1, <2>1
  <2>3. L + i \in 1..Len(rg2) /\ Key(rg2[L + i]) = SeqKey(rg2[L + i].seq) /\ rg2[L + i].seq = q.seq
    BY <1>3, <2>1, <2>2
  <2> QED BY <2>3 DEF KeysOf
<1>5. ASSUME NEW i \in 1..fit, NEW j \in 1..fit, i < j
      PROVE  /\ EndOf(rg2[L + i]) <= rg2[L + j].seq
             /\ j = i + 1 => EndOf(rg2[L + i]) = rg2[L + j].seq
  <2>1. i \in Nat \ {0} /\ j \in Nat \ {0} /\ j <= Chunks(want)
    BY <1>3
  <2>2. /\ EndOf(Chunk(seg, want, i)) <= Chunk(seg, want, j).seq
        /\ j = i + 1 => EndOf(Chunk(seg, want, i)) = Chunk(seg, want, j).seq
    BY <1>5, <2>1, ChunksFollow
  <2> QED BY <1>1, <2>2
<1>6. rg2[L + 1].seq = seg.seq
  <2>1. 1 \in 1..fit /\ 0 * ChunkMax = 0
    BY <1>1, ConstantFacts
  <2>2. rg2[L + 1].seq = seg.seq + (1 - 1) * ChunkMax
    BY <1>3, <2>1
  <2> QED BY <1>2, <2>1, <2>2
<1>7. EndOf(rg2[Len(rg2)]) = seg.seq + Least(want, fit * ChunkMax)
  BY <1>1, <1>3
<1>8. ASSUME NEW i \in 1..Len(rg2), i > L PROVE i - L \in 1..fit /\ i = L + (i - L)
  BY <1>1, <1>8
<1>9. ASSUME NEW i \in 1..Len(rg2), i > L
      PROVE  /\ rg2[i] \in DataRecords /\ In(rg2[i].seq, m) /\ seg.seq <= rg2[i].seq
             /\ PieceOf(rg2[i]) \in Plan /\ Key(rg2[i]) = SeqKey(rg2[i].seq)
             /\ \A q \in Plan : seg.seq <= q.seq /\ q.seq < EndOf(rg2[i])
                   => SeqKey(q.seq) \in KeysOf(rg2)
  <2>1. i - L \in 1..fit /\ rg2[L + (i - L)] = rg2[i]
    BY <1>8, <1>9
  <2> HIDE DEF L
  <2>2. /\ rg2[L + (i - L)] \in DataRecords /\ In(rg2[L + (i - L)].seq, m)
        /\ seg.seq <= rg2[L + (i - L)].seq
        /\ PieceOf(rg2[L + (i - L)]) \in Plan /\ Key(rg2[L + (i - L)]) = SeqKey(rg2[L + (i - L)].seq)
    BY <1>3, <2>1
  <2>3. \A q \in Plan : seg.seq <= q.seq /\ q.seq < EndOf(rg2[L + (i - L)])
                   => SeqKey(q.seq) \in KeysOf(rg2)
    BY <1>4, <2>1
  <2> QED BY <2>1, <2>2, <2>3
<1>10. ASSUME NEW i \in 1..Len(rg2), NEW j \in 1..Len(rg2), i > L, i < j
       PROVE  EndOf(rg2[i]) <= rg2[j].seq /\ (j = i + 1 => EndOf(rg2[i]) = rg2[j].seq)
  <2>1. i - L \in 1..fit /\ rg2[L + (i - L)] = rg2[i] /\ j > L
    BY <1>1, <1>8, <1>10
  <2>2. j - L \in 1..fit /\ rg2[L + (j - L)] = rg2[j]
    BY <1>8, <2>1
  <2>3. i - L < j - L /\ (j = i + 1 => j - L = (i - L) + 1)
    BY <1>1, <1>10
  <2> QED BY <1>5, <2>1, <2>2, <2>3
<1> QED
  BY <1>1, <1>2, <1>6, <1>7, <1>9, <1>10 DEF L

LEMMA AppendOwn ==
    ASSUME SegmentsAgree, NEW m \in Msgs, NEW seg \in Segments, OfResponse(seg, m),
           NEW want \in Nat \ {0}, want <= seg.len, NEW fit \in Nat \ {0}, fit <= Chunks(want),
           NEW rg, NEW rg2, Grown(rg, rg2, m, seg, want, fit),
           NEW acc, NEW c \in Nat, NEW sn,
           acc \/ Started(rg2, m, Len(rg2)) =>
              \A q \in Plan : In(q.seq, m) /\ q.seq < seg.seq => SeqKey(q.seq) \in sn \cup KeysOf(rg),
           Covered(rg, sn, m, acc, c), Ahead(rg, sn, m, acc, c)
    PROVE  Covered(rg2, sn, m, acc, c) /\ Ahead(rg2, sn, m, acc, c)
<1>1. /\ Len(rg) \in Nat /\ Len(rg2) = Len(rg) + fit /\ seg.seq \in Nat
      /\ \A i \in 1..Len(rg2) : i > Len(rg) =>
            /\ rg2[i] \in DataRecords /\ In(rg2[i].seq, m) /\ seg.seq <= rg2[i].seq
            /\ PieceOf(rg2[i]) \in Plan /\ Key(rg2[i]) = SeqKey(rg2[i].seq)
            /\ \A q \in Plan : seg.seq <= q.seq /\ q.seq < EndOf(rg2[i])
                  => SeqKey(q.seq) \in KeysOf(rg2)
  BY GrownFacts
<1>2. \A i, j \in 1..Len(rg2) : i > Len(rg) /\ i < j => EndOf(rg2[i]) <= rg2[j].seq
  BY GrownFacts
<1>3. /\ Len(rg2) \in Nat
      /\ \A i \in 1..Len(rg) : /\ i \in 1..Len(rg2)
                               /\ Counted(rg2, m, acc, i) <=> Counted(rg, m, acc, i)
                               /\ Fresh(rg2, sn, i) <=> Fresh(rg, sn, i)
      /\ \A i \in 0..Len(rg) : \A x : Reached(rg2, m, acc, c, i, x) <=> Reached(rg, m, acc, c, i, x)
      /\ KeysOf(rg) \subseteq KeysOf(rg2) /\ \A i \in 1..Len(rg) : rg2[i] = rg[i]
  <2>1. Longer(rg, rg2)
    BY DEF Grown
  <2> QED BY <2>1, LongerKeeps DEF Longer
<1>4. ASSUME NEW i \in 0..Len(rg2), NEW x, Reached(rg2, m, acc, c, i, x)
      PROVE  \/ Reached(rg, m, acc, c, Len(rg), x)
             \/ \E j \in 1..i : j > Len(rg) /\ Counted(rg2, m, acc, j) /\ x = EndOf(rg2[j])
  <2>1. CASE x = c
    BY <2>1 DEF Reached
  <2>2. ASSUME NEW j \in 1..i, Counted(rg2, m, acc, j), x = EndOf(rg2[j]), j <= Len(rg)
        PROVE  Reached(rg, m, acc, c, Len(rg), x)
    <3>1. j \in 1..Len(rg) /\ Counted(rg, m, acc, j) /\ x = EndOf(rg[j])
      BY <1>1, <1>3, <2>2
    <3> QED BY <3>1 DEF Reached
  <2> QED BY <1>1, <1>3, <1>4, <2>1, <2>2 DEF Reached
<1>5. Covered(rg2, sn, m, acc, c)
  <2> SUFFICES ASSUME NEW q \in Plan, NEW x \in Nat, In(q.seq, m),
                      Reached(rg2, m, acc, c, Len(rg2), x), q.seq < x
               PROVE  SeqKey(q.seq) \in sn \cup KeysOf(rg2)
    BY DEF Covered
  <2>1. CASE Reached(rg, m, acc, c, Len(rg), x)
    BY <1>3, <2>1 DEF Covered
  <2>2. ASSUME NEW j \in 1..Len(rg2), j > Len(rg), Counted(rg2, m, acc, j), x = EndOf(rg2[j])
        PROVE  SeqKey(q.seq) \in sn \cup KeysOf(rg2)
    <3>1. CASE seg.seq <= q.seq
      BY <1>1, <2>2, <3>1
    <3>2. CASE ~(seg.seq <= q.seq)
      <4>1. q.seq \in Nat
        BY DEF Plan
      <4>2. q.seq < seg.seq
        BY <1>1, <3>2, <4>1
      <4>3. acc \/ Started(rg2, m, Len(rg2))
        <5>1. 1..j \subseteq 1..Len(rg2)
          BY <1>3
        <5> QED BY <2>2, <5>1 DEF Counted, Started
      <4> QED BY <1>3, <4>2, <4>3
    <3> QED BY <3>1, <3>2
  <2>3. Len(rg2) \in 0..Len(rg2)
    BY <1>3
  <2> QED BY <1>4, <2>1, <2>2, <2>3
<1>6. Ahead(rg2, sn, m, acc, c)
  <2> SUFFICES ASSUME NEW i \in 1..Len(rg2), NEW x \in Nat, Counted(rg2, m, acc, i),
                      Fresh(rg2, sn, i), Reached(rg2, m, acc, c, i - 1, x)
               PROVE  x <= rg2[i].seq
    BY DEF Ahead
  <2>1. CASE i <= Len(rg)
    <3>1. i \in 1..Len(rg) /\ i - 1 \in 0..Len(rg) /\ rg2[i] = rg[i]
      BY <1>1, <1>3, <2>1
    <3>2. Counted(rg, m, acc, i) /\ Fresh(rg, sn, i) /\ Reached(rg, m, acc, c, i - 1, x)
      BY <1>3, <3>1
    <3> QED BY <3>1, <3>2 DEF Ahead
  <2>2. CASE i > Len(rg)
    <3>1. rg2[i] \in DataRecords /\ In(rg2[i].seq, m) /\ PieceOf(rg2[i]) \in Plan
          /\ Key(rg2[i]) = SeqKey(rg2[i].seq) /\ rg2[i].seq \in Nat
      BY <1>1, <2>2, RecordKinds
    <3>2. ASSUME Reached(rg, m, acc, c, Len(rg), x), rg2[i].seq < x PROVE FALSE
      <4>1. SeqKey(rg2[i].seq) \in sn \cup KeysOf(rg)
        <5>1. PieceOf(rg2[i]).seq = rg2[i].seq
          BY DEF PieceOf
        <5> QED BY <3>1, <3>2, <5>1 DEF Covered
      <4>2. Key(rg2[i]) \notin KeysOf(rg)
        <5> SUFFICES ASSUME NEW k \in 1..Len(rg), Key(rg2[i]) = Key(rg[k]) PROVE FALSE
          BY DEF KeysOf
        <5>1. k \in 1..(i - 1) /\ rg2[k] = rg[k]
          BY <1>1, <1>3, <2>2
        <5> QED BY <5>1 DEF Fresh
      <4> QED BY <3>1, <4>1, <4>2 DEF Fresh
    <3>3. ASSUME NEW j \in 1..(i - 1), j > Len(rg), x = EndOf(rg2[j]) PROVE x <= rg2[i].seq
      <4>1. j \in 1..Len(rg2) /\ j < i
        BY <1>3, <3>3
      <4> QED BY <1>2, <3>3, <4>1
    <3>4. i - 1 \in 0..Len(rg2)
      BY <1>3
    <3> QED BY <1>4, <3>1, <3>2, <3>3, <3>4
  <2> QED BY <1>1, <2>1, <2>2
<1> QED
  BY <1>5, <1>6

LEMMA ChainOwn ==
    ASSUME SegmentsAgree, NEW m \in Msgs, NEW seg \in Segments, OfResponse(seg, m),
           NEW want \in Nat \ {0}, want <= seg.len, NEW fit \in Nat \ {0}, fit <= Chunks(want),
           NEW rg, NEW rg2, Grown(rg, rg2, m, seg, want, fit),
           NEW acc, NEW c \in Nat, NEW sn,
           acc \/ Started(rg2, m, Len(rg) + 1),
           SeqKey(seg.seq) \notin sn \cup KeysOf(rg) => Reached(rg, m, acc, c, Len(rg), seg.seq),
           Chained(rg, sn, m, acc, c)
    PROVE  /\ Chained(rg2, sn, m, acc, c)
           /\ Reached(rg2, m, acc, c, Len(rg2), EndOf(rg2[Len(rg2)]))
<1>1. /\ Len(rg) \in Nat /\ Len(rg2) = Len(rg) + fit /\ seg.seq \in Nat
      /\ rg2[Len(rg) + 1].seq = seg.seq
      /\ \A i \in 1..Len(rg2) : i > Len(rg) =>
            rg2[i] \in DataRecords /\ In(rg2[i].seq, m) /\ Key(rg2[i]) = SeqKey(rg2[i].seq)
  BY GrownFacts
<1>2. \A i, j \in 1..Len(rg2) : i > Len(rg) /\ i < j
         => (j = i + 1 => EndOf(rg2[i]) = rg2[j].seq)
  BY GrownFacts
<1>3. /\ Len(rg2) \in Nat
      /\ \A i \in 1..Len(rg) : /\ i \in 1..Len(rg2)
                               /\ Counted(rg2, m, acc, i) <=> Counted(rg, m, acc, i)
                               /\ Fresh(rg2, sn, i) <=> Fresh(rg, sn, i)
      /\ \A i \in 0..Len(rg) : \A x : Reached(rg2, m, acc, c, i, x) <=> Reached(rg, m, acc, c, i, x)
      /\ \A i \in 1..Len(rg) : rg2[i] = rg[i]
  <2>1. Longer(rg, rg2)
    BY DEF Grown
  <2> QED BY <2>1, LongerKeeps DEF Longer
<1>4. ASSUME NEW i \in 1..Len(rg2), i > Len(rg) PROVE Counted(rg2, m, acc, i)
  <2>1. Data(rg2[i]) /\ In(rg2[i].seq, m)
    BY <1>1, <1>4, RecordKinds
  <2>2. Started(rg2, m, Len(rg) + 1) => Started(rg2, m, i)
    <3>1. 1..(Len(rg) + 1) \subseteq 1..i
      BY <1>1, <1>4
    <3> QED BY <3>1 DEF Started
  <2> QED BY <2>1, <2>2 DEF Counted
<1>5. ASSUME NEW i \in 1..Len(rg2), Data(rg2[i]), In(rg2[i].seq, m)
      PROVE  /\ Counted(rg2, m, acc, i)
             /\ Fresh(rg2, sn, i) => Reached(rg2, m, acc, c, i - 1, rg2[i].seq)
  <2>1. CASE i <= Len(rg)
    <3>1. i \in 1..Len(rg) /\ i - 1 \in 0..Len(rg) /\ rg2[i] = rg[i]
      BY <1>1, <1>3, <2>1
    <3>2. Counted(rg, m, acc, i) /\ (Fresh(rg, sn, i) => Reached(rg, m, acc, c, i - 1, rg[i].seq))
      BY <1>5, <3>1 DEF Chained
    <3> QED BY <1>3, <3>1, <3>2
  <2>2. CASE i = Len(rg) + 1
    <3>1. Counted(rg2, m, acc, i) /\ rg2[i].seq = seg.seq /\ i - 1 = Len(rg) /\ Len(rg) \in 0..Len(rg)
          /\ Key(rg2[i]) = SeqKey(seg.seq)
      BY <1>1, <1>4, <2>2
    <3>2. Fresh(rg2, sn, i) => SeqKey(seg.seq) \notin sn \cup KeysOf(rg)
      <4> SUFFICES ASSUME Fresh(rg2, sn, i), SeqKey(seg.seq) \in KeysOf(rg) PROVE FALSE
        BY <3>1 DEF Fresh
      <4>1. PICK k \in 1..Len(rg) : Key(rg[k]) = SeqKey(seg.seq)
        BY DEF KeysOf
      <4> QED BY <1>3, <3>1, <4>1 DEF Fresh
    <3> QED BY <1>3, <3>1, <3>2
  <2>3. CASE i > Len(rg) + 1
    <3>1. i - 1 \in 1..Len(rg2) /\ i - 1 > Len(rg) /\ i - 1 < i /\ i = (i - 1) + 1
      BY <1>1, <1>3, <2>3
    <3>2. EndOf(rg2[i - 1]) = rg2[i].seq /\ Counted(rg2, m, acc, i - 1) /\ Counted(rg2, m, acc, i)
      BY <1>1, <1>2, <1>4, <2>3, <3>1
    <3>3. i - 1 \in 1..(i - 1)
      BY <3>1
    <3> QED BY <3>2, <3>3 DEF Reached
  <2> QED BY <1>1, <2>1, <2>2, <2>3
<1>6. Chained(rg2, sn, m, acc, c)
  BY <1>5 DEF Chained
<1>7. Len(rg2) \in 1..Len(rg2) /\ Len(rg2) > Len(rg)
  BY <1>1
<1> QED
  BY <1>4, <1>6, <1>7 DEF Reached

\* What reading the head of a ring leaves.
LEMMA TailFacts ==
    ASSUME NEW rg \in Seq(Kept), rg # <<>>, NEW m, NEW sn
    PROVE  /\ rg[1] \in Kept /\ Tail(rg) \in Seq(Kept) /\ Len(rg) \in Nat \ {0}
           /\ Len(Tail(rg)) = Len(rg) - 1 /\ Len(Tail(rg)) \in Nat
           /\ KeysOf(rg) = KeysOf(Tail(rg)) \cup {Key(rg[1])}
           /\ \A i \in 1..Len(Tail(rg)) :
                 /\ i + 1 \in 1..Len(rg) /\ Tail(rg)[i] = rg[i + 1]
                 /\ Fresh(Tail(rg), sn \cup {Key(rg[1])}, i) <=> Fresh(rg, sn, i + 1)
                 /\ Started(rg, m, i + 1) <=> \/ Started(Tail(rg), m, i)
                                              \/ Data(rg[1]) /\ rg[1].seq = Start(m)
           /\ Started(rg, m, Len(rg)) <=> \/ Started(Tail(rg), m, Len(Tail(rg)))
                                          \/ Data(rg[1]) /\ rg[1].seq = Start(m)
<1> DEFINE t == Tail(rg)
<1>1. /\ rg[1] \in Kept /\ t \in Seq(Kept) /\ Len(rg) \in Nat \ {0} /\ Len(t) = Len(rg) - 1
      /\ \A i \in 1..Len(t) : t[i] = rg[i + 1]
  OBVIOUS
<1> HIDE DEF t
<1>2. \A i \in 1..Len(rg) : i # 1 => i - 1 \in 1..Len(t) /\ t[i - 1] = rg[i]
  BY <1>1
<1>3. \A i \in 1..Len(t) : i + 1 \in 1..Len(rg) /\ t[i] = rg[i + 1] /\ i \in Nat \ {0}
  BY <1>1
<1>4. KeysOf(rg) = KeysOf(t) \cup {Key(rg[1])}
  <2>1. ASSUME NEW k \in KeysOf(rg) PROVE k \in KeysOf(t) \cup {Key(rg[1])}
    <3>1. PICK i \in 1..Len(rg) : k = Key(rg[i])
      BY <2>1 DEF KeysOf
    <3>2. i # 1 => i - 1 \in 1..Len(t) /\ t[i - 1] = rg[i]
      BY <1>2
    <3> QED BY <3>1, <3>2 DEF KeysOf
  <2>2. ASSUME NEW k \in KeysOf(t) PROVE k \in KeysOf(rg)
    <3>1. PICK i \in 1..Len(t) : k = Key(t[i])
      BY <2>2 DEF KeysOf
    <3>2. i + 1 \in 1..Len(rg) /\ t[i] = rg[i + 1]
      BY <1>3
    <3> QED BY <3>1, <3>2 DEF KeysOf
  <2>3. Key(rg[1]) \in KeysOf(rg)
    <3>1. 1 \in 1..Len(rg)
      BY <1>1
    <3> QED BY <3>1 DEF KeysOf
  <2> QED BY <2>1, <2>2, <2>3
<1>5. ASSUME NEW i \in 1..Len(t)
      PROVE  Fresh(t, sn \cup {Key(rg[1])}, i) <=> Fresh(rg, sn, i + 1)
  <2>1. \A j \in 1..(i - 1) : j + 1 \in 1..((i + 1) - 1) /\ t[j] = rg[j + 1]
    BY <1>1, <1>3
  <2>2. \A j \in 1..((i + 1) - 1) : j = 1 \/ (j - 1 \in 1..(i - 1) /\ t[j - 1] = rg[j])
    BY <1>1, <1>2, <1>3
  <2>3. 1 \in 1..((i + 1) - 1)
    BY <1>3
  <2>4. Fresh(t, sn \cup {Key(rg[1])}, i) => Fresh(rg, sn, i + 1)
    BY <1>3, <2>2 DEF Fresh
  <2>5. Fresh(rg, sn, i + 1) => Fresh(t, sn \cup {Key(rg[1])}, i)
    BY <1>3, <2>1, <2>3 DEF Fresh
  <2> QED BY <2>4, <2>5 DEF Fresh
<1>6. ASSUME NEW i \in 0..Len(t)
      PROVE  Started(rg, m, i + 1) <=> Started(t, m, i) \/ (Data(rg[1]) /\ rg[1].seq = Start(m))
  <2>1. \A j \in 1..i : j + 1 \in 1..(i + 1) /\ t[j] = rg[j + 1]
    BY <1>1, <1>3
  <2>2. \A j \in 1..(i + 1) : j = 1 \/ (j - 1 \in 1..i /\ t[j - 1] = rg[j])
    BY <1>1, <1>2
  <2>3. 1 \in 1..(i + 1)
    BY <1>1
  <2> QED BY <2>1, <2>2, <2>3 DEF Started
<1>7. Len(t) \in 0..Len(t) /\ Len(t) + 1 = Len(rg) /\ 1..Len(t) \subseteq 0..Len(t) /\ Len(t) \in Nat
  BY <1>1
<1>8. ASSUME NEW i \in 1..Len(t)
      PROVE  Started(rg, m, i + 1) <=> Started(t, m, i) \/ (Data(rg[1]) /\ rg[1].seq = Start(m))
  BY <1>6, <1>7
<1>9. Started(rg, m, Len(rg)) <=> Started(t, m, Len(t)) \/ (Data(rg[1]) /\ rg[1].seq = Start(m))
  BY <1>6, <1>7
<1> QED
  BY <1>1, <1>3, <1>4, <1>5, <1>7, <1>8, <1>9 DEF t

LEMMA TailReached ==
    ASSUME NEW rg \in Seq(Kept), rg # <<>>, NEW m, NEW acc, NEW acc2, NEW c, NEW c2,
           acc2 <=> acc \/ (Data(rg[1]) /\ rg[1].seq = Start(m)),
           Reached(rg, m, acc, c, 1, c2)
    PROVE  /\ \A i \in 1..Len(Tail(rg)) :
                 Counted(Tail(rg), m, acc2, i) <=> Counted(rg, m, acc, i + 1)
           /\ \A i \in 0..Len(Tail(rg)) : \A x :
                 Reached(Tail(rg), m, acc2, c2, i, x) => Reached(rg, m, acc, c, i + 1, x)
           /\ \A i \in 0..Len(Tail(rg)) : \A x : Reached(rg, m, acc, c, i + 1, x)
                 => \/ Reached(Tail(rg), m, acc2, c2, i, x) \/ x = c
                    \/ Counted(rg, m, acc, 1) /\ x = EndOf(rg[1])
<1> DEFINE t == Tail(rg)
<1>1. /\ Len(rg) \in Nat \ {0} /\ Len(t) = Len(rg) - 1 /\ Len(t) \in Nat
      /\ \A i \in 1..Len(t) :
                 /\ i + 1 \in 1..Len(rg) /\ t[i] = rg[i + 1]
                 /\ Started(rg, m, i + 1) <=> \/ Started(t, m, i)
                                              \/ Data(rg[1]) /\ rg[1].seq = Start(m)
  BY TailFacts
<1> HIDE DEF t
<1>2. ASSUME NEW i \in 1..Len(t) PROVE Counted(t, m, acc2, i) <=> Counted(rg, m, acc, i + 1)
  BY <1>1 DEF Counted
<1>3. ASSUME NEW i \in 0..Len(t), NEW x, Reached(t, m, acc2, c2, i, x)
      PROVE  Reached(rg, m, acc, c, i + 1, x)
  <2>1. CASE x = c2
    <3>1. 1..1 \subseteq 1..(i + 1)
      BY <1>1
    <3> QED BY <2>1, <3>1 DEF Reached
  <2>2. ASSUME NEW j \in 1..i, Counted(t, m, acc2, j), x = EndOf(t[j])
        PROVE  Reached(rg, m, acc, c, i + 1, x)
    <3>1. j \in 1..Len(t) /\ j + 1 \in 1..(i + 1)
      BY <1>1, <2>2
    <3>2. Counted(rg, m, acc, j + 1) /\ x = EndOf(rg[j + 1])
      BY <1>1, <1>2, <2>2, <3>1
    <3> QED BY <3>1, <3>2 DEF Reached
  <2> QED BY <1>3, <2>1, <2>2 DEF Reached
<1>4. ASSUME NEW i \in 0..Len(t), NEW x, Reached(rg, m, acc, c, i + 1, x)
      PROVE  \/ Reached(t, m, acc2, c2, i, x) \/ x = c
             \/ Counted(rg, m, acc, 1) /\ x = EndOf(rg[1])
  <2> SUFFICES ASSUME NEW j \in 1..(i + 1), j # 1, Counted(rg, m, acc, j), x = EndOf(rg[j])
               PROVE  Reached(t, m, acc2, c2, i, x)
    BY <1>4 DEF Reached
  <2>1. j - 1 \in 1..i /\ j - 1 \in 1..Len(t) /\ (j - 1) + 1 = j
    BY <1>1
  <2>2. Counted(t, m, acc2, j - 1) /\ x = EndOf(t[j - 1])
    BY <1>1, <1>2, <2>1
  <2> QED BY <2>1, <2>2 DEF Reached
<1> QED
  BY <1>2, <1>3, <1>4 DEF t

LEMMA TailOpen ==
    ASSUME NEW rg \in Seq(Kept), rg # <<>>, NEW m, NEW acc, NEW acc2, NEW c, NEW c2, NEW sn,
           acc2 <=> acc \/ (Data(rg[1]) /\ rg[1].seq = Start(m)),
           Reached(rg, m, acc, c, 1, c2),
           Covered(rg, sn, m, acc, c), Ahead(rg, sn, m, acc, c)
    PROVE  /\ Covered(Tail(rg), sn \cup {Key(rg[1])}, m, acc2, c2)
           /\ Ahead(Tail(rg), sn \cup {Key(rg[1])}, m, acc2, c2)
<1> DEFINE t == Tail(rg)
<1>1. /\ Len(rg) \in Nat \ {0} /\ Len(t) = Len(rg) - 1 /\ Len(t) \in Nat
      /\ KeysOf(rg) = KeysOf(t) \cup {Key(rg[1])}
      /\ \A i \in 1..Len(t) :
                 /\ i + 1 \in 1..Len(rg) /\ t[i] = rg[i + 1]
                 /\ Fresh(t, sn \cup {Key(rg[1])}, i) <=> Fresh(rg, sn, i + 1)
  BY TailFacts
<1>2. /\ \A i \in 1..Len(t) : Counted(t, m, acc2, i) <=> Counted(rg, m, acc, i + 1)
      /\ \A i \in 0..Len(t) : \A x : Reached(t, m, acc2, c2, i, x) => Reached(rg, m, acc, c, i + 1, x)
  BY TailReached
<1> HIDE DEF t
<1>3. Covered(t, sn \cup {Key(rg[1])}, m, acc2, c2)
  <2> SUFFICES ASSUME NEW q \in Plan, NEW x \in Nat, In(q.seq, m),
                      Reached(t, m, acc2, c2, Len(t), x), q.seq < x
               PROVE  SeqKey(q.seq) \in sn \cup {Key(rg[1])} \cup KeysOf(t)
    BY DEF Covered
  <2>1. Reached(rg, m, acc, c, Len(rg), x)
    <3>1. Len(t) \in 0..Len(t) /\ Len(t) + 1 = Len(rg)
      BY <1>1
    <3> QED BY <1>2, <3>1
  <2> QED BY <1>1, <2>1 DEF Covered
<1>4. Ahead(t, sn \cup {Key(rg[1])}, m, acc2, c2)
  <2> SUFFICES ASSUME NEW i \in 1..Len(t), NEW x \in Nat, Counted(t, m, acc2, i),
                      Fresh(t, sn \cup {Key(rg[1])}, i), Reached(t, m, acc2, c2, i - 1, x)
               PROVE  x <= t[i].seq
    BY DEF Ahead
  <2>1. i - 1 \in 0..Len(t) /\ (i - 1) + 1 = (i + 1) - 1
    BY <1>1
  <2>2. Reached(rg, m, acc, c, (i + 1) - 1, x)
    BY <1>2, <2>1
  <2> QED BY <1>1, <1>2, <2>2 DEF Ahead
<1> QED
  BY <1>3, <1>4 DEF t

\* ...for a pair without a hole so far: the head is not of m...
LEMMA TailChainOther ==
    ASSUME NEW rg \in Seq(Kept), rg # <<>>, NEW m \in Msgs, NEW acc, NEW c, NEW sn,
           ~(Data(rg[1]) /\ In(rg[1].seq, m)), Chained(rg, sn, m, acc, c)
    PROVE  /\ Chained(Tail(rg), sn \cup {Key(rg[1])}, m, acc, c)
           /\ \A x : Reached(rg, m, acc, c, Len(rg), x)
                        => Reached(Tail(rg), m, acc, c, Len(Tail(rg)), x)
<1> DEFINE t == Tail(rg)
<1>1. /\ Len(rg) \in Nat \ {0} /\ Len(t) = Len(rg) - 1 /\ Len(t) \in Nat /\ rg[1] \in Kept
      /\ \A i \in 1..Len(t) :
                 /\ i + 1 \in 1..Len(rg) /\ t[i] = rg[i + 1]
                 /\ Fresh(t, sn \cup {Key(rg[1])}, i) <=> Fresh(rg, sn, i + 1)
  BY TailFacts
<1>2. acc <=> acc \/ (Data(rg[1]) /\ rg[1].seq = Start(m))
  BY ResponseFacts
<1>3. Reached(rg, m, acc, c, 1, c)
  BY DEF Reached
<1>4. /\ \A i \in 1..Len(t) : Counted(t, m, acc, i) <=> Counted(rg, m, acc, i + 1)
      /\ \A i \in 0..Len(t) : \A x : Reached(rg, m, acc, c, i + 1, x)
                 => \/ Reached(t, m, acc, c, i, x) \/ x = c
                    \/ Counted(rg, m, acc, 1) /\ x = EndOf(rg[1])
  BY <1>2, <1>3, TailReached
<1> HIDE DEF t
<1>5. \A i \in 0..Len(t) : \A x : Reached(rg, m, acc, c, i + 1, x) => Reached(t, m, acc, c, i, x)
  BY <1>4 DEF Counted, Reached
<1>6. ASSUME NEW i \in 1..Len(t), Data(t[i]), In(t[i].seq, m)
      PROVE  /\ Counted(t, m, acc, i)
             /\ Fresh(t, sn \cup {Key(rg[1])}, i) => Reached(t, m, acc, c, i - 1, t[i].seq)
  <2>1. i - 1 \in 0..Len(t) /\ (i - 1) + 1 = (i + 1) - 1
    BY <1>1
  <2>2. Counted(rg, m, acc, i + 1) /\ (Fresh(rg, sn, i + 1) => Reached(rg, m, acc, c, (i + 1) - 1, rg[i + 1].seq))
    BY <1>1, <1>6 DEF Chained
  <2> QED BY <1>1, <1>4, <1>5, <2>1, <2>2
<1>7. ASSUME NEW q \in Plan, In(q.seq, m), SeqKey(q.seq) \in sn \cup {Key(rg[1])}
      PROVE  q.seq + q.len <= c
  <2>1. SeqKey(q.seq) # Key(rg[1])
    BY <1>7 DEF SeqKey, Key, Data
  <2> QED BY <1>7, <2>1 DEF Chained
<1>8. Len(t) \in 0..Len(t) /\ Len(t) + 1 = Len(rg)
  BY <1>1
<1> QED
  BY <1>5, <1>6, <1>7, <1>8 DEF Chained, t

\* ...the head was taken before...
LEMMA TailChainAgain ==
    ASSUME NEW rg \in Seq(Kept), rg # <<>>, NEW m \in Msgs, NEW acc, NEW c \in Nat, NEW sn,
           Data(rg[1]), In(rg[1].seq, m), Key(rg[1]) \in sn, PieceOf(rg[1]) \in Plan,
           acc \/ rg[1].seq # Start(m),
           Chained(rg, sn, m, acc, c), Ahead(rg, sn, m, acc, c)
    PROVE  /\ Chained(Tail(rg), sn \cup {Key(rg[1])}, m, acc, c)
           /\ \A x \in Nat : Reached(rg, m, acc, c, Len(rg), x)
                        => \E y \in Nat : x <= y /\ Reached(Tail(rg), m, acc, c, Len(Tail(rg)), y)
<1> DEFINE t == Tail(rg)
<1>1. /\ Len(rg) \in Nat \ {0} /\ Len(t) = Len(rg) - 1 /\ Len(t) \in Nat /\ rg[1] \in Kept
      /\ \A i \in 1..Len(t) :
                 /\ i + 1 \in 1..Len(rg) /\ t[i] = rg[i + 1]
                 /\ Fresh(t, sn \cup {Key(rg[1])}, i) <=> Fresh(rg, sn, i + 1)
  BY TailFacts
<1>0. rg[1] \in DataRecords /\ rg[1].seq \in Nat /\ EndOf(rg[1]) \in Nat
  BY <1>1, RecordKinds
<1>2. acc <=> acc \/ (Data(rg[1]) /\ rg[1].seq = Start(m))
  OBVIOUS
<1>3. Reached(rg, m, acc, c, 1, c)
  BY DEF Reached
<1>4. /\ \A i \in 1..Len(t) : Counted(t, m, acc, i) <=> Counted(rg, m, acc, i + 1)
      /\ \A i \in 0..Len(t) : \A x : Reached(rg, m, acc, c, i + 1, x)
                 => \/ Reached(t, m, acc, c, i, x) \/ x = c
                    \/ Counted(rg, m, acc, 1) /\ x = EndOf(rg[1])
  BY <1>2, <1>3, TailReached
<1> HIDE DEF t
<1>5. EndOf(rg[1]) <= c
  <2>1. PieceOf(rg[1]).seq = rg[1].seq /\ PieceOf(rg[1]).len = rg[1].len
    BY DEF PieceOf
  <2>2. SeqKey(rg[1].seq) \in sn
    BY DEF SeqKey, Key, Data
  <2> QED BY <2>1, <2>2 DEF Chained, EndOf
<1>6. ASSUME NEW i \in 1..Len(t), Data(t[i]), In(t[i].seq, m)
      PROVE  /\ Counted(t, m, acc, i)
             /\ Fresh(t, sn \cup {Key(rg[1])}, i) => Reached(t, m, acc, c, i - 1, t[i].seq)
  <2>1. i - 1 \in 0..Len(t) /\ (i - 1) + 1 = (i + 1) - 1
    BY <1>1
  <2>2. Counted(rg, m, acc, i + 1) /\ (Fresh(rg, sn, i + 1) => Reached(rg, m, acc, c, (i + 1) - 1, rg[i + 1].seq))
    BY <1>1, <1>6 DEF Chained
  <2>3. Fresh(rg, sn, i + 1) => c <= t[i].seq
    BY <1>1, <1>3, <2>2 DEF Ahead, Reached
  <2>4. t[i].seq \in Nat
    BY <1>1, <1>6, RecordKinds
  <2>5. ASSUME Fresh(rg, sn, i + 1) PROVE Reached(t, m, acc, c, i - 1, t[i].seq)
    <3>1. Reached(rg, m, acc, c, (i - 1) + 1, t[i].seq)
      BY <1>1, <2>1, <2>2, <2>5
    <3>2. \/ Reached(t, m, acc, c, i - 1, t[i].seq) \/ t[i].seq = c
          \/ t[i].seq = EndOf(rg[1])
      BY <1>4, <2>1, <3>1
    <3>3. t[i].seq = EndOf(rg[1]) => t[i].seq = c
      BY <1>0, <1>5, <2>3, <2>5
    <3> QED BY <3>2, <3>3 DEF Reached
  <2> QED BY <1>1, <1>4, <2>2, <2>5
<1>7. ASSUME NEW q \in Plan, In(q.seq, m), SeqKey(q.seq) \in sn \cup {Key(rg[1])}
      PROVE  q.seq + q.len <= c
  BY <1>7 DEF Chained
<1>8. Len(t) \in 0..Len(t) /\ Len(t) + 1 = Len(rg)
  BY <1>1
<1>9. ASSUME NEW x \in Nat, Reached(rg, m, acc, c, Len(rg), x)
      PROVE  \E y \in Nat : x <= y /\ Reached(t, m, acc, c, Len(t), y)
  <2>1. \/ Reached(t, m, acc, c, Len(t), x) \/ x = c \/ x = EndOf(rg[1])
    BY <1>4, <1>8, <1>9
  <2>2. Reached(t, m, acc, c, Len(t), c)
    BY DEF Reached
  <2> QED BY <1>5, <2>1, <2>2
<1>10. Chained(t, sn \cup {Key(rg[1])}, m, acc, c)
  BY <1>6, <1>7 DEF Chained
<1> QED
  BY <1>9, <1>10 DEF t

\* ...or it is taken now.
LEMMA TailChainNew ==
    ASSUME SegmentsAgree,
           NEW rg \in Seq(Kept), rg # <<>>, NEW m \in Msgs, NEW acc, NEW acc2, NEW c \in Nat, NEW sn,
           Data(rg[1]), In(rg[1].seq, m), Key(rg[1]) \notin sn, PieceOf(rg[1]) \in Plan,
           acc2 <=> acc \/ (Data(rg[1]) /\ rg[1].seq = Start(m)),
           Chained(rg, sn, m, acc, c)
    PROVE  /\ rg[1].seq = c
           /\ Reached(rg, m, acc, c, 1, EndOf(rg[1]))
           /\ Chained(Tail(rg), sn \cup {Key(rg[1])}, m, acc2, EndOf(rg[1]))
           /\ \A x \in Nat : Reached(rg, m, acc, c, Len(rg), x)
                 => \E y \in Nat : x <= y /\ Reached(Tail(rg), m, acc2, EndOf(rg[1]), Len(Tail(rg)), y)
<1> DEFINE t == Tail(rg)
           c2 == EndOf(rg[1])
<1>1. /\ Len(rg) \in Nat \ {0} /\ Len(t) = Len(rg) - 1 /\ Len(t) \in Nat /\ rg[1] \in Kept
      /\ \A i \in 1..Len(t) :
                 /\ i + 1 \in 1..Len(rg) /\ t[i] = rg[i + 1]
                 /\ Fresh(t, sn \cup {Key(rg[1])}, i) <=> Fresh(rg, sn, i + 1)
  BY TailFacts
<1>0. rg[1] \in DataRecords /\ rg[1].seq \in Nat /\ c2 \in Nat /\ rg[1].seq < c2
  BY <1>1, RecordKinds
<1>2. Counted(rg, m, acc, 1) /\ rg[1].seq = c
  <2>1. 1 \in 1..Len(rg) /\ Fresh(rg, sn, 1)
    BY <1>1 DEF Fresh
  <2>2. Counted(rg, m, acc, 1) /\ Reached(rg, m, acc, c, 1 - 1, rg[1].seq)
    BY <2>1 DEF Chained
  <2> QED BY <2>2 DEF Reached
<1>3. Reached(rg, m, acc, c, 1, c2)
  BY <1>2 DEF Reached
<1>4. /\ \A i \in 1..Len(t) : Counted(t, m, acc2, i) <=> Counted(rg, m, acc, i + 1)
      /\ \A i \in 0..Len(t) : \A x : Reached(rg, m, acc, c, i + 1, x)
                 => \/ Reached(t, m, acc2, c2, i, x) \/ x = c
                    \/ Counted(rg, m, acc, 1) /\ x = EndOf(rg[1])
  BY <1>3, TailReached
<1> HIDE DEF t
<1>5. \A i \in 0..Len(t) : \A x : Reached(rg, m, acc, c, i + 1, x) => Reached(t, m, acc2, c2, i, x) \/ x = c
  BY <1>4 DEF Reached
<1> HIDE DEF c2
<1>6. ASSUME NEW i \in 1..Len(t), Data(t[i]), In(t[i].seq, m)
      PROVE  /\ Counted(t, m, acc2, i)
             /\ Fresh(t, sn \cup {Key(rg[1])}, i) => Reached(t, m, acc2, c2, i - 1, t[i].seq)
  <2>1. i - 1 \in 0..Len(t) /\ (i - 1) + 1 = (i + 1) - 1
    BY <1>1
  <2>2. Counted(rg, m, acc, i + 1) /\ (Fresh(rg, sn, i + 1) => Reached(rg, m, acc, c, (i + 1) - 1, rg[i + 1].seq))
    BY <1>1, <1>6 DEF Chained
  <2>3. ASSUME Fresh(rg, sn, i + 1) PROVE t[i].seq # c
    <3>1. 1 \in 1..((i + 1) - 1)
      BY <1>1
    <3>2. Key(t[i]) # Key(rg[1])
      BY <1>1, <2>3, <3>1 DEF Fresh
    <3> QED BY <1>2, <1>6, <3>2 DEF Key, Data
  <2> QED BY <1>1, <1>4, <1>5, <2>1, <2>2, <2>3
<1>7. ASSUME NEW q \in Plan, In(q.seq, m), SeqKey(q.seq) \in sn \cup {Key(rg[1])}
      PROVE  q.seq + q.len <= c2
  <2>1. CASE SeqKey(q.seq) \in sn
    <3>1. q.seq + q.len <= c /\ q.seq + q.len \in Nat
      BY <1>7, <2>1 DEF Chained, Plan
    <3> QED BY <1>0, <1>2, <3>1
  <2>2. CASE SeqKey(q.seq) = Key(rg[1])
    <3>1. q.seq = rg[1].seq
      BY <2>2 DEF SeqKey, Key, Data
    <3>2. PieceOf(rg[1]).seq = rg[1].seq /\ PieceOf(rg[1]).len = rg[1].len
      BY DEF PieceOf
    <3>3. q = PieceOf(rg[1])
      BY <3>1, <3>2, PiecesApart
    <3>4. q.seq + q.len = c2
      BY <3>2, <3>3 DEF EndOf, c2
    <3> QED BY <1>0, <3>4
  <2> QED BY <1>7, <2>1, <2>2
<1>8. Len(t) \in 0..Len(t) /\ Len(t) + 1 = Len(rg)
  BY <1>1
<1>9. ASSUME NEW x \in Nat, Reached(rg, m, acc, c, Len(rg), x)
      PROVE  \E y \in Nat : x <= y /\ Reached(t, m, acc2, c2, Len(t), y)
  <2>1. Reached(t, m, acc2, c2, Len(t), x) \/ x = c
    BY <1>5, <1>8, <1>9
  <2>2. Reached(t, m, acc2, c2, Len(t), c2)
    BY DEF Reached
  <2> QED BY <1>0, <1>2, <2>1, <2>2
<1>10. Chained(t, sn \cup {Key(rg[1])}, m, acc2, c2)
  BY <1>6, <1>7 DEF Chained
<1> QED
  BY <1>2, <1>3, <1>9, <1>10 DEF t, c2

LEMMA PlanSight ==
    ASSUME Types, Order, PlanInv, SegmentsAgree, NEW seg \in Segments, Sight(seg)
    PROVE  PlanInv'
<1>1. asked \in Msgs /\ OfResponse(seg, asked)
  BY SightShips
<1>2. /\ seg.seq \in Nat /\ seg.len \in Nat \ {0} /\ (IsFirst(seg) <=> seg.seq = Start(asked))
      /\ Start(asked) <= seg.seq /\ seg.seq + seg.len <= Last(asked)
      /\ Start(asked) \in Nat /\ Last(asked) \in Nat /\ Responses[asked].extra \in Nat
  BY <1>1, SegmentFacts, ResponseFacts
<1>3. CASE UNCHANGED ring /\ win' \in {win, Nothing}
  BY <1>3 DEF PlanInv
<1>4. ASSUME Wanted(seg), NEW want \in Nat \ {0}, NEW fit \in Nat, want <= seg.len,
             \/ want = Least(seg.len, Limit(seg))
             \/ want = ChunkMax /\ want < Least(seg.len, Limit(seg)) /\ IsFirst(seg),
             Shipped(seg, want, fit)
      PROVE  PlanInv'
  <2>1. /\ Len(ring') = Len(ring) + fit /\ Len(ring) \in Nat
        /\ \A i \in 1..Len(ring) : ring'[i] = ring[i]
        /\ \A i \in 1..fit : ring'[Len(ring) + i] = Chunk(seg, want, i)
    BY <1>1, <1>4, ShippedRecords
  <2>2. ASSUME NEW i \in 1..Len(ring'), Data(ring'[i]) PROVE PieceOf(ring'[i]) \in Plan
    <3>1. CASE i \in 1..Len(ring)
      BY <2>1, <2>2, <3>1 DEF PlanInv
    <3>2. CASE i \notin 1..Len(ring)
      <4>1. i - Len(ring) \in 1..fit /\ i = Len(ring) + (i - Len(ring))
        BY <2>1, <3>2
      <4>2. i - Len(ring) \in Nat \ {0} /\ i - Len(ring) <= Chunks(want)
        <5>1. Chunks(want) \in Nat /\ fit \in 0..Chunks(want)
          BY <1>4, ChunksFacts DEF Shipped
        <5> QED BY <2>1, <4>1, <5>1
      <4>3. PieceOf(Chunk(seg, want, i - Len(ring))) \in Plan
        BY <1>1, <1>4, <4>2, ShippedPlan
      <4>4. ring'[i] = Chunk(seg, want, i - Len(ring))
        BY <2>1, <4>1
      <4> QED BY <4>3, <4>4
    <3> QED BY <3>1, <3>2
  <2>3. ASSUME win' # Nothing, NEW m \in Msgs, Start(m) < win'.next, win'.next <= Last(m)
        PROVE  win'.remaining = BudgetAt(win'.next, m) /\ FirstLen(m) \in Nat
    <3>1. CASE fit = 0
      <4>1. win' = win
        BY <1>4, <3>1 DEF Shipped
      <4> QED BY <2>3, <4>1 DEF PlanInv
    <3>2. CASE fit > 0
      <4> DEFINE off == Least(want, fit * ChunkMax)
      <4>1. /\ off = seg.len /\ win'.next = seg.seq + seg.len
            /\ win'.remaining = IF IsFirst(seg) THEN Responses[asked].extra ELSE win.remaining - off
        BY <1>4, <2>3, <3>2 DEF Shipped
      <4>2. m = asked
        <5>1. Start(m) \in Nat /\ Last(m) \in Nat
          BY ResponseFacts
        <5>2. win'.next - 1 \in Nat /\ In(win'.next - 1, m) /\ In(win'.next - 1, asked)
          BY <1>1, <1>2, <2>3, <4>1, <5>1 DEF In
        <5> QED BY <5>2, InOrderOfMsgs
      <4>3. CASE IsFirst(seg)
        <5>1. seg.seq = Start(asked) /\ FirstLen(asked) = seg.len
          BY <1>1, <1>2, <4>3, FirstLenIs
        <5>2. win'.remaining = Responses[asked].extra
          BY <4>1, <4>3
        <5> QED BY <1>2, <4>1, <4>2, <5>1, <5>2 DEF BudgetAt
      <4>4. CASE ~IsFirst(seg)
        <5>1. win # Nothing /\ win.next = seg.seq /\ Start(asked) < win.next
          BY <1>1, <1>4, <4>4, Continues
        <5>2. win.next <= Last(asked)
          BY <1>2, <5>1
        <5>3. win.remaining = BudgetAt(seg.seq, asked) /\ FirstLen(asked) \in Nat
          BY <1>1, <5>1, <5>2 DEF PlanInv
        <5>4. win'.remaining = win.remaining - seg.len
          BY <4>1, <4>4
        <5> HIDE DEF off
        <5> QED BY <1>2, <4>1, <4>2, <5>3, <5>4 DEF BudgetAt
      <4> QED BY <4>3, <4>4
    <3> QED BY <3>1, <3>2
  <2> QED BY <2>2, <2>3 DEF PlanInv
<1>5. \/ UNCHANGED ring /\ win' \in {win, Nothing}
      \/ /\ Wanted(seg)
         /\ \E want \in Nat \ {0} : \E fit \in Nat :
              /\ want <= seg.len
              /\ \/ want = Least(seg.len, Limit(seg))
                 \/ want = ChunkMax /\ want < Least(seg.len, Limit(seg)) /\ IsFirst(seg)
              /\ Shipped(seg, want, fit)
  BY SightShips DEF kernel
<1> QED
  BY <1>3, <1>4, <1>5

LEMMA PlanHolds == Spec => []PlanInv
<1>1. Init => PlanInv
  BY DEF Init, PlanInv
<1>2. Types /\ Order /\ PlanInv /\ [Next]_vars => PlanInv'
  <2> SUFFICES ASSUME Types, Order, PlanInv, SegmentsAgree, [Next]_vars PROVE PlanInv'
    BY DEF PlanInv
  <2>1. ASSUME NEW seg \in Segments, Sight(seg) PROVE PlanInv'
    BY <2>1, PlanSight
  <2>2. ASSUME NEW k \in Msgs, SightRequest(k) PROVE PlanInv'
    <3> DEFINE new == [kind |-> "request", msg |-> k]
    <3>1. win' = win /\ (ring' = ring \/ ring' = Append(ring, new))
      BY <2>2 DEF SightRequest
    <3>2. ring \in Seq(Kept) /\ ~Data(new)
      BY DEF Types, Data
    <3> HIDE DEF new
    <3>3. \A i \in 1..Len(ring') : Data(ring'[i]) => i \in 1..Len(ring) /\ ring'[i] = ring[i]
      BY <3>1, <3>2
    <3> QED BY <3>1, <3>3 DEF PlanInv
  <2>3. CASE WindowEvicted
    BY <2>3 DEF WindowEvicted, PlanInv
  <2>4. CASE Consume
    <3>1. /\ win' = win /\ Len(ring) \in Nat \ {0} /\ Len(ring') = Len(ring) - 1
          /\ \A i \in 1..Len(ring') : ring'[i] = ring[i + 1]
      BY <2>4, ConsumeReads
    <3>2. \A i \in 1..Len(ring') : i + 1 \in 1..Len(ring)
      BY <3>1
    <3> QED BY <3>1, <3>2 DEF PlanInv
  <2>5. ASSUME NEW n \in 1..Len(recent), Drain(n) PROVE PlanInv'
    BY <2>5, DrainKeeps DEF PlanInv
  <2>6. CASE Lapse
    BY <2>6, LapseForgets DEF PlanInv
  <2>7. CASE UNCHANGED vars
    BY <2>7 DEF vars, kernel, PlanInv
  <2> QED BY <2>1, <2>2, <2>3, <2>4, <2>5, <2>6, <2>7 DEF Next
<1> QED
  BY <1>1, <1>2, TypesHold, OrderHolds, PTL DEF Spec

-----------------------------------------------------------------------------
(* What will be stitched.                                                    *)

OnSlot(m) == slot # 0 /\ recent[slot].msg = m /\ Current(recent[slot])
\* Where the next byte goes.
Pos(m) == IF OnSlot(m) THEN recent[slot].got[Taken(recent[slot])] + 1 ELSE Start(m)
\* A pair of m collects, or one may begin.
Open(m) == OnSlot(m) \/ SeqKey(Start(m)) \notin seen
Behind(m) == \A q \in Plan :
    In(q.seq, m) /\ q.seq < win.next => SeqKey(q.seq) \in seen \cup KeysOf(ring)
OpenAt(m) ==
    /\ Covered(ring, seen, m, OnSlot(m), Pos(m))
    /\ Ahead(ring, seen, m, OnSlot(m), Pos(m))
    /\ WinIn(m) /\ (OnSlot(m) \/ Started(ring, m, Len(ring))) => Behind(m)

\* A response that will make its first pair: a request waits for it...
Expecting(m) == /\ NoPair(m) /\ m <= asked
                /\ \/ \E i \in 1..Len(pending) : pending[i] <= m
                   \/ \E i \in 1..Len(ring) : ~Data(ring[i]) /\ ring[i].msg <= m
\* ...or has made it and goes on.
Live(m) == \/ OnSlot(m) /\ IsFirstPair(slot)
           \/ /\ Expecting(m)
              /\ m = asked \/ \E i \in 1..Len(ring) : Data(ring[i]) /\ In(ring[i].seq, m)
LiveAt(m) ==
    /\ Chained(ring, seen, m, OnSlot(m), Pos(m))
    /\ WinIn(m) => \E x \in Nat : win.next <= x /\ Reached(ring, m, OnSlot(m), Pos(m), Len(ring), x)
    /\ ~OnSlot(m) => /\ \A p \in Nat : In(p, m) => SeqKey(p) \notin seen
                     /\ WinIn(m) => Started(ring, m, Len(ring))
StitchingAt(m) == (Open(m) => OpenAt(m)) /\ (Live(m) => LiveAt(m))
Stitching == SegmentsAgree => \A m \in Msgs : StitchingAt(m)

LEMMA SlotFacts ==
    ASSUME Types, SlotInv, NEW m \in Msgs
    PROVE  /\ Pos(m) \in Nat
           /\ OnSlot(m) => /\ slot \in 1..Len(recent) /\ slot = Len(recent)
                           /\ recent[slot] \in Pairs /\ recent[slot].msg = m
                           /\ ~Full(recent[slot]) /\ Taken(recent[slot]) \in Nat \ {0}
                           /\ recent[slot].got \in Seq(Nat)
                           /\ SeqKey(Start(m)) \in seen /\ ~NoPair(m)
<1>1. Start(m) \in Nat
  BY ResponseFacts
<1>2. ASSUME OnSlot(m)
      PROVE  /\ slot \in 1..Len(recent) /\ slot = Len(recent)
             /\ recent[slot] \in Pairs /\ recent[slot].msg = m
             /\ ~Full(recent[slot]) /\ Taken(recent[slot]) \in Nat \ {0}
             /\ recent[slot].got \in Seq(Nat)
             /\ SeqKey(Start(m)) \in seen /\ ~NoPair(m)
             /\ recent[slot].got[Taken(recent[slot])] + 1 \in Nat
  <2>1. slot \in 1..Len(recent) /\ recent \in Seq(Pairs)
    BY <1>2 DEF OnSlot, Types
  <2>2. recent[slot] \in Pairs /\ recent[slot].got \in Seq(Nat)
    <3>1. recent[slot] \in Pairs
      BY <2>1
    <3> QED BY <3>1 DEF Pairs
  <2>3. /\ slot = Len(recent) /\ ~Full(recent[slot]) /\ Taken(recent[slot]) > 0
        /\ SeqKey(Start(m)) \in seen /\ recent[slot].msg = m
    BY <1>2 DEF OnSlot, SlotInv
  <2>4. Taken(recent[slot]) \in Nat \ {0} /\ Taken(recent[slot]) \in 1..Len(recent[slot].got)
    BY <2>2, <2>3 DEF Taken
  <2> QED BY <2>1, <2>2, <2>3, <2>4 DEF NoPair
<1>3. Pos(m) \in Nat
  BY <1>1, <1>2 DEF Pos
<1> QED
  BY <1>2, <1>3

\* A live response is an open one.
LEMMA LiveIsOpen ==
    ASSUME NEW m \in Msgs, Live(m), LiveAt(m)
    PROVE  Open(m)
<1>1. Start(m) \in Nat /\ In(Start(m), m)
  BY ResponseFacts
<1> QED
  BY <1>1 DEF LiveAt, Open

\* Nothing that matters to m moved.
LEMMA StandsStill ==
    ASSUME NEW m \in Msgs, StitchingAt(m), UNCHANGED <<ring, seen, asked>>,
           win' \in {win, Nothing},
           OnSlot(m)' = OnSlot(m), Pos(m)' = Pos(m),
           Live(m)' => Live(m)
    PROVE  StitchingAt(m)'
<1>1. WinIn(m)' => WinIn(m) /\ win' = win
  BY DEF WinIn
<1>2. Open(m)' => Open(m)
  BY DEF Open
<1>3. ASSUME Open(m)' PROVE OpenAt(m)'
  <2>1. OpenAt(m)
    BY <1>2, <1>3 DEF StitchingAt
  <2> QED BY <1>1, <2>1 DEF OpenAt, Behind
<1>4. ASSUME Live(m)' PROVE LiveAt(m)'
  <2>1. LiveAt(m)
    BY <1>4 DEF StitchingAt
  <2> QED BY <1>1, <2>1 DEF LiveAt
<1> QED
  BY <1>3, <1>4 DEF StitchingAt

\* Records that are not of m were added.
LEMMA StandsBy ==
    ASSUME NEW m \in Msgs, StitchingAt(m), Longer(ring, ring'), UNCHANGED seen,
           \A i \in 1..Len(ring') : i > Len(ring) => ~(Data(ring'[i]) /\ In(ring'[i].seq, m)),
           ~WinIn(m)', OnSlot(m)' = OnSlot(m), Pos(m)' = Pos(m),
           Live(m)' => Live(m) \/ LiveAt(m)'
    PROVE  StitchingAt(m)'
<1>1. Open(m)' => Open(m)
  BY DEF Open
<1>2. ASSUME Open(m)' PROVE OpenAt(m)'
  <2>1. OpenAt(m)
    BY <1>1, <1>2 DEF StitchingAt
  <2>2. /\ Covered(ring', seen, m, OnSlot(m), Pos(m))
        /\ Ahead(ring', seen, m, OnSlot(m), Pos(m))
    BY <2>1, AppendOther DEF OpenAt
  <2> QED BY <2>2 DEF OpenAt
<1>3. ASSUME Live(m)', Live(m) PROVE LiveAt(m)'
  <2>1. LiveAt(m)
    BY <1>3 DEF StitchingAt
  <2>2. Chained(ring', seen, m, OnSlot(m), Pos(m))
    BY <2>1, AppendOther DEF LiveAt
  <2> QED BY <2>1, <2>2 DEF LiveAt
<1> QED
  BY <1>2, <1>3 DEF StitchingAt

LEMMA StitchingSight ==
    ASSUME SegmentsAgree, Types, Types', Order, SlotInv, PlanInv, PlanInv',
           NEW seg \in Segments, Sight(seg), NEW m \in Msgs, StitchingAt(m)
    PROVE  StitchingAt(m)'
<1>1. /\ asked \in Msgs /\ OfResponse(seg, asked)
      /\ UNCHANGED <<seen, pending, recent, slot, asked>>
  BY SightShips, SightAdds DEF js
<1>2. /\ Len(ring) \in Nat /\ Len(ring') \in Nat /\ Len(ring) <= Len(ring')
      /\ \A i \in 1..Len(ring) : ring'[i] = ring[i]
      /\ \A i \in 1..Len(ring') : i > Len(ring) =>
                 ring'[i] \in DataRecords /\ In(ring'[i].seq, asked)
  BY SightAdds
<1>3. OnSlot(m)' = OnSlot(m) /\ Pos(m)' = Pos(m) /\ (Open(m)' <=> Open(m))
  <2>1. \A e : Current(e)' <=> Current(e)
    BY CurrentStays
  <2>2. OnSlot(m)' = OnSlot(m)
    BY <1>1, <2>1 DEF OnSlot
  <2> QED BY <1>1, <2>2 DEF Pos, Open
<1>4. Longer(ring, ring')
  BY <1>2 DEF Longer, Types
<1>5. ASSUME NEW i \in 1..Len(ring'), NEW n \in Msgs, Data(ring'[i]), In(ring'[i].seq, n), n # asked
      PROVE  i \in 1..Len(ring) /\ ring'[i] = ring[i]
  <2>1. i > Len(ring) => ring'[i].seq \in Nat /\ In(ring'[i].seq, asked)
    BY <1>2, RecordKinds
  <2>2. ~(i > Len(ring))
    BY <1>5, <2>1, InOrderOfMsgs
  <2> QED BY <1>2, <2>2
<1>6. Live(m)' => Live(m)
  <2>1. Expecting(m)' => Expecting(m)
    <3>1. \A i \in 1..Len(ring') : ~Data(ring'[i]) => i \in 1..Len(ring) /\ ring'[i] = ring[i]
      BY <1>2, RecordKinds
    <3> QED BY <1>1, <3>1 DEF Expecting, NoPair
  <2> QED BY <1>1, <1>3, <1>5, <2>1 DEF Live, IsFirstPair
<1>7. CASE m # asked
  <2>1. ~WinIn(m)'
    BY <1>1, <1>7 DEF WinIn
  <2>2. \A i \in 1..Len(ring') : i > Len(ring) => ~(Data(ring'[i]) /\ In(ring'[i].seq, m))
    BY <1>2, <1>5, <1>7
  <2> QED BY <1>1, <1>3, <1>4, <1>6, <2>1, <2>2, StandsBy
<1>8. CASE UNCHANGED ring /\ win' \in {win, Nothing}
  BY <1>1, <1>3, <1>6, <1>8, StandsStill
<1>9. ASSUME m = asked, Wanted(seg), NEW want \in Nat \ {0}, NEW fit \in Nat, want <= seg.len,
             Shipped(seg, want, fit)
      PROVE  StitchingAt(m)'
  <2>1. CASE fit = 0
    <3>1. win' = win /\ ring' = ring
      <4>1. win' = win /\ Len(ring') = Len(ring)
        BY <1>1, <1>9, <2>1, ShippedRecords DEF Shipped
      <4>2. ring \in Seq(Kept) /\ ring' \in Seq(Kept)
        BY DEF Types
      <4> QED BY <1>2, <4>1, <4>2
    <3> QED BY <1>8, <3>1
  <2>2. CASE fit > 0
    <3>1. /\ fit \in Nat \ {0} /\ fit <= Chunks(want) /\ Chunks(want) \in Nat
          /\ Grown(ring, ring', m, seg, want, fit)
      <4>1. fit \in 0..Chunks(want) /\ Chunks(want) \in Nat
        BY <1>9, ChunksFacts DEF Shipped
      <4>2. Len(ring') = Len(ring) + fit /\ \A j \in 1..fit : ring'[Len(ring) + j] = Chunk(seg, want, j)
        BY <1>1, <1>9, ShippedRecords
      <4>3. ASSUME NEW j \in 1..fit PROVE PieceOf(Chunk(seg, want, j)) \in Plan
        <5>1. Len(ring) + j \in 1..Len(ring') /\ Len(ring) + j > Len(ring)
          BY <1>2, <4>2
        <5>2. Data(ring'[Len(ring) + j])
          BY <1>2, <5>1, RecordKinds
        <5>3. PieceOf(ring'[Len(ring) + j]) \in Plan
          BY <5>1, <5>2 DEF PlanInv
        <5> QED BY <4>2, <5>3
      <4> QED BY <1>4, <2>2, <4>1, <4>2, <4>3 DEF Grown
    <3>2. /\ ring'[Len(ring) + 1].seq = seg.seq /\ seg.seq \in Nat
          /\ EndOf(ring'[Len(ring')]) = seg.seq + Least(want, fit * ChunkMax)
          /\ Len(ring') = Len(ring) + fit
          /\ \A i \in 1..Len(ring') : i > Len(ring) =>
                ring'[i] \in DataRecords /\ In(ring'[i].seq, m) /\ seg.seq <= ring'[i].seq
      BY <1>1, <1>9, <3>1, GrownFacts
    <3>3. /\ IsFirst(seg) <=> seg.seq = Start(m)
          /\ Start(m) \in Nat /\ Start(m) <= seg.seq /\ Pos(m) \in Nat
      BY <1>1, <1>9, SegmentFacts, ResponseFacts, SlotFacts
    <3>4. win' # Nothing => win'.next = EndOf(ring'[Len(ring')])
      BY <1>9, <2>2, <3>2 DEF Shipped
    <3>5. ~IsFirst(seg) => WinIn(m) /\ win.next = seg.seq
      BY <1>1, <1>9, Continues DEF WinIn
    <3>6. Len(ring) + 1 \in 1..Len(ring') /\ Len(ring') \in 1..Len(ring') /\ Len(ring) + 1 <= Len(ring')
      BY <1>2, <2>2, <3>2
    <3>7. IsFirst(seg) => Started(ring', m, Len(ring) + 1) /\ Started(ring', m, Len(ring'))
      <4>1. Data(ring'[Len(ring) + 1]) /\ ring'[Len(ring) + 1].seq = seg.seq
            /\ Len(ring) + 1 \in 1..(Len(ring) + 1)
        BY <1>2, <3>2, <3>6, RecordKinds
      <4> QED BY <3>3, <3>6, <4>1 DEF Started
    <3>8. ~IsFirst(seg) /\ Started(ring', m, Len(ring')) => Started(ring, m, Len(ring))
      <4> SUFFICES ASSUME ~IsFirst(seg), NEW r \in 1..Len(ring'), Data(ring'[r]), ring'[r].seq = Start(m)
                   PROVE  Started(ring, m, Len(ring))
        BY DEF Started
      <4>1. r \in 1..Len(ring)
        <5> SUFFICES ASSUME r > Len(ring) PROVE FALSE
          BY <1>2
        <5>1. seg.seq <= ring'[r].seq
          BY <3>2
        <5> QED BY <3>2, <3>3, <5>1
      <4> QED BY <1>2, <4>1 DEF Started
    <3>9. Started(ring, m, Len(ring)) => Started(ring', m, Len(ring) + 1) /\ Started(ring', m, Len(ring'))
      <4>1. \A r \in 1..Len(ring) : r \in 1..(Len(ring) + 1) /\ r \in 1..Len(ring') /\ ring'[r] = ring[r]
        BY <1>2
      <4> QED BY <4>1 DEF Started
    <3>10. ASSUME Open(m) PROVE OpenAt(m)'
      <4>1. OpenAt(m)
        BY <3>10 DEF StitchingAt
      <4>2. ASSUME OnSlot(m) \/ Started(ring', m, Len(ring')),
                   NEW q \in Plan, In(q.seq, m), q.seq < seg.seq
            PROVE  SeqKey(q.seq) \in seen \cup KeysOf(ring)
        <5>1. CASE IsFirst(seg)
          <6>1. Start(m) <= q.seq /\ q.seq \in Nat
            BY <4>2 DEF In, Plan
          <6> QED BY <3>3, <4>2, <5>1, <6>1
        <5>2. CASE ~IsFirst(seg)
          <6>1. Behind(m)
            BY <3>5, <3>8, <4>1, <4>2, <5>2 DEF OpenAt
          <6> QED BY <3>5, <4>2, <5>2, <6>1 DEF Behind
        <5> QED BY <5>1, <5>2
      <4>3. /\ Covered(ring', seen, m, OnSlot(m), Pos(m))
            /\ Ahead(ring', seen, m, OnSlot(m), Pos(m))
        BY <1>1, <1>9, <3>1, <3>3, <4>1, <4>2, AppendOwn DEF OpenAt
      <4>4. ASSUME WinIn(m)', OnSlot(m) \/ Started(ring', m, Len(ring')) PROVE Behind(m)'
        <5>1. win'.next = EndOf(ring'[Len(ring')])
          BY <3>4, <4>4 DEF WinIn
        <5>2. Len(ring') > Len(ring)
          BY <1>2, <2>2, <3>2
        <5>3. /\ ring'[Len(ring')] \in DataRecords /\ In(ring'[Len(ring')].seq, m)
              /\ EndOf(ring'[Len(ring')]) \in Nat /\ Data(ring'[Len(ring')])
          BY <3>2, <3>6, <5>2, RecordKinds
        <5>4. Reached(ring', m, OnSlot(m), Pos(m), Len(ring'), win'.next)
          BY <3>6, <4>4, <5>1, <5>3 DEF Reached, Counted
        <5> QED BY <1>1, <4>3, <5>1, <5>3, <5>4 DEF Covered, Behind
      <4> QED BY <1>1, <1>3, <4>3, <4>4 DEF OpenAt
    <3>11. ASSUME Live(m) PROVE LiveAt(m)'
      <4>1. LiveAt(m) /\ OpenAt(m)
        BY <3>11, LiveIsOpen DEF StitchingAt
      <4>2. OnSlot(m) \/ (Started(ring', m, Len(ring) + 1) /\ Started(ring', m, Len(ring')))
        BY <3>5, <3>7, <3>9, <4>1 DEF LiveAt
      <4>3. ASSUME SeqKey(seg.seq) \notin seen \cup KeysOf(ring)
            PROVE  Reached(ring, m, OnSlot(m), Pos(m), Len(ring), seg.seq)
        <5>1. CASE IsFirst(seg)
          <6>1. ~OnSlot(m)
            BY <3>3, <4>3, <5>1, SlotFacts
          <6>2. Pos(m) = seg.seq
            BY <3>3, <5>1, <6>1 DEF Pos
          <6> QED BY <6>2 DEF Reached
        <5>2. CASE ~IsFirst(seg)
          <6>1. PICK x \in Nat : seg.seq <= x /\ Reached(ring, m, OnSlot(m), Pos(m), Len(ring), x)
            BY <3>5, <4>1, <5>2 DEF LiveAt
          <6>2. ~(seg.seq < x)
            <7>1. PieceOf(ring'[Len(ring) + 1]) \in Plan /\ In(seg.seq, m)
              <8>1. Data(ring'[Len(ring) + 1]) /\ In(ring'[Len(ring) + 1].seq, m)
                BY <1>2, <3>2, <3>6, RecordKinds
              <8> QED BY <3>2, <3>6, <8>1 DEF PlanInv
            <7>2. PieceOf(ring'[Len(ring) + 1]).seq = seg.seq
              BY <3>2 DEF PieceOf
            <7> QED BY <4>1, <4>3, <6>1, <7>1, <7>2 DEF OpenAt, Covered
          <6>3. x = seg.seq
            BY <3>2, <6>1, <6>2
          <6> QED BY <6>1, <6>3
        <5> QED BY <5>1, <5>2
      <4>4. /\ Chained(ring', seen, m, OnSlot(m), Pos(m))
            /\ Reached(ring', m, OnSlot(m), Pos(m), Len(ring'), EndOf(ring'[Len(ring')]))
        BY <1>1, <1>9, <3>1, <3>3, <4>1, <4>2, <4>3, ChainOwn DEF LiveAt
      <4>5. ASSUME WinIn(m)'
            PROVE  \E x \in Nat : win'.next <= x /\ Reached(ring', m, OnSlot(m), Pos(m), Len(ring'), x)
        <5>1. win'.next = EndOf(ring'[Len(ring')])
          BY <3>4, <4>5 DEF WinIn
        <5>2. Len(ring') > Len(ring)
          BY <1>2, <2>2, <3>2
        <5>3. EndOf(ring'[Len(ring')]) \in Nat
          BY <3>2, <3>6, <5>2, RecordKinds
        <5> QED BY <4>4, <5>1, <5>3
      <4>6. ~OnSlot(m) => /\ \A p \in Nat : In(p, m) => SeqKey(p) \notin seen
                          /\ Started(ring', m, Len(ring'))
        BY <4>1, <4>2 DEF LiveAt
      <4> QED BY <1>1, <1>3, <4>4, <4>5, <4>6 DEF LiveAt
    <3> QED BY <1>3, <1>6, <3>10, <3>11 DEF StitchingAt
  <2> QED BY <2>1, <2>2
<1>10. \/ UNCHANGED ring /\ win' \in {win, Nothing}
       \/ Wanted(seg) /\ \E want \in Nat \ {0} : \E fit \in Nat : want <= seg.len /\ Shipped(seg, want, fit)
  BY SightShips DEF kernel
<1> QED
  BY <1>7, <1>8, <1>9, <1>10

\* The pair of m collects no more.
LEMMA LeavesSlot ==
    ASSUME NEW m \in Msgs, Types, SlotInv, OnSlot(m), ~OnSlot(m)', seen \subseteq seen', ~NoPair(m)'
    PROVE  StitchingAt(m)'
<1>1. SeqKey(Start(m)) \in seen'
  BY SlotFacts
<1> QED
  BY <1>1 DEF StitchingAt, Open, Live, Expecting

LEMMA StitchingRequest ==
    ASSUME Types, Types', Order, Order', SlotInv, NEW k \in Msgs, SightRequest(k),
           NEW m \in Msgs, StitchingAt(m)
    PROVE  StitchingAt(m)'
<1> DEFINE new == [kind |-> "request", msg |-> k]
<1>1. /\ k = asked + 1 \/ (k = asked /\ inOrder = 0)
      /\ asked' = k /\ inOrder' = 0 /\ UNCHANGED <<win, seen, pending, recent, slot, cuts>>
      /\ ring' = ring \/ ring' = Append(ring, new)
  BY DEF SightRequest, js
<1>2. ring \in Seq(Kept) /\ ring' \in Seq(Kept) /\ asked \in Nat /\ k \in Nat /\ m \in Nat
  BY MsgsAreNat, ResponsesAreFinite DEF Types
<1>3. ~Data(new) /\ new.msg = k
  BY DEF Data
<1> HIDE DEF new
<1>4. /\ Longer(ring, ring') /\ Len(ring) \in Nat
      /\ \A i \in 1..Len(ring') : \/ i \in 1..Len(ring) /\ ring'[i] = ring[i]
                                  \/ i > Len(ring) /\ ring'[i] = new
  BY <1>1, <1>2 DEF Longer
<1>5. OnSlot(m)' => OnSlot(m)
  <2>1. \A i \in 1..Len(recent) : Current(recent[i])' => Current(recent[i])
    BY CurrentRequest
  <2>2. slot # 0 => slot \in 1..Len(recent)
    BY DEF Types
  <2> QED BY <1>1, <2>1, <2>2 DEF OnSlot
<1>6. CASE OnSlot(m) /\ ~OnSlot(m)'
  <2>1. ~NoPair(m)'
    BY <1>1, <1>6, SlotFacts DEF NoPair
  <2> QED BY <1>1, <1>6, <2>1, LeavesSlot
<1>7. CASE OnSlot(m)' = OnSlot(m)
  <2>1. Pos(m)' = Pos(m)
    BY <1>1, <1>7 DEF Pos
  <2>2. ~WinIn(m)'
    <3> SUFFICES ASSUME win # Nothing, k = m, Start(k) < win.next PROVE FALSE
      BY <1>1 DEF WinIn
    <3>1. PICK n \in 1..k : /\ Start(n) < win.next /\ win.next <= Last(n)
                            /\ n = k => inOrder' > 0
      BY <1>1 DEF Order, WinPlace
    <3>2. n < k /\ n \in Msgs /\ n \in Nat
      BY <1>1, <1>2, <3>1, ResponsesAreFinite
    <3>3. Last(n) <= Start(k) /\ Last(n) \in Nat /\ Start(k) \in Nat /\ win.next \in Nat
      BY <3>2, ResponseFacts, CaptureAssumption DEF Last, Types, Windows
    <3> QED BY <3>1, <3>3
  <2>3. CASE m # k
    <3>1. Live(m)' => Live(m)
      <4>1. Expecting(m)' => Expecting(m)
        BY <1>1, <1>2, <1>3, <1>4, <2>3 DEF Expecting, NoPair
      <4>2. \A i \in 1..Len(ring') : Data(ring'[i]) => i \in 1..Len(ring) /\ ring'[i] = ring[i]
        BY <1>3, <1>4
      <4> QED BY <1>1, <1>7, <2>3, <4>1, <4>2 DEF Live, IsFirstPair
    <3>2. \A i \in 1..Len(ring') : i > Len(ring) => ~(Data(ring'[i]) /\ In(ring'[i].seq, m))
      BY <1>3, <1>4
    <3> QED BY <1>1, <1>4, <1>7, <2>1, <2>2, <3>1, <3>2, StandsBy
  <2>4. CASE m = k
    <3>1. ~OnSlot(m)'
      <4> SUFFICES ASSUME slot' # 0, recent'[slot'].msg = k PROVE FALSE
        BY <2>4 DEF OnSlot
      <4>1. slot' \in 1..Len(recent')
        BY DEF Types
      <4> QED BY <1>1, <4>1 DEF Order, PairsAsked
    <3>2. \A i \in 1..Len(ring') : ~(Data(ring'[i]) /\ In(ring'[i].seq, m))
      BY <1>1, <2>4 DEF Order, RingAsked, Of
    <3>3. \A p \in Nat : In(p, m) => SeqKey(p) \notin seen'
      BY <1>1, <2>4 DEF Order, SeenAsked
    <3>4. LiveAt(m)'
      <4>1. \A q \in Plan : In(q.seq, m) => SeqKey(q.seq) \notin seen'
        BY <3>3 DEF Plan
      <4>2. Chained(ring', seen', m, OnSlot(m)', Pos(m)')
        BY <3>2, <4>1 DEF Chained
      <4> QED BY <2>2, <3>3, <4>2 DEF LiveAt
    <3> QED BY <1>1, <1>4, <1>7, <2>1, <2>2, <3>2, <3>4, StandsBy
  <2> QED BY <2>3, <2>4
<1>8. OnSlot(m) \in BOOLEAN /\ OnSlot(m)' \in BOOLEAN
  BY DEF OnSlot
<1> QED
  BY <1>5, <1>6, <1>7, <1>8

LEMMA StitchingDrain ==
    ASSUME Types, SlotInv, NEW n \in 1..Len(recent), Drain(n), NEW m \in Msgs, StitchingAt(m)
    PROVE  StitchingAt(m)'
<1>1. /\ UNCHANGED <<win, ring, seen, pending, slot, asked, cuts>>
      /\ Len(recent') = Len(recent) /\ Len(recent) \in Nat
      /\ \A i \in 1..Len(recent) :
            /\ recent'[i].msg = recent[i].msg /\ recent'[i].got = recent[i].got
            /\ recent'[i].out = recent[i].out \/ recent[i].out = Nothing
  BY DrainKeeps
<1>2. slot # 0 => slot \in 1..Len(recent)
  BY DEF Types
<1>3. OnSlot(m)' => OnSlot(m)
  BY <1>1, <1>2 DEF OnSlot, Current
<1>4. NoPair(m)' <=> NoPair(m)
  BY <1>1 DEF NoPair
<1>5. CASE OnSlot(m) /\ ~OnSlot(m)'
  BY <1>1, <1>4, <1>5, SlotFacts, LeavesSlot
<1>6. CASE OnSlot(m)' = OnSlot(m)
  <2>1. Pos(m)' = Pos(m)
    BY <1>1, <1>2, <1>6 DEF Pos, OnSlot, Taken
  <2>2. Live(m)' => Live(m)
    <3>1. Expecting(m)' => Expecting(m)
      BY <1>1, <1>4 DEF Expecting
    <3>2. OnSlot(m)' /\ IsFirstPair(slot)' => OnSlot(m) /\ IsFirstPair(slot)
      <4> SUFFICES ASSUME OnSlot(m)', IsFirstPair(slot)' PROVE IsFirstPair(slot)
        BY <1>6
      <4>1. slot \in 1..Len(recent)
        BY <1>2, <1>6 DEF OnSlot
      <4>2. \A j \in 1..(slot - 1) : j \in 1..Len(recent)
        BY <1>1, <4>1
      <4> QED BY <1>1, <4>1, <4>2 DEF IsFirstPair
    <3> QED BY <1>1, <3>1, <3>2 DEF Live
  <2> QED BY <1>1, <1>6, <2>1, <2>2, StandsStill
<1>7. OnSlot(m) \in BOOLEAN /\ OnSlot(m)' \in BOOLEAN
  BY DEF OnSlot
<1> QED
  BY <1>3, <1>5, <1>6, <1>7

LEMMA StitchingLapse ==
    ASSUME Types, SlotInv, Lapse, NEW m \in Msgs, StitchingAt(m)
    PROVE  StitchingAt(m)'
<1>1. /\ ring = <<>> /\ ring' = <<>> /\ seen' = {} /\ slot' \in {slot, 0}
      /\ pending' \in {pending, <<>>}
      /\ \A i \in 1..Len(recent) : recent[i].out # Nothing
      /\ cuts' = cuts \cup {<<asked, "age">>}
      /\ UNCHANGED <<win, recent, asked>>
  BY LapseForgets
<1>2. Len(ring) = 0 /\ Len(ring') = 0 /\ 1..Len(ring) = {} /\ 1..Len(ring') = {}
  BY <1>1
<1>3. slot # 0 => slot \in 1..Len(recent)
  BY DEF Types
<1>4. ~OnSlot(m)'
  BY <1>1, <1>3 DEF OnSlot, Current
<1>5. Pos(m)' = Start(m) /\ Start(m) \in Nat
  BY <1>4, ResponseFacts DEF Pos
<1>6. ~Started(ring', m, Len(ring')) /\ ~Started(ring, m, Len(ring))
  BY <1>2 DEF Started
<1>7. \A x : Reached(ring', m, OnSlot(m)', Pos(m)', Len(ring'), x) => x = Start(m)
  BY <1>2, <1>5 DEF Reached
<1>8. OpenAt(m)'
  <2>1. Covered(ring', seen', m, OnSlot(m)', Pos(m)')
    <3> SUFFICES ASSUME NEW q \in Plan, NEW x \in Nat, In(q.seq, m), x = Start(m), q.seq < x
                 PROVE  FALSE
      BY <1>7 DEF Covered
    <3> QED BY <1>5 DEF In, Plan
  <2>2. Ahead(ring', seen', m, OnSlot(m)', Pos(m)')
    BY <1>2 DEF Ahead
  <2> QED BY <1>4, <1>6, <2>1, <2>2 DEF OpenAt
<1>9. ASSUME Live(m)' PROVE LiveAt(m)'
  <2>1. Expecting(m)' /\ m = asked
    BY <1>1, <1>2, <1>4, <1>9 DEF Live
  <2>2. Expecting(m)
    BY <1>1, <1>2, <2>1 DEF Expecting, NoPair
  <2>3. LiveAt(m)
    BY <2>1, <2>2 DEF Live, StitchingAt
  <2>4. ~OnSlot(m)
    BY <2>2, SlotFacts DEF Expecting
  <2>5. ~WinIn(m)'
    BY <1>1, <1>6, <2>3, <2>4 DEF LiveAt, WinIn
  <2>6. Chained(ring', seen', m, OnSlot(m)', Pos(m)')
    BY <1>1, <1>2 DEF Chained
  <2> QED BY <1>1, <2>5, <2>6 DEF LiveAt
<1> QED
  BY <1>8, <1>9 DEF StitchingAt

LEMMA ReadRing ==
    ASSUME Types, Consume, NEW m \in Msgs
    PROVE  /\ ring \in Seq(Kept) /\ ring # <<>> /\ ring' = Tail(ring) /\ ring[1] \in Kept
           /\ seen' = seen \cup {Key(ring[1])} /\ win' = win /\ asked' = asked
           /\ 1 \in 1..Len(ring) /\ Len(ring) \in Nat
           /\ \A i \in 1..Len(ring') : i + 1 \in 1..Len(ring) /\ ring'[i] = ring[i + 1]
           /\ KeysOf(ring) \cup seen = KeysOf(ring') \cup seen'
           /\ Started(ring, m, Len(ring)) <=> \/ Started(ring', m, Len(ring'))
                                              \/ Data(ring[1]) /\ ring[1].seq = Start(m)
           /\ WinIn(m)' <=> WinIn(m)
           /\ OnSlot(m)' <=> /\ slot' # 0 /\ recent'[slot'].msg = m
                             /\ \/ recent'[slot'].out = Nothing
                                \/ m = asked /\ <<asked, "age">> \notin cuts
           /\ OnSlot(m) <=> /\ slot # 0 /\ recent[slot].msg = m
                            /\ \/ recent[slot].out = Nothing
                               \/ m = asked /\ <<asked, "age">> \notin cuts
<1>1. /\ ring # <<>> /\ ring' = Tail(ring) /\ ring[1] \in Kept
      /\ Len(ring) \in Nat \ {0} /\ Len(ring') = Len(ring) - 1
      /\ \A i \in 1..Len(ring') : ring'[i] = ring[i + 1]
      /\ UNCHANGED <<win, asked>> /\ seen' = seen \cup {Key(ring[1])}
      /\ cuts \subseteq cuts' /\ \A x \in cuts' : x \in cuts \/ x[2] \in {"flag", "room"}
  BY ConsumeReads
<1>2. ring \in Seq(Kept)
  BY DEF Types
<1>3. /\ KeysOf(ring) = KeysOf(ring') \cup {Key(ring[1])}
      /\ Started(ring, m, Len(ring)) <=> \/ Started(ring', m, Len(ring'))
                                         \/ Data(ring[1]) /\ ring[1].seq = Start(m)
  BY <1>1, <1>2, TailFacts
<1>4. <<asked', "age">> \in cuts' <=> <<asked, "age">> \in cuts
  BY <1>1
<1>5. OnSlot(m)' <=> /\ slot' # 0 /\ recent'[slot'].msg = m
                     /\ \/ recent'[slot'].out = Nothing
                        \/ m = asked /\ <<asked, "age">> \notin cuts
  BY <1>1, <1>4 DEF OnSlot, Current
<1>6. OnSlot(m) <=> /\ slot # 0 /\ recent[slot].msg = m
                    /\ \/ recent[slot].out = Nothing
                       \/ m = asked /\ <<asked, "age">> \notin cuts
  BY DEF OnSlot, Current
<1>7. \A i \in 1..Len(ring') : i + 1 \in 1..Len(ring)
  BY <1>1
<1>8. WinIn(m)' <=> WinIn(m)
  BY <1>1 DEF WinIn
<1>9. 1 \in 1..Len(ring) /\ Len(ring) \in Nat
  BY <1>1
<1> QED
  BY <1>1, <1>2, <1>3, <1>5, <1>6, <1>7, <1>8, <1>9

LEMMA LiveRead ==
    ASSUME Types, Consume, NEW m \in Msgs, Live(m)'
    PROVE  Live(m) \/ (OnSlot(m)' /\ IsFirstPair(slot)')
<1>1. /\ \A i \in 1..Len(ring') : i + 1 \in 1..Len(ring) /\ ring'[i] = ring[i + 1]
      /\ asked' = asked /\ 1 \in 1..Len(ring)
  BY ReadRing
<1>2. ASSUME Expecting(m)' PROVE Expecting(m)
  <2>1. NoPair(m)
    <3>1. /\ Len(recent') \in Nat /\ Len(recent) \in Nat /\ Len(recent) <= Len(recent')
          /\ \A i \in 1..Len(recent) : recent'[i].msg = recent[i].msg
      BY RecentRead
    <3>2. \A i \in 1..Len(recent) : i \in 1..Len(recent')
      BY <3>1
    <3> QED BY <1>2, <3>1, <3>2 DEF Expecting, NoPair
  <2>2. ASSUME NEW i \in 1..Len(pending'), pending'[i] <= m
        PROVE  \/ \E j \in 1..Len(pending) : pending[j] <= m
               \/ \E j \in 1..Len(ring) : ~Data(ring[j]) /\ ring[j].msg <= m
    BY <1>1, <2>2, PendingRead DEF ReadRequest
  <2>3. ASSUME NEW i \in 1..Len(ring'), ~Data(ring'[i]) /\ ring'[i].msg <= m
        PROVE  \E j \in 1..Len(ring) : ~Data(ring[j]) /\ ring[j].msg <= m
    BY <1>1, <2>3
  <2> QED BY <1>1, <1>2, <2>1, <2>2, <2>3 DEF Expecting
<1>3. ASSUME NEW i \in 1..Len(ring'), Data(ring'[i]) /\ In(ring'[i].seq, m)
      PROVE  \E j \in 1..Len(ring) : Data(ring[j]) /\ In(ring[j].seq, m)
  BY <1>1, <1>3
<1> QED
  BY <1>1, <1>2, <1>3 DEF Live

\* Reading the head, whatever it is, keeps what is open in order...
LEMMA ReadOpen ==
    ASSUME Types, Consume, NEW m \in Msgs, StitchingAt(m), Open(m)', Open(m),
           OnSlot(m)' = (OnSlot(m) \/ (Data(ring[1]) /\ ring[1].seq = Start(m))),
           Reached(ring, m, OnSlot(m), Pos(m), 1, Pos(m)')
    PROVE  OpenAt(m)'
<1>1. OpenAt(m)
  BY DEF StitchingAt
<1>2. /\ ring \in Seq(Kept) /\ ring # <<>> /\ ring' = Tail(ring)
      /\ seen' = seen \cup {Key(ring[1])} /\ win' = win
      /\ KeysOf(ring) \cup seen = KeysOf(ring') \cup seen'
      /\ Started(ring, m, Len(ring)) <=> \/ Started(ring', m, Len(ring'))
                                         \/ Data(ring[1]) /\ ring[1].seq = Start(m)
      /\ WinIn(m)' <=> WinIn(m)
  BY ReadRing
<1>3. /\ Covered(ring', seen', m, OnSlot(m)', Pos(m)')
      /\ Ahead(ring', seen', m, OnSlot(m)', Pos(m)')
  BY <1>1, <1>2, TailOpen DEF OpenAt
<1>4. WinIn(m)' /\ (OnSlot(m)' \/ Started(ring', m, Len(ring'))) => Behind(m)'
  BY <1>1, <1>2 DEF OpenAt, Behind
<1> QED
  BY <1>3, <1>4 DEF OpenAt

\* ...and a head that is not of m keeps what is without a hole.
LEMMA ReadOther ==
    ASSUME Types, Consume, NEW m \in Msgs, StitchingAt(m),
           ~(Data(ring[1]) /\ In(ring[1].seq, m)),
           OnSlot(m)' = OnSlot(m), Pos(m)' = Pos(m), Live(m)' => Live(m)
    PROVE  StitchingAt(m)'
<1>1. /\ ring \in Seq(Kept) /\ ring # <<>> /\ ring' = Tail(ring) /\ ring[1] \in Kept
      /\ seen' = seen \cup {Key(ring[1])} /\ win' = win
      /\ Started(ring, m, Len(ring)) <=> \/ Started(ring', m, Len(ring'))
                                         \/ Data(ring[1]) /\ ring[1].seq = Start(m)
      /\ WinIn(m)' <=> WinIn(m)
  BY ReadRing
<1>2. ~(Data(ring[1]) /\ ring[1].seq = Start(m))
  BY ResponseFacts
<1>3. OnSlot(m)' = (OnSlot(m) \/ (Data(ring[1]) /\ ring[1].seq = Start(m)))
  BY <1>2 DEF OnSlot
<1>4. Reached(ring, m, OnSlot(m), Pos(m), 1, Pos(m)')
  BY DEF Reached
<1>5. Open(m)' => Open(m)
  BY <1>1 DEF Open
<1>6. Open(m)' => OpenAt(m)'
  BY <1>3, <1>4, <1>5, ReadOpen
<1>7. ASSUME Live(m)' PROVE LiveAt(m)'
  <2>1. LiveAt(m)
    BY <1>7 DEF StitchingAt
  <2>2. /\ Chained(ring', seen', m, OnSlot(m), Pos(m))
        /\ \A x : Reached(ring, m, OnSlot(m), Pos(m), Len(ring), x)
                     => Reached(ring', m, OnSlot(m), Pos(m), Len(ring'), x)
    BY <1>1, <2>1, TailChainOther DEF LiveAt
  <2>3. \A p \in Nat : In(p, m) => SeqKey(p) # Key(ring[1])
    BY DEF SeqKey, Key, Data
  <2> QED BY <1>1, <1>2, <2>1, <2>2, <2>3 DEF LiveAt
<1> QED
  BY <1>6, <1>7 DEF StitchingAt

\* A body that a pair collects, and somebody reads, is of the pair's response.
LEMMA OwnBody ==
    ASSUME Types, Order, SlotInv, CleanOrStale, Consume, ReadBody, slot # 0, Current(recent[slot])
    PROVE  In(ring[1].seq, recent[slot].msg) /\ recent[slot].msg \in Msgs
<1>1. ring[1] \in DataRecords /\ 1 \in 1..Len(ring) /\ Len(ring) \in Nat
  BY ConsumeReads, RecordKinds DEF ReadBody
<1>2. PICK n \in Msgs : In(ring[1].seq, n)
  BY <1>1, RecordKinds
<1> DEFINE b == recent[slot].msg
<1>3. b \in Msgs /\ SeqKey(Start(b)) \in seen
  <2>1. recent[slot] \in Pairs
    BY DEF Types
  <2> QED BY <2>1 DEF Pairs, SlotInv
<1>4. b <= n
  <2>1. Start(b) \in Nat /\ In(Start(b), b) /\ Of(ring[1], n) /\ Data(ring[1])
    BY <1>1, <1>2, <1>3, ResponseFacts, RecordKinds DEF Of
  <2> QED BY <1>1, <1>3, <2>1 DEF Order, SeenOrder
<1>5. n <= b
  <2>1. CASE Stale(n)
    BY <2>1 DEF Stale
  <2>2. CASE Clean(n)
    <3>1. ~Started(ring, n, 1)
      BY DEF Started, ReadBody
    <3>2. SeqKey(Start(n)) \in seen
      BY <1>1, <1>2, <2>2, <3>1, RecordKinds DEF Clean
    <3>3. ~(n > b)
      BY <3>2 DEF SlotInv
    <3>4. n \in Nat /\ b \in Nat
      <4> HIDE DEF b
      <4> QED BY <1>2, <1>3, MsgsAreNat
    <3> HIDE DEF b
    <3> QED BY <3>3, <3>4
  <2> QED BY <2>1, <2>2 DEF CleanOrStale
<1>6. n = b
  BY <1>3, <1>4, <1>5, MsgsAreNat
<1> QED
  BY <1>2, <1>3, <1>6

\* A body that no pair collects is not of a live response.
LEMMA LooseIsDead ==
    ASSUME Types, Consume, ReadBody, NEW m \in Msgs, StitchingAt(m), ~OnSlot(m), In(ring[1].seq, m)
    PROVE  ~Live(m)
<1> SUFFICES ASSUME Live(m) PROVE FALSE
  OBVIOUS
<1>1. Counted(ring, m, OnSlot(m), 1)
  BY ReadRing DEF StitchingAt, LiveAt, Chained, ReadBody
<1> QED
  BY <1>1 DEF Counted, Started, ReadBody

\* What stitching a body moves.
LEMMA StitchedTo ==
    ASSUME Types, SlotInv, Consume, NEW e \in Pairs, ReadStitched(e)
    PROVE  /\ slot \in 1..Len(recent) /\ recent[slot] \in Pairs /\ ring[1] \in DataRecords
           /\ recent'[slot] = e /\ Len(recent') = Len(recent)
           /\ \A i \in 1..Len(recent) : i # slot => recent'[i] = recent[i]
           /\ Taken(recent[slot]) \in Nat \ {0} /\ Taken(e) \in Nat /\ Taken(recent[slot]) <= Taken(e)
           /\ \A j \in 1..Taken(recent[slot]) : e.got[j] = recent[slot].got[j]
           /\ \A j \in 1..Taken(e) : j > Taken(recent[slot]) =>
                 /\ e.got[j] = ring[1].seq + (j - Taken(recent[slot])) - 1
                 /\ j - Taken(recent[slot]) \in 1..ring[1].len
           /\ slot' # 0 => slot' = slot /\ e.got[Taken(e)] + 1 = EndOf(ring[1])
<1>1. /\ slot # 0 /\ slot \in 1..Len(recent) /\ recent \in Seq(Pairs) /\ recent[slot] \in Pairs
      /\ recent' = [recent EXCEPT ![slot] = e] /\ e = Fed(recent[slot], ring[1])
      /\ slot' = IF ring[1].trunc \/ Full(e) THEN 0 ELSE slot
  BY DEF ReadStitched, Types
<1>2. ring[1] \in DataRecords
  BY ConsumeReads, RecordKinds DEF ReadStitched, ReadBody
<1>3. ~Full(recent[slot]) /\ Taken(recent[slot]) > 0
  BY <1>1 DEF SlotInv
<1>4. /\ Taken(recent[slot]) \in Nat /\ Taken(e) \in Nat /\ Taken(recent[slot]) <= Taken(e)
      /\ \A j \in 1..Taken(recent[slot]) : e.got[j] = recent[slot].got[j]
      /\ \A j \in 1..Taken(e) : j > Taken(recent[slot]) =>
            /\ e.got[j] = ring[1].seq + (j - Taken(recent[slot])) - 1
            /\ j - Taken(recent[slot]) \in 1..ring[1].len
      /\ ~Full(e) => Taken(e) = Taken(recent[slot]) + ring[1].len
  BY <1>1, <1>2, <1>3, Grows
<1>5. recent'[slot] = e /\ Len(recent') = Len(recent)
      /\ \A i \in 1..Len(recent) : i # slot => recent'[i] = recent[i]
  BY <1>1
<1>6. ASSUME slot' # 0 PROVE slot' = slot /\ e.got[Taken(e)] + 1 = EndOf(ring[1])
  <2>1. slot' = slot /\ ~Full(e)
    BY <1>1, <1>6
  <2>2. ring[1].len \in Nat \ {0} /\ ring[1].seq \in Nat
    BY <1>2, RecordKinds
  <2>3. Taken(e) \in 1..Taken(e) /\ Taken(e) > Taken(recent[slot])
        /\ Taken(e) - Taken(recent[slot]) = ring[1].len
    BY <1>4, <2>1, <2>2
  <2>4. e.got[Taken(e)] = ring[1].seq + ring[1].len - 1
    BY <1>4, <2>3
  <2> QED BY <2>1, <2>2, <2>4 DEF EndOf
<1>7. Taken(recent[slot]) \in Nat \ {0}
  BY <1>3, <1>4
<1> QED
  BY <1>1, <1>2, <1>4, <1>5, <1>6, <1>7

LEMMA StitchingConsume ==
    ASSUME SegmentsAgree, Types, Order, SlotInv, CleanOrStale, PlanInv, Consume,
           NEW m \in Msgs, StitchingAt(m)
    PROVE  StitchingAt(m)'
<1>1. /\ ring \in Seq(Kept) /\ ring # <<>> /\ ring' = Tail(ring) /\ ring[1] \in Kept
      /\ seen' = seen \cup {Key(ring[1])} /\ win' = win /\ asked' = asked
      /\ 1 \in 1..Len(ring) /\ Len(ring) \in Nat
      /\ \A i \in 1..Len(ring') : i + 1 \in 1..Len(ring) /\ ring'[i] = ring[i + 1]
      /\ Started(ring, m, Len(ring)) <=> \/ Started(ring', m, Len(ring'))
                                         \/ Data(ring[1]) /\ ring[1].seq = Start(m)
      /\ WinIn(m)' <=> WinIn(m)
  BY ReadRing
<1>2. /\ OnSlot(m)' <=> /\ slot' # 0 /\ recent'[slot'].msg = m
                        /\ \/ recent'[slot'].out = Nothing
                           \/ m = asked /\ <<asked, "age">> \notin cuts
      /\ OnSlot(m) <=> /\ slot # 0 /\ recent[slot].msg = m
                       /\ \/ recent[slot].out = Nothing
                          \/ m = asked /\ <<asked, "age">> \notin cuts
      /\ OnSlot(m) \in BOOLEAN /\ OnSlot(m)' \in BOOLEAN
  BY ReadRing DEF OnSlot
<1>3. /\ Pos(m) \in Nat /\ Start(m) \in Nat /\ In(Start(m), m)
      /\ OnSlot(m) => SeqKey(Start(m)) \in seen /\ ~NoPair(m)
  BY SlotFacts, ResponseFacts
<1>4. NoPair(m)' => NoPair(m)
  <2>1. /\ Len(recent') \in Nat /\ Len(recent) \in Nat /\ Len(recent) <= Len(recent')
        /\ \A i \in 1..Len(recent) : recent'[i].msg = recent[i].msg
    BY RecentRead
  <2>2. \A i \in 1..Len(recent) : i \in 1..Len(recent')
    BY <2>1
  <2> QED BY <2>1, <2>2 DEF NoPair
<1>5. CASE OnSlot(m) /\ ~OnSlot(m)'
  BY <1>1, <1>3, <1>4, <1>5, LeavesSlot
<1>6. Data(ring[1]) => /\ ring[1] \in DataRecords /\ ring[1].seq \in Nat /\ PieceOf(ring[1]) \in Plan
                       /\ Key(ring[1]) = SeqKey(ring[1].seq) /\ EndOf(ring[1]) \in Nat
  BY <1>1, RecordKinds DEF PlanInv, Key, SeqKey, Data
<1>7. Open(m)' /\ OnSlot(m)' = OnSlot(m) => Open(m)
  BY <1>1 DEF Open
\* A record of m that is there again.
<1>8. ASSUME ReadAgain PROVE StitchingAt(m)'
  <2>1. OnSlot(m)' = OnSlot(m) /\ Pos(m)' = Pos(m)
    <3>1. OnSlot(m)' = OnSlot(m)
      BY <1>2, <1>8 DEF ReadAgain
    <3> QED BY <1>8, <3>1 DEF Pos, ReadAgain
  <2>2. Live(m)' => Live(m)
    <3>1. OnSlot(m)' /\ IsFirstPair(slot)' => Live(m)
      BY <1>8, <2>1 DEF ReadAgain, Live, IsFirstPair
    <3> QED BY <3>1, LiveRead
  <2>3. CASE ~(Data(ring[1]) /\ In(ring[1].seq, m))
    BY <2>1, <2>2, <2>3, ReadOther
  <2>4. CASE Data(ring[1]) /\ In(ring[1].seq, m)
    <3>1. Key(ring[1]) \in seen /\ seen' = seen
      BY <1>1, <1>8 DEF ReadAgain
    <3>2. ASSUME Open(m) PROVE OnSlot(m) \/ ring[1].seq # Start(m)
      BY <1>6, <2>4, <3>1, <3>2 DEF Open
    <3>3. Reached(ring, m, OnSlot(m), Pos(m), 1, Pos(m)')
      BY <2>1 DEF Reached
    <3>4. ASSUME Open(m)' PROVE OpenAt(m)'
      <4>1. Open(m)
        BY <1>7, <2>1, <3>4
      <4>2. OnSlot(m)' = (OnSlot(m) \/ (Data(ring[1]) /\ ring[1].seq = Start(m)))
        BY <1>2, <2>1, <3>2, <4>1
      <4> QED BY <3>3, <3>4, <4>1, <4>2, ReadOpen
    <3>5. ASSUME Live(m)' PROVE LiveAt(m)'
      <4>1. LiveAt(m) /\ Open(m) /\ OpenAt(m)
        BY <2>2, <3>5, LiveIsOpen DEF StitchingAt
      <4>2. OnSlot(m)
        BY <1>6, <2>4, <3>1, <4>1 DEF LiveAt
      <4>3. /\ Chained(ring', seen', m, OnSlot(m), Pos(m))
            /\ \A x \in Nat : Reached(ring, m, OnSlot(m), Pos(m), Len(ring), x)
                   => \E y \in Nat : x <= y /\ Reached(ring', m, OnSlot(m), Pos(m), Len(ring'), y)
        BY <1>1, <1>3, <1>6, <2>4, <3>1, <4>1, <4>2, TailChainAgain DEF LiveAt, OpenAt
      <4>4. WinIn(m) => win.next \in Nat
        BY DEF WinIn, Types, Windows
      <4>5. ASSUME WinIn(m)
            PROVE  \E y \in Nat : win.next <= y /\ Reached(ring', m, OnSlot(m), Pos(m), Len(ring'), y)
        <5>1. PICK x \in Nat : win.next <= x /\ Reached(ring, m, OnSlot(m), Pos(m), Len(ring), x)
          BY <4>1, <4>5 DEF LiveAt
        <5>2. PICK y \in Nat : x <= y /\ Reached(ring', m, OnSlot(m), Pos(m), Len(ring'), y)
          BY <4>3, <5>1
        <5> QED BY <4>4, <4>5, <5>1, <5>2
      <4> QED BY <1>1, <2>1, <4>2, <4>3, <4>5 DEF LiveAt
    <3> QED BY <3>4, <3>5 DEF StitchingAt
  <2> QED BY <2>3, <2>4
<1>9. ASSUME ReadRequest PROVE StitchingAt(m)'
  <2>1. OnSlot(m)' = OnSlot(m) /\ Pos(m)' = Pos(m)
    <3>1. OnSlot(m)' = OnSlot(m)
      BY <1>2, <1>9 DEF ReadRequest
    <3> QED BY <1>9, <3>1 DEF Pos, ReadRequest
  <2>2. Live(m)' => Live(m)
    <3>1. OnSlot(m)' /\ IsFirstPair(slot)' => Live(m)
      BY <1>9, <2>1 DEF ReadRequest, Live, IsFirstPair
    <3> QED BY <3>1, LiveRead
  <2> QED BY <1>9, <2>1, <2>2, ReadOther DEF ReadRequest
<1>10. ASSUME ReadLoose PROVE StitchingAt(m)'
  <2>1. ~OnSlot(m) /\ ~OnSlot(m)' /\ Pos(m)' = Pos(m) /\ Pos(m) = Start(m)
    <3>1. ~OnSlot(m) /\ ~OnSlot(m)'
      BY <1>2, <1>10 DEF ReadLoose
    <3> QED BY <3>1 DEF Pos
  <2>2. Live(m)' => Live(m)
    BY <2>1, LiveRead
  <2>3. CASE ~(Data(ring[1]) /\ In(ring[1].seq, m))
    BY <1>2, <2>1, <2>2, <2>3, ReadOther
  <2>4. CASE Data(ring[1]) /\ In(ring[1].seq, m)
    <3>1. ~Live(m)'
      BY <1>10, <2>1, <2>2, <2>4, LooseIsDead DEF ReadLoose
    <3>2. OnSlot(m)' = (OnSlot(m) \/ (Data(ring[1]) /\ ring[1].seq = Start(m)))
      BY <1>2, <1>10, <2>1 DEF ReadLoose, ReadBody
    <3>3. Reached(ring, m, OnSlot(m), Pos(m), 1, Pos(m)')
      BY <2>1 DEF Reached
    <3>4. Open(m)' => OpenAt(m)'
      BY <1>2, <1>7, <2>1, <3>2, <3>3, ReadOpen
    <3> QED BY <3>1, <3>4 DEF StitchingAt
  <2> QED BY <2>3, <2>4
<1>11. ASSUME NEW k \in Msgs, ReadUnpaired(k) PROVE StitchingAt(m)'
  <2>0. SUFFICES ASSUME ~OnSlot(m) PROVE StitchingAt(m)'
    BY <1>2, <1>5, <1>11 DEF ReadUnpaired
  <2>1. ~OnSlot(m)' /\ Pos(m)' = Pos(m)
    <3>1. ~OnSlot(m)'
      BY <1>2, <1>11 DEF ReadUnpaired
    <3> QED BY <2>0, <3>1 DEF Pos
  <2>2. Live(m)' => Live(m)
    BY <2>1, LiveRead
  <2>3. Data(ring[1]) /\ ring[1].seq = Start(k) /\ In(ring[1].seq, k)
    BY <1>11, ResponseFacts DEF ReadUnpaired
  <2>4. CASE m = k
    <3>1. ~Open(m)'
      BY <1>1, <1>6, <2>1, <2>3, <2>4 DEF Open
    <3>2. ~Live(m)'
      <4> SUFFICES ASSUME Expecting(m)' PROVE FALSE
        BY <2>1 DEF Live
      <4>1. Len(pending') = 0
        BY <1>11 DEF ReadUnpaired
      <4>2. PICK i \in 1..Len(ring') : ~Data(ring'[i]) /\ ring'[i].msg <= m
        BY <4>1 DEF Expecting
      <4>3. i + 1 \in 1..Len(ring) /\ ring'[i] = ring[i + 1] /\ 1 < i + 1
        BY <1>1
      <4>4. ring[i + 1].msg \in Msgs /\ Of(ring[i + 1], ring[i + 1].msg) /\ Of(ring[1], m)
        <5>1. ring[i + 1] \in Kept
          BY <1>1, <4>3
        <5> QED BY <2>3, <2>4, <4>2, <4>3, <5>1, RecordKinds DEF Of
      <4>5. m < ring[i + 1].msg
        BY <1>1, <2>3, <4>2, <4>3, <4>4 DEF Order, RingOrder
      <4>6. ring[i + 1].msg <= m
        BY <4>2, <4>3
      <4>7. ring[i + 1].msg \in Nat /\ m \in Nat
        BY <4>4, MsgsAreNat
      <4> QED BY <4>5, <4>6, <4>7
    <3> QED BY <3>1, <3>2 DEF StitchingAt
  <2>5. CASE m # k
    <3>1. ~In(ring[1].seq, m)
      BY <1>6, <2>3, <2>5, InOrderOfMsgs
    <3> QED BY <1>2, <2>0, <2>1, <2>2, <3>1, ReadOther
  <2> QED BY <2>4, <2>5
<1>12. ASSUME NEW k \in Msgs, NEW e \in Pairs, ReadPaired(k, e) PROVE StitchingAt(m)'
  <2>0. SUFFICES ASSUME ~(OnSlot(m) /\ ~OnSlot(m)') PROVE StitchingAt(m)'
    BY <1>5
  <2>1. /\ slot' = Len(recent) + 1 /\ slot' # 0 /\ recent'[slot'] = e /\ e.msg = k /\ e.out = Nothing
        /\ e.got = Positions(ring[1]) /\ Len(recent) \in Nat
        /\ Len(recent') = Len(recent) + 1 /\ \A i \in 1..Len(recent) : recent'[i] = recent[i]
    <3>1. recent \in Seq(Pairs) /\ Len(recent) \in Nat
      BY DEF Types
    <3> QED BY <1>12, <3>1 DEF ReadPaired
  <2>2. Data(ring[1]) /\ ring[1].seq = Start(k) /\ In(ring[1].seq, k) /\ Key(ring[1]) \notin seen
    BY <1>12, ResponseFacts DEF ReadPaired
  <2>3. CASE m # k
    <3>1. ~OnSlot(m)' /\ ~OnSlot(m)
      BY <1>2, <2>0, <2>1, <2>3
    <3>2. Pos(m)' = Pos(m) /\ (Live(m)' => Live(m))
      BY <3>1, LiveRead DEF Pos
    <3>3. ~In(ring[1].seq, m)
      BY <1>6, <2>2, <2>3, InOrderOfMsgs
    <3> QED BY <1>2, <3>1, <3>2, <3>3, ReadOther
  <2>4. CASE m = k
    <3>1. ~OnSlot(m) /\ OnSlot(m)' /\ Open(m)
      BY <1>2, <1>3, <1>6, <2>1, <2>2, <2>4 DEF Open
    <3>2. Pos(m) = ring[1].seq /\ Pos(m)' = EndOf(ring[1])
      <4>1. Pos(m)' = e.got[Taken(e)] + 1
        BY <2>1, <3>1 DEF Pos, Taken
      <4>2. ring[1].len \in Nat \ {0} /\ ring[1].seq \in Nat /\ Taken(e) = ring[1].len
        BY <1>6, <2>1, <2>2, RecordKinds DEF Taken, Positions
      <4>3. ring[1].len \in 1..ring[1].len
        BY <4>2
      <4>4. e.got[Taken(e)] = ring[1].seq + ring[1].len - 1
        BY <2>1, <4>2, <4>3 DEF Positions
      <4> QED BY <2>2, <2>4, <3>1, <4>1, <4>2, <4>4 DEF Pos, EndOf
    <3>3. OnSlot(m)' = (OnSlot(m) \/ (Data(ring[1]) /\ ring[1].seq = Start(m)))
      BY <1>2, <2>2, <2>4, <3>1
    <3>4. Reached(ring, m, OnSlot(m), Pos(m), 1, Pos(m)')
      <4>1. Counted(ring, m, OnSlot(m), 1)
        BY <2>2, <2>4 DEF Counted, Started
      <4> QED BY <3>2, <4>1 DEF Reached
    <3>5. Open(m)' => OpenAt(m)'
      BY <3>1, <3>3, <3>4, ReadOpen
    <3>6. ASSUME Live(m)' PROVE LiveAt(m)'
      <4>1. Live(m)
        <5>1. CASE Live(m)
          BY <5>1
        <5>2. CASE IsFirstPair(slot)'
          <6>1. NoPair(m)
            <7>1. \A j \in 1..Len(recent) : j \in 1..(slot' - 1) /\ recent'[j].msg = recent[j].msg
              BY <2>1
            <7> QED BY <2>1, <2>4, <5>2, <7>1 DEF NoPair, IsFirstPair
          <6>2. m <= asked /\ pending[1] <= m /\ 1 \in 1..Len(pending)
            <7>1. Of(ring[1], m)
              BY <2>2, <2>4 DEF Of
            <7>2. pending # <<>> /\ pending \in Seq(Msgs)
              BY <1>12 DEF ReadPaired, Types
            <7>3. 1 \in 1..Len(pending)
              BY <7>2
            <7> QED BY <1>1, <7>1, <7>3 DEF Order, PendingOrder, RingAsked
          <6> QED BY <1>1, <2>2, <2>4, <6>1, <6>2 DEF Live, Expecting
        <5> QED BY <3>6, <5>1, <5>2, LiveRead
      <4>2. LiveAt(m)
        BY <4>1 DEF StitchingAt
      <4>3a. /\ Chained(Tail(ring), seen \cup {Key(ring[1])}, m, OnSlot(m)', EndOf(ring[1]))
             /\ \A x \in Nat : Reached(ring, m, OnSlot(m), Pos(m), Len(ring), x)
                   => \E y \in Nat : x <= y /\ Reached(Tail(ring), m, OnSlot(m)', EndOf(ring[1]), Len(Tail(ring)), y)
        <5>1. OnSlot(m)' <=> (OnSlot(m) \/ (Data(ring[1]) /\ ring[1].seq = Start(m)))
          BY <3>3
        <5>2. /\ ring \in Seq(Kept) /\ ring # <<>> /\ m \in Msgs /\ Pos(m) \in Nat
              /\ Data(ring[1]) /\ In(ring[1].seq, m) /\ Key(ring[1]) \notin seen
              /\ PieceOf(ring[1]) \in Plan /\ Chained(ring, seen, m, OnSlot(m), Pos(m))
          BY <1>1, <1>3, <1>6, <2>2, <2>4, <4>2 DEF LiveAt
        <5> QED BY <5>1, <5>2, TailChainNew
      <4>3. /\ Chained(ring', seen', m, OnSlot(m)', Pos(m)')
            /\ \A x \in Nat : Reached(ring, m, OnSlot(m), Pos(m), Len(ring), x)
                  => \E y \in Nat : x <= y /\ Reached(ring', m, OnSlot(m)', Pos(m)', Len(ring'), y)
        BY <1>1, <4>3a, <3>2
      <4>4. ASSUME WinIn(m)
            PROVE  \E y \in Nat : win.next <= y /\ Reached(ring', m, OnSlot(m)', Pos(m)', Len(ring'), y)
        <5>0. win.next \in Nat
          BY <4>4 DEF WinIn, Types, Windows
        <5>1. PICK x \in Nat : win.next <= x /\ Reached(ring, m, OnSlot(m), Pos(m), Len(ring), x)
          BY <4>2, <4>4 DEF LiveAt
        <5>2. PICK y \in Nat : x <= y /\ Reached(ring', m, OnSlot(m)', Pos(m)', Len(ring'), y)
          BY <4>3, <5>1
        <5> QED BY <5>0, <5>1, <5>2
      <4> QED BY <1>1, <3>1, <4>3, <4>4 DEF LiveAt
    <3> QED BY <3>5, <3>6 DEF StitchingAt
  <2> QED BY <2>3, <2>4
<1>13. ASSUME NEW e \in Pairs, ReadStitched(e) PROVE StitchingAt(m)'
  <2>0. SUFFICES ASSUME ~(OnSlot(m) /\ ~OnSlot(m)') PROVE StitchingAt(m)'
    BY <1>5
  <2>1. /\ ReadBody /\ slot # 0 /\ Data(ring[1]) /\ Key(ring[1]) \notin seen
        /\ e.msg = recent[slot].msg /\ e.out = recent[slot].out
        /\ slot' = 0 \/ slot' = slot
        /\ \A n \in Msgs : ring[1].seq # Start(n)
    BY <1>13 DEF ReadStitched, ReadBody
  <2>2. /\ slot \in 1..Len(recent) /\ recent'[slot] = e /\ Len(recent') = Len(recent)
        /\ \A i \in 1..Len(recent) : i # slot => recent'[i] = recent[i]
        /\ slot' # 0 => slot' = slot /\ e.got[Taken(e)] + 1 = EndOf(ring[1])
    BY <1>13, StitchedTo
  <2>3. OnSlot(m)' = OnSlot(m)
    BY <1>2, <2>0, <2>1, <2>2
  <2>4. Live(m)' => Live(m)
    <3>1. OnSlot(m)' /\ IsFirstPair(slot)' => Live(m)
      <4> SUFFICES ASSUME OnSlot(m)', IsFirstPair(slot)' PROVE IsFirstPair(slot)
        BY <2>3 DEF Live
      <4>1. slot' = slot
        BY <1>2, <2>1
      <4>2. \A j \in 1..(slot - 1) : j \in 1..Len(recent) /\ j # slot
        BY <2>2 DEF Types
      <4> QED BY <2>1, <2>2, <4>1, <4>2 DEF IsFirstPair
    <3> QED BY <3>1, LiveRead
  <2>5. CASE ~OnSlot(m)
    <3>1. Pos(m)' = Pos(m)
      BY <2>3, <2>5 DEF Pos
    <3>2. CASE ~(Data(ring[1]) /\ In(ring[1].seq, m))
      BY <2>3, <2>4, <3>1, <3>2, ReadOther
    <3>3. CASE In(ring[1].seq, m)
      <4>1. ~Live(m)'
        BY <2>1, <2>4, <2>5, <3>3, LooseIsDead
      <4>2. OnSlot(m)' = (OnSlot(m) \/ (Data(ring[1]) /\ ring[1].seq = Start(m)))
        BY <1>2, <2>1, <2>3
      <4>3. Reached(ring, m, OnSlot(m), Pos(m), 1, Pos(m)')
        BY <3>1 DEF Reached
      <4>4. Open(m)' => OpenAt(m)'
        BY <1>7, <2>3, <4>2, <4>3, ReadOpen
      <4> QED BY <4>1, <4>4 DEF StitchingAt
    <3> QED BY <3>2, <3>3
  <2>6. CASE OnSlot(m)
    <3>1. slot' = slot /\ recent[slot].msg = m /\ Current(recent[slot]) /\ OnSlot(m)' /\ Open(m)
      BY <1>2, <2>1, <2>3, <2>6 DEF OnSlot, Open
    <3>2. In(ring[1].seq, m)
      BY <2>1, <3>1, OwnBody
    <3>3. Pos(m)' = EndOf(ring[1])
      BY <2>1, <2>2, <3>1 DEF Pos
    <3>4. OnSlot(m)' = (OnSlot(m) \/ (Data(ring[1]) /\ ring[1].seq = Start(m)))
      BY <1>2, <2>3, <2>6
    <3>5. Reached(ring, m, OnSlot(m), Pos(m), 1, Pos(m)')
      <4>1. Counted(ring, m, OnSlot(m), 1)
        BY <2>1, <2>6, <3>2 DEF Counted
      <4> QED BY <3>3, <4>1 DEF Reached
    <3>6. Open(m)' => OpenAt(m)'
      BY <3>1, <3>4, <3>5, ReadOpen
    <3>7. ASSUME Live(m)' PROVE LiveAt(m)'
      <4>1. LiveAt(m)
        BY <2>4, <3>7 DEF StitchingAt
      <4>3a. /\ Chained(Tail(ring), seen \cup {Key(ring[1])}, m, OnSlot(m)', EndOf(ring[1]))
             /\ \A x \in Nat : Reached(ring, m, OnSlot(m), Pos(m), Len(ring), x)
                   => \E y \in Nat : x <= y /\ Reached(Tail(ring), m, OnSlot(m)', EndOf(ring[1]), Len(Tail(ring)), y)
        <5>1. OnSlot(m)' <=> (OnSlot(m) \/ (Data(ring[1]) /\ ring[1].seq = Start(m)))
          BY <3>4
        <5>2. /\ ring \in Seq(Kept) /\ ring # <<>> /\ m \in Msgs /\ Pos(m) \in Nat
              /\ Data(ring[1]) /\ In(ring[1].seq, m) /\ Key(ring[1]) \notin seen
              /\ PieceOf(ring[1]) \in Plan /\ Chained(ring, seen, m, OnSlot(m), Pos(m))
          BY <1>1, <1>3, <1>6, <2>1, <3>2, <4>1 DEF LiveAt
        <5> QED BY <5>1, <5>2, TailChainNew
      <4>3. /\ Chained(ring', seen', m, OnSlot(m)', Pos(m)')
            /\ \A x \in Nat : Reached(ring, m, OnSlot(m), Pos(m), Len(ring), x)
                  => \E y \in Nat : x <= y /\ Reached(ring', m, OnSlot(m)', Pos(m)', Len(ring'), y)
        BY <1>1, <4>3a, <3>3
      <4>4. ASSUME WinIn(m)
            PROVE  \E y \in Nat : win.next <= y /\ Reached(ring', m, OnSlot(m)', Pos(m)', Len(ring'), y)
        <5>0. win.next \in Nat
          BY <4>4 DEF WinIn, Types, Windows
        <5>1. PICK x \in Nat : win.next <= x /\ Reached(ring, m, OnSlot(m), Pos(m), Len(ring), x)
          BY <4>1, <4>4 DEF LiveAt
        <5>2. PICK y \in Nat : x <= y /\ Reached(ring', m, OnSlot(m)', Pos(m)', Len(ring'), y)
          BY <4>3, <5>1
        <5> QED BY <5>0, <5>1, <5>2
      <4> QED BY <1>1, <3>1, <4>3, <4>4 DEF LiveAt
    <3> QED BY <3>6, <3>7 DEF StitchingAt
  <2> QED BY <2>5, <2>6
<1> QED
  BY <1>8, <1>9, <1>10, <1>11, <1>12, <1>13, ConsumeReads

LEMMA StitchingHolds == Spec => []Stitching
<1>1. Init => Stitching
  <2> SUFFICES ASSUME Init, NEW m \in Msgs PROVE StitchingAt(m)
    BY DEF Stitching
  <2>1. ring = <<>> /\ seen = {} /\ slot = 0 /\ asked = 0 /\ win = Nothing
    BY DEF Init
  <2>2. Len(ring) = 0 /\ m > 0 /\ m \in Nat
    BY <2>1, MsgsAreNat
  <2>3. ~OnSlot(m) /\ Pos(m) = Start(m) /\ ~WinIn(m)
    BY <2>1 DEF OnSlot, Pos, WinIn
  <2>4. ~Live(m)
    BY <2>1, <2>2, <2>3 DEF Live, Expecting
  <2>5. \A x : ~Reached(ring, m, OnSlot(m), Pos(m), Len(ring), x) \/ x = Start(m)
    BY <2>2, <2>3 DEF Reached
  <2>6. Covered(ring, seen, m, OnSlot(m), Pos(m))
    <3> SUFFICES ASSUME NEW q \in Plan, NEW x \in Nat, In(q.seq, m),
                        Reached(ring, m, OnSlot(m), Pos(m), Len(ring), x), q.seq < x
                 PROVE  FALSE
      BY DEF Covered
    <3>1. x = Start(m) /\ Start(m) <= q.seq /\ q.seq \in Nat
      BY <2>5 DEF In, Plan
    <3> QED BY <3>1
  <2>7. Ahead(ring, seen, m, OnSlot(m), Pos(m))
    BY <2>2 DEF Ahead
  <2> QED BY <2>3, <2>4, <2>6, <2>7 DEF StitchingAt, OpenAt
<1>2. /\ Types /\ Order /\ SlotInv /\ CleanOrStale /\ PlanInv
      /\ Types' /\ Order' /\ PlanInv'
      /\ Stitching /\ [Next]_vars
      => Stitching'
  <2> SUFFICES ASSUME Types, Order, SlotInv, CleanOrStale, PlanInv, Types', Order', PlanInv',
                      Stitching, [Next]_vars, SegmentsAgree, NEW m \in Msgs
               PROVE  StitchingAt(m)'
    BY DEF Stitching
  <2>0. StitchingAt(m)
    BY DEF Stitching
  <2>1. ASSUME NEW seg \in Segments, Sight(seg) PROVE StitchingAt(m)'
    BY <2>0, <2>1, StitchingSight
  <2>2. ASSUME NEW k \in Msgs, SightRequest(k) PROVE StitchingAt(m)'
    BY <2>0, <2>2, StitchingRequest
  <2>3. CASE WindowEvicted
    <3>1. win' = Nothing /\ UNCHANGED <<ring, seen, pending, recent, slot, asked>>
      BY <2>3 DEF WindowEvicted, js
    <3>2. \A e : Current(e)' <=> Current(e)
      BY <2>3, CurrentStays
    <3>3. OnSlot(m)' = OnSlot(m)
      BY <3>1, <3>2 DEF OnSlot
    <3>4. Pos(m)' = Pos(m)
      BY <3>1, <3>3 DEF Pos
    <3>5. Live(m)' => Live(m)
      BY <3>1, <3>3 DEF Live, Expecting, NoPair, IsFirstPair
    <3> QED BY <2>0, <3>1, <3>3, <3>4, <3>5, StandsStill
  <2>4. CASE Consume
    BY <2>0, <2>4, StitchingConsume
  <2>5. ASSUME NEW n \in 1..Len(recent), Drain(n) PROVE StitchingAt(m)'
    BY <2>0, <2>5, StitchingDrain
  <2>6. CASE Lapse
    BY <2>0, <2>6, StitchingLapse
  <2>7. CASE UNCHANGED vars
    <3>1. UNCHANGED <<win, ring, seen, pending, recent, slot, asked, cuts>>
      BY <2>7 DEF vars, kernel, js, past
    <3>3. OnSlot(m)' = OnSlot(m)
      BY <3>1 DEF OnSlot, Current
    <3>4. Pos(m)' = Pos(m)
      BY <3>1, <3>3 DEF Pos
    <3>5. Live(m)' => Live(m)
      BY <3>1, <3>3 DEF Live, Expecting, NoPair, IsFirstPair
    <3> QED BY <2>0, <3>1, <3>3, <3>4, <3>5, StandsStill
  <2> QED BY <2>1, <2>2, <2>3, <2>4, <2>5, <2>6, <2>7 DEF Next
<1> QED
  BY <1>1, <1>2, TypesHold, OrderHolds, SlotHolds, CleanHolds, PlanHolds, PTL DEF Spec

-----------------------------------------------------------------------------
(* What was stitched.                                                        *)

\* In order, and in the response...
Rising(e, n) == \A j \in 1..n : In(e.got[j], e.msg) /\ (j > 1 => e.got[j - 1] < e.got[j])
\* ...and without a hole.
Whole(e, n) == \A j \in 1..n : e.got[j] = Start(e.msg) + j - 1
\* What somebody reads of a pair, or did since nothing has lapsed.
Shown(i) == IF i = slot /\ Current(recent[i]) THEN Taken(recent[i]) ELSE Leaves(recent[i])
PairAt(i) ==
    /\ Leaves(recent[i]) <= Taken(recent[i])
    /\ Rising(recent[i], Shown(i))
    /\ IsFirstPair(i) => Whole(recent[i], Shown(i))
    /\ recent[i].out # Nothing /\ recent[i].out.clen # Nothing /\ ~recent[i].out.more
          => BodyIn(recent[i].msg, recent[i].out.taken) >= BodyLen(recent[i].msg)
PairInv == SegmentsAgree => \A i \in 1..Len(recent) : PairAt(i)

LEMMA PairFacts ==
    ASSUME Types, NEW i \in 1..Len(recent)
    PROVE  /\ recent[i] \in Pairs /\ Taken(recent[i]) \in Nat /\ Leaves(recent[i]) \in Nat
           /\ recent[i].got \in Seq(Nat) /\ recent[i].msg \in Msgs
           /\ recent[i].out # Nothing => recent[i].out \in Seals
<1>1. recent[i] \in Pairs
  BY DEF Types
<1>2. /\ recent[i].got \in Seq(Nat) /\ recent[i].msg \in Msgs
      /\ recent[i].out # Nothing => recent[i].out \in Seals
  BY <1>1 DEF Pairs
<1>3. Taken(recent[i]) \in Nat /\ Leaves(recent[i]) \in Nat
  BY <1>2 DEF Taken, Leaves, Seals
<1> QED
  BY <1>1, <1>2, <1>3

\* A seal that does not say "more" of a body whose length was read.
LEMMA SealTells ==
    ASSUME NEW e \in Pairs
    PROVE  /\ Seal(e).taken = Taken(e) /\ Taken(e) \in Nat
           /\ Seal(e) # Nothing
           /\ Seal(e).clen # Nothing /\ ~Seal(e).more => BodyTaken(e) >= BodyLen(e.msg)
<1>1. /\ e.msg \in Msgs /\ Taken(e) \in Nat /\ Seal(e) \in Seals
  BY Sealed DEF Pairs, Taken
<1>2. /\ Seal(e).taken = Taken(e) /\ Seal(e).clen = ContentLength(e)
      /\ Seal(e).more = (e.trunc \/ (ContentLength(e) # Nothing /\ BodyTaken(e) < ContentLength(e)))
  BY DEF Seal
<1>3. /\ ContentLength(e) \in Nat \cup {Nothing} /\ BodyTaken(e) \in Nat
      /\ ContentLength(e) # Nothing /\ BodyTaken(e) >= ContentLength(e)
            => BodyTaken(e) >= BodyLen(e.msg)
  BY <1>1, LengthRead
<1>4. ASSUME Seal(e).clen # Nothing, ~Seal(e).more PROVE BodyTaken(e) >= BodyLen(e.msg)
  <2>1. ContentLength(e) \in Nat /\ ~(BodyTaken(e) < ContentLength(e))
    BY <1>2, <1>3, <1>4
  <2> QED BY <1>2, <1>3, <1>4, <2>1
<1> QED
  BY <1>1, <1>2, <1>4, NothingElse

\* A pair that got nothing new, whether or not it left.
LEMMA PairKept ==
    ASSUME Types, NEW i \in 1..Len(recent), PairAt(i),
           recent'[i].got = recent[i].got, recent'[i].msg = recent[i].msg,
           \/ recent'[i].out = recent[i].out
           \/ recent[i].out = Nothing /\ recent'[i].out = Seal(recent[i]),
           IsFirstPair(i)' => IsFirstPair(i),
           i = slot' /\ Current(recent[i])' => i = slot /\ Current(recent[i])
    PROVE  PairAt(i)'
<1>1. recent[i] \in Pairs /\ Taken(recent[i]) \in Nat /\ Leaves(recent[i]) \in Nat
  BY PairFacts
<1>2. Taken(recent[i])' = Taken(recent[i])
  BY DEF Taken
<1>3. /\ Seal(recent[i]).taken = Taken(recent[i]) /\ Seal(recent[i]) # Nothing
      /\ Seal(recent[i]).clen # Nothing /\ ~Seal(recent[i]).more
            => BodyTaken(recent[i]) >= BodyLen(recent[i].msg)
  BY <1>1, SealTells
<1>4. Leaves(recent[i])' = Leaves(recent[i])
  BY <1>2, <1>3 DEF Leaves
<1>5. Shown(i) \in Nat /\ Shown(i)' \in Nat /\ Shown(i)' <= Shown(i)
  <2>1. Shown(i) \in {Taken(recent[i]), Leaves(recent[i])}
    BY DEF Shown
  <2>2. Shown(i)' = IF i = slot' /\ Current(recent[i])' THEN Taken(recent[i]) ELSE Leaves(recent[i])
    BY <1>2, <1>4 DEF Shown
  <2>3. Leaves(recent[i]) <= Taken(recent[i])
    BY DEF PairAt
  <2>4. CASE i = slot' /\ Current(recent[i])'
    <3>1. Shown(i) = Taken(recent[i]) /\ Shown(i)' = Taken(recent[i])
      BY <2>2, <2>4 DEF Shown
    <3> QED BY <1>1, <3>1
  <2>5. CASE ~(i = slot' /\ Current(recent[i])')
    <3>1. Shown(i)' = Leaves(recent[i])
      BY <2>2, <2>5
    <3> QED BY <1>1, <2>1, <2>3, <3>1
  <2> QED BY <2>4, <2>5
<1>6. \A j \in 1..Shown(i)' : j \in 1..Shown(i)
  BY <1>5
<1>7. Rising(recent[i], Shown(i))'
  BY <1>6 DEF PairAt, Rising
<1>8. ASSUME IsFirstPair(i)' PROVE Whole(recent[i], Shown(i))'
  <2>1. Whole(recent[i], Shown(i))
    BY <1>8 DEF PairAt
  <2> QED BY <1>6, <2>1 DEF Whole
<1>9. (Leaves(recent[i]) <= Taken(recent[i]))'
  BY <1>2, <1>4 DEF PairAt
<1>10. (recent[i].out # Nothing /\ recent[i].out.clen # Nothing /\ ~recent[i].out.more
          => BodyIn(recent[i].msg, recent[i].out.taken) >= BodyLen(recent[i].msg))'
  BY <1>3 DEF PairAt, BodyTaken
<1> QED
  BY <1>7, <1>8, <1>9, <1>10 DEF PairAt

\* A record of a response ends in the response.
LEMMA EndsInside ==
    ASSUME SegmentsAgree, PlanInv, Types, NEW i \in 1..Len(ring), Data(ring[i]),
           NEW m \in Msgs, In(ring[i].seq, m)
    PROVE  /\ ring[i].seq \in Nat /\ ring[i].len \in Nat \ {0}
           /\ ring[i].seq + ring[i].len <= Last(m)
           /\ \A n \in 0..(ring[i].len - 1) : In(ring[i].seq + n, m)
<1>1. ring[i] \in DataRecords /\ PieceOf(ring[i]) \in Plan
  BY RecordKinds DEF Types, PlanInv, Data
<1>2. ring[i].seq \in Nat /\ ring[i].len \in Nat \ {0} /\ PieceOf(ring[i]) \in [seq : Nat, len : Nat]
      /\ PieceOf(ring[i]).seq = ring[i].seq /\ PieceOf(ring[i]).len = ring[i].len
  BY <1>1, RecordKinds DEF PieceOf
<1>3. PICK seg \in Segments, n \in Msgs, k \in Nat : IsPiece(PieceOf(ring[i]), seg, n, k)
  BY <1>1 DEF Plan
<1>4. /\ ring[i].seq + ring[i].len <= seg.seq + seg.len /\ seg.seq + seg.len <= Last(n)
      /\ In(ring[i].seq, n) /\ n \in Msgs /\ seg.seq \in Nat /\ seg.len \in Nat
  BY <1>2, <1>3, PieceFacts
<1>5. n = m
  <2>1. ring[i].seq \in Nat /\ In(ring[i].seq, n) /\ In(ring[i].seq, m)
    BY <1>2, <1>4
  <2> QED BY <2>1, InOrderOfMsgs
<1>6. Start(m) \in Nat /\ Last(m) \in Nat /\ Start(m) <= ring[i].seq
  BY ResponseFacts DEF In
<1>7. ring[i].seq + ring[i].len <= Last(m)
  BY <1>2, <1>4, <1>5, <1>6
<1> QED
  BY <1>2, <1>6, <1>7 DEF In

LEMMA NewPair ==
    ASSUME SegmentsAgree, PlanInv, Types, Consume, NEW m \in Msgs, NEW e \in Pairs,
           ReadPaired(m, e), NEW i, i = Len(recent) + 1
    PROVE  PairAt(i)'
<1>1. recent \in Seq(Pairs) /\ Len(recent) \in Nat
  BY DEF Types
<1>2. recent'[i] = e /\ e.msg = m /\ e.got = Positions(ring[1]) /\ e.out = Nothing
  BY <1>1 DEF ReadPaired
<1>3. /\ 1 \in 1..Len(ring) /\ Data(ring[1]) /\ ring[1].seq = Start(m) /\ In(ring[1].seq, m)
  BY ReadRing, ResponseFacts DEF ReadPaired
<1>4. /\ ring[1].seq \in Nat /\ ring[1].len \in Nat \ {0}
      /\ \A n \in 0..(ring[1].len - 1) : In(ring[1].seq + n, m)
  BY <1>3, EndsInside
<1>5. Taken(e) = ring[1].len /\ \A j \in 1..ring[1].len : e.got[j] = ring[1].seq + j - 1
  BY <1>2, <1>4 DEF Taken, Positions
<1>6. Leaves(recent[i])' = Taken(e) /\ Taken(recent[i])' = Taken(e) /\ Shown(i)' = Taken(e)
  BY <1>2 DEF Leaves, Taken, Shown
<1>7. Rising(e, Taken(e))
  <2> SUFFICES ASSUME NEW j \in 1..ring[1].len
               PROVE  In(e.got[j], m) /\ (j > 1 => e.got[j - 1] < e.got[j])
    BY <1>2, <1>5 DEF Rising
  <2>1. j - 1 \in 0..(ring[1].len - 1) /\ e.got[j] = ring[1].seq + (j - 1)
    BY <1>4, <1>5
  <2>2. j > 1 => j - 1 \in 1..ring[1].len /\ e.got[j - 1] = ring[1].seq + (j - 1) - 1
    BY <1>4, <1>5
  <2> QED BY <1>4, <2>1, <2>2
<1>8. Whole(e, Taken(e))
  BY <1>2, <1>3, <1>5 DEF Whole
<1>9. Rising(recent[i], Shown(i))' /\ Whole(recent[i], Shown(i))'
  BY <1>2, <1>6, <1>7, <1>8 DEF Rising, Whole
<1>10. Taken(e) <= Taken(e)
  BY <1>4, <1>5
<1> QED
  BY <1>2, <1>6, <1>9, <1>10 DEF PairAt

\* What a body leaves of the pair that collects it.
LEMMA StitchedPair ==
    ASSUME SegmentsAgree, Types, Order, SlotInv, CleanOrStale, PlanInv, Stitching, Consume,
           NEW e \in Pairs, ReadStitched(e), NEW i, i = slot, PairAt(i)
    PROVE  PairAt(i)'
<1> DEFINE old == recent[i]
           T == Taken(recent[i])
           m == recent[i].msg
<1>1. /\ i \in 1..Len(recent) /\ old \in Pairs /\ ring[1] \in DataRecords
      /\ recent'[i] = e
      /\ T \in Nat \ {0} /\ Taken(e) \in Nat /\ T <= Taken(e)
      /\ \A j \in 1..T : e.got[j] = old.got[j]
      /\ \A j \in 1..Taken(e) : j > T =>
            e.got[j] = ring[1].seq + (j - T) - 1 /\ j - T \in 1..ring[1].len
  BY StitchedTo
<1>2. /\ ReadBody /\ slot # 0 /\ e.msg = m /\ e.out = old.out /\ slot' \in {0, slot}
      /\ Data(ring[1]) /\ Key(ring[1]) \notin seen
  BY DEF ReadStitched, ReadBody
<1>3. /\ m \in Msgs /\ Leaves(old) \in Nat /\ Leaves(old) <= T
      /\ 1 \in 1..Len(ring) /\ old.got \in Seq(Nat) /\ Len(old.got) = T
  BY <1>1, <1>2, PairFacts, ReadRing DEF PairAt, Taken
<1>4. Taken(recent[i])' = Taken(e)
  BY <1>1 DEF Taken
<1>5. asked' = asked /\ (<<asked, "age">> \in cuts' <=> <<asked, "age">> \in cuts)
  <2>1. asked' = asked /\ cuts \subseteq cuts' /\ \A x \in cuts' : x \in cuts \/ x[2] \in {"flag", "room"}
    BY ConsumeReads
  <2> QED BY <2>1
<1>6. Current(recent'[i]) <=> Current(old)
  BY <1>1, <1>2 DEF Current
<1>7. Shown(i)' \in Nat /\ Leaves(recent[i])' \in Nat
      /\ Leaves(recent[i])' = (IF old.out = Nothing THEN Taken(e) ELSE Leaves(old))
      /\ Leaves(recent[i])' <= Taken(e)
      /\ Shown(i)' \in {Taken(e), Leaves(recent[i])'}
  <2>1. Leaves(recent[i])' = (IF old.out = Nothing THEN Taken(e) ELSE Leaves(old))
    BY <1>1, <1>2, <1>4 DEF Leaves
  <2>2. Shown(i)' \in {Taken(e), Leaves(recent[i])'}
    BY <1>1, <1>4 DEF Shown
  <2> HIDE DEF old, T
  <2> QED BY <1>1, <1>3, <2>1, <2>2
<1>8. IsFirstPair(i)' => IsFirstPair(i)
  <2>1. /\ Len(recent) \in Nat
        /\ \A k \in 1..Len(recent) : recent'[k].msg = recent[k].msg
    BY RecentRead
  <2>2. \A j \in 1..(i - 1) : j \in 1..Len(recent)
    BY <1>1, <2>1
  <2> QED BY <1>1, <2>1, <2>2 DEF IsFirstPair
<1>9. (recent[i].out # Nothing /\ recent[i].out.clen # Nothing /\ ~recent[i].out.more
          => BodyIn(recent[i].msg, recent[i].out.taken) >= BodyLen(recent[i].msg))'
  BY <1>1, <1>2 DEF PairAt
<1>10. CASE Current(old)
  <2>1. OnSlot(m) /\ Open(m)
    BY <1>2, <1>10 DEF OnSlot, Open
  <2>2. In(ring[1].seq, m)
    BY <1>2, <1>10, OwnBody
  <2>3. /\ ring[1].seq \in Nat /\ ring[1].len \in Nat \ {0}
        /\ \A n \in 0..(ring[1].len - 1) : In(ring[1].seq + n, m)
    BY <1>2, <1>3, <2>2, EndsInside
  <2>4. StitchingAt(m)
    BY <1>3 DEF Stitching
  <2>5. Pos(m) = old.got[T] + 1 /\ Pos(m) \in Nat /\ T \in 1..T /\ old.got[T] \in Nat
    BY <1>1, <1>3, <2>1 DEF Pos
  <2>6. Pos(m) <= ring[1].seq
    <3>1. Ahead(ring, seen, m, OnSlot(m), Pos(m))
      BY <2>1, <2>4 DEF StitchingAt, OpenAt
    <3>2. Counted(ring, m, OnSlot(m), 1) /\ Fresh(ring, seen, 1)
          /\ Reached(ring, m, OnSlot(m), Pos(m), 0, Pos(m))
      BY <1>2, <2>1, <2>2 DEF Counted, Fresh, Reached
    <3>3. /\ 1 \in 1..Len(ring) /\ Pos(m) \in Nat
          /\ Reached(ring, m, OnSlot(m), Pos(m), 1 - 1, Pos(m))
      BY <1>3, <2>5, <3>2
    <3>4. \A j \in 1..Len(ring) : \A x \in Nat :
             Counted(ring, m, OnSlot(m), j) /\ Fresh(ring, seen, j)
             /\ Reached(ring, m, OnSlot(m), Pos(m), j - 1, x) => x <= ring[j].seq
      BY <3>1 DEF Ahead
    <3> HIDE DEF m
    <3> QED BY <3>2, <3>3, <3>4
  <2>7. Shown(i) = T
    BY <1>10 DEF Shown
  <2>8. Rising(e, Taken(e))
    <3> SUFFICES ASSUME NEW j \in 1..Taken(e)
                 PROVE  In(e.got[j], m) /\ (j > 1 => e.got[j - 1] < e.got[j])
      BY <1>2 DEF Rising
    <3>1. \A k \in 1..T : In(old.got[k], m) /\ (k > 1 => old.got[k - 1] < old.got[k])
      BY <2>7 DEF PairAt, Rising
    <3>2. CASE j <= T
      <4>1. j \in 1..T /\ (j > 1 => j - 1 \in 1..T)
        BY <1>1, <3>2
      <4> QED BY <1>1, <3>1, <4>1
    <3>3. CASE j > T
      <4>0. e.got[j] = ring[1].seq + (j - T) - 1 /\ j - T \in 1..ring[1].len
        BY <1>1, <3>3
      <4>1. e.got[j] = ring[1].seq + (j - T) - 1 /\ (j - T) - 1 \in 0..(ring[1].len - 1)
        <5> HIDE DEF T
        <5> QED BY <2>3, <4>0
      <4>2. In(e.got[j], m) /\ e.got[j] = ring[1].seq + ((j - T) - 1)
        BY <1>1, <2>3, <4>1
      <4>3. CASE j = T + 1
        <5>1. j - 1 = T /\ e.got[j - 1] = old.got[T]
          BY <1>1, <2>5, <4>3
        <5>2. e.got[j] = ring[1].seq
          BY <1>1, <2>3, <4>1, <4>3
        <5> QED BY <2>3, <2>5, <2>6, <4>2, <5>1, <5>2
      <4>4. CASE j # T + 1
        <5>1. j - 1 \in 1..Taken(e) /\ j - 1 > T
          BY <1>1, <3>3, <4>4
        <5>2. e.got[j - 1] = ring[1].seq + (j - 1 - T) - 1
          BY <1>1, <5>1
        <5> QED BY <1>1, <2>3, <4>1, <4>2, <5>2
      <4> QED BY <4>3, <4>4
    <3> QED BY <1>1, <3>2, <3>3
  <2>9. ASSUME IsFirstPair(i)' PROVE Whole(e, Taken(e))
    <3>1. Live(m) /\ Whole(old, T)
      BY <1>8, <2>1, <2>7, <2>9 DEF Live, PairAt
    <3>2. ring[1].seq = Pos(m)
      <4>1. Chained(ring, seen, m, OnSlot(m), Pos(m))
        BY <2>4, <3>1 DEF StitchingAt, LiveAt
      <4>2. Counted(ring, m, OnSlot(m), 1) /\ Fresh(ring, seen, 1)
        BY <1>2, <2>1, <2>2 DEF Counted, Fresh
      <4>3. Reached(ring, m, OnSlot(m), Pos(m), 0, ring[1].seq)
        BY <1>2, <1>3, <2>2, <4>1, <4>2 DEF Chained
      <4> QED BY <4>3 DEF Reached
    <3>3. old.got[T] = Start(m) + T - 1 /\ Start(m) \in Nat
      BY <1>3, <2>5, <3>1, ResponseFacts DEF Whole
    <3>4. ring[1].seq = Start(m) + T
      BY <1>1, <2>5, <3>2, <3>3
    <3> SUFFICES ASSUME NEW j \in 1..Taken(e) PROVE e.got[j] = Start(m) + j - 1
      BY <1>2 DEF Whole
    <3>5. CASE j <= T
      <4>1. j \in 1..T
        BY <1>1, <3>5
      <4> QED BY <1>1, <3>1, <4>1 DEF Whole
    <3>6. CASE j > T
      <4>1. e.got[j] = ring[1].seq + (j - T) - 1
        BY <1>1, <3>6
      <4> QED BY <1>1, <3>3, <3>4, <4>1
    <3> QED BY <1>1, <3>5, <3>6
  <2>10. \A j \in 1..Shown(i)' : j \in 1..Taken(e)
    BY <1>1, <1>7
  <2>11. Rising(recent[i], Shown(i))'
    <3>1. \A j \in 1..Shown(i)' : In(e.got[j], e.msg) /\ (j > 1 => e.got[j - 1] < e.got[j])
      BY <2>8, <2>10 DEF Rising
    <3> QED BY <1>1, <3>1 DEF Rising
  <2>12. (IsFirstPair(i) => Whole(recent[i], Shown(i)))'
    BY <1>1, <2>9, <2>10 DEF Whole
  <2> QED BY <1>4, <1>7, <1>9, <2>11, <2>12 DEF PairAt
<1>11. CASE ~Current(old)
  <2>1. old.out # Nothing /\ Shown(i) = Leaves(old) /\ Leaves(recent[i])' = Leaves(old)
    BY <1>7, <1>11 DEF Current, Shown
  <2>2. Shown(i)' = Leaves(old)
    <3>1. ~Current(recent[i])'
      BY <1>1, <1>5, <1>6, <1>11 DEF Current
    <3> QED BY <2>1, <3>1 DEF Shown
  <2>3. \A j \in 1..Leaves(old) : j \in 1..T /\ (j > 1 => j - 1 \in 1..T)
    BY <1>1, <1>3
  <2>4. \A j \in 1..Leaves(old) : e.got[j] = old.got[j] /\ (j > 1 => e.got[j - 1] = old.got[j - 1])
    BY <1>1, <2>3
  <2>5. Rising(recent[i], Shown(i))'
    <3>1. Rising(old, Leaves(old))
      BY <2>1 DEF PairAt
    <3>2. Rising(e, Leaves(old))
      BY <1>2, <2>4, <3>1 DEF Rising
    <3> QED BY <1>1, <2>2, <3>2 DEF Rising
  <2>6. ASSUME IsFirstPair(i)' PROVE Whole(recent[i], Shown(i))'
    <3>1. Whole(old, Leaves(old))
      BY <1>8, <2>1, <2>6 DEF PairAt
    <3>2. Whole(e, Leaves(old))
      BY <1>2, <2>4, <3>1 DEF Whole
    <3> QED BY <1>1, <2>2, <3>2 DEF Whole
  <2> QED BY <1>4, <1>7, <1>9, <2>5, <2>6 DEF PairAt
<1> QED
  BY <1>10, <1>11

LEMMA PairHolds == Spec => []PairInv
<1>1. Init => PairInv
  BY DEF Init, PairInv
<1>2. /\ Types /\ Order /\ SlotInv /\ CleanOrStale /\ PlanInv /\ Stitching
      /\ PairInv /\ [Next]_vars
      => PairInv'
  <2> SUFFICES ASSUME Types, Order, SlotInv, CleanOrStale, PlanInv, Stitching, PairInv,
                      [Next]_vars, SegmentsAgree, NEW i \in 1..Len(recent')
               PROVE  PairAt(i)'
    BY DEF PairInv
  <2>0. \A k \in 1..Len(recent) : PairAt(k)
    BY DEF PairInv
  <2>1. ASSUME NEW seg \in Segments, Sight(seg) PROVE PairAt(i)'
    <3>1. UNCHANGED <<recent, slot>>
      BY <2>1, SightAdds
    <3>2. \A e : Current(e)' <=> Current(e)
      BY <2>1, CurrentStays
    <3>3. (IsFirstPair(i)' => IsFirstPair(i)) /\ (Current(recent[i])' => Current(recent[i]))
      BY <3>1, <3>2 DEF IsFirstPair
    <3> QED BY <2>0, <3>1, <3>3, PairKept
  <2>2. ASSUME NEW k \in Msgs, SightRequest(k) PROVE PairAt(i)'
    <3>1. UNCHANGED <<recent, slot>>
      BY <2>2 DEF SightRequest, js
    <3>2. Current(recent[i])' => Current(recent[i])
      BY <2>2, <3>1, CurrentRequest
    <3>3. IsFirstPair(i)' => IsFirstPair(i)
      BY <3>1 DEF IsFirstPair
    <3> QED BY <2>0, <3>1, <3>2, <3>3, PairKept
  <2>3. CASE WindowEvicted
    <3>1. UNCHANGED <<recent, slot>>
      BY <2>3 DEF WindowEvicted, js
    <3>2. \A e : Current(e)' <=> Current(e)
      BY <2>3, CurrentStays
    <3>3. (IsFirstPair(i)' => IsFirstPair(i)) /\ (Current(recent[i])' => Current(recent[i]))
      BY <3>1, <3>2 DEF IsFirstPair
    <3> QED BY <2>0, <3>1, <3>3, PairKept
  <2>4. CASE Consume
    <3>0. /\ Len(recent') \in Nat /\ Len(recent) \in Nat /\ Len(recent) <= Len(recent')
          /\ \A k \in 1..Len(recent) : /\ recent'[k].msg = recent[k].msg
                                       /\ recent'[k].out = recent[k].out
                                       /\ (recent'[k] = recent[k] \/ k = slot)
          /\ \A k \in 1..Len(recent') : k > Len(recent) =>
                 /\ k = Len(recent) + 1
                 /\ \E m \in Msgs, e \in Pairs : ReadPaired(m, e) /\ recent'[k] = e
      BY <2>4, RecentRead
    <3>1. CASE i > Len(recent)
      <4>1. i = Len(recent) + 1
        BY <3>0, <3>1
      <4>2. PICK m \in Msgs, e \in Pairs : ReadPaired(m, e)
        BY <3>0, <3>1
      <4> QED BY <2>4, <4>1, <4>2, NewPair
    <3>2. CASE i <= Len(recent)
      <4>1. i \in 1..Len(recent) /\ PairAt(i)
        BY <2>0, <3>0, <3>2
      <4>2. CASE i = slot /\ \E e \in Pairs : ReadStitched(e)
        <5>1. PICK e \in Pairs : ReadStitched(e)
          BY <4>2
        <5> QED BY <2>4, <4>1, <4>2, <5>1, StitchedPair
      <4>3. CASE ~(i = slot /\ \E e \in Pairs : ReadStitched(e))
        <5>1. /\ recent'[i] = recent[i]
              /\ slot' # slot => slot' = 0 \/ slot' = Len(recent) + 1
          <6>1. ASSUME NEW e \in Pairs, ReadStitched(e)
                PROVE  recent'[i] = recent[i] /\ slot' \in {0, slot}
            <7>1. i # slot
              BY <4>3, <6>1
            <7> QED BY <3>0, <4>1, <6>1, <7>1 DEF ReadStitched
          <6>2. ASSUME NEW m \in Msgs, NEW e \in Pairs, ReadPaired(m, e)
                PROVE  recent'[i] = recent[i] /\ slot' = Len(recent) + 1
            <7>1. recent \in Seq(Pairs)
              BY DEF Types
            <7> QED BY <4>1, <6>2, <7>1 DEF ReadPaired
          <6> QED BY <2>4, <6>1, <6>2, ConsumeReads DEF ReadAgain, ReadRequest, ReadLoose, ReadUnpaired
        <5>2. \A e : Current(e)' <=> Current(e)
          BY <2>4, CurrentStays
        <5>3. Current(recent[i])' => Current(recent[i])
          BY <5>1, <5>2
        <5>4. i = slot' => i = slot
          BY <3>0, <4>1, <5>1
        <5>5. IsFirstPair(i)' => IsFirstPair(i)
          <6>1. \A j \in 1..(i - 1) : j \in 1..Len(recent)
            BY <3>0, <4>1
          <6> QED BY <3>0, <4>1, <6>1 DEF IsFirstPair
        <5> QED BY <4>1, <5>1, <5>3, <5>4, <5>5, PairKept
      <4> QED BY <4>2, <4>3
    <3> QED BY <3>0, <3>1, <3>2
  <2>5. ASSUME NEW n \in 1..Len(recent), Drain(n) PROVE PairAt(i)'
    <3>1. /\ UNCHANGED <<slot, asked, cuts>>
          /\ Len(recent') = Len(recent) /\ Len(recent) \in Nat
          /\ \A k \in 1..Len(recent) :
                 /\ recent'[k].msg = recent[k].msg /\ recent'[k].got = recent[k].got
                 /\ \/ recent'[k].out = recent[k].out
                    \/ recent[k].out = Nothing /\ recent'[k].out = Seal(recent[k])
      BY <2>5, DrainKeeps
    <3>2. Current(recent[i])' => Current(recent[i])
      BY <3>1 DEF Current
    <3>3. IsFirstPair(i)' => IsFirstPair(i)
      <4>1. \A j \in 1..(i - 1) : j \in 1..Len(recent)
        BY <3>1
      <4> QED BY <3>1, <4>1 DEF IsFirstPair
    <3> QED BY <2>0, <3>1, <3>2, <3>3, PairKept
  <2>6. CASE Lapse
    <3>1. /\ UNCHANGED <<recent, asked>> /\ slot' \in {slot, 0}
          /\ \A k \in 1..Len(recent) : recent[k].out # Nothing
          /\ cuts' = cuts \cup {<<asked, "age">>}
      BY <2>6, LapseForgets
    <3>2. ~Current(recent[i])'
      BY <3>1 DEF Current
    <3>3. IsFirstPair(i)' => IsFirstPair(i)
      BY <3>1 DEF IsFirstPair
    <3> QED BY <2>0, <3>1, <3>2, <3>3, PairKept
  <2>7. CASE UNCHANGED vars
    <3>1. UNCHANGED <<recent, slot, asked, cuts>>
      BY <2>7 DEF vars, js, past
    <3>2. (IsFirstPair(i)' => IsFirstPair(i)) /\ (Current(recent[i])' => Current(recent[i]))
      BY <3>1 DEF IsFirstPair, Current
    <3> QED BY <2>0, <3>1, <3>2, PairKept
  <2> QED BY <2>1, <2>2, <2>3, <2>4, <2>5, <2>6, <2>7 DEF Next
<1> QED
  BY <1>1, <1>2, TypesHold, OrderHolds, SlotHolds, CleanHolds, PlanHolds, StitchingHolds, PTL DEF Spec

\* Of every response, whatever was sighted twice, lost or forgotten, what leaves with its
\* first pair is a beginning of it, without a hole and without a repeat, if the segments of
\* the connection cut the stream in one way (a retransmission carries what one of them
\* carried).
THEOREM NoHoleNoRepeat ==
    ASSUME SegmentsAgree
    PROVE  Spec => []Stitched
<1>1. Types /\ PairInv => Stitched
  <2> SUFFICES ASSUME Types, PairInv, NEW i \in 1..Len(recent), IsFirstPair(i),
                      NEW j \in 1..Leaves(recent[i])
               PROVE  recent[i].got[j] = Start(recent[i].msg) + j - 1
    BY DEF Stitched
  <2>1. PairAt(i) /\ Whole(recent[i], Shown(i))
    BY DEF PairInv, PairAt
  <2>2. Taken(recent[i]) \in Nat /\ Leaves(recent[i]) \in Nat /\ Leaves(recent[i]) <= Taken(recent[i])
    BY <2>1, PairFacts DEF PairAt
  <2>3. j \in 1..Shown(i)
    BY <2>2 DEF Shown
  <2> QED BY <2>1, <2>3 DEF Whole
<1> QED
  BY <1>1, TypesHold, PairHolds, PTL

\* Positions that rise from where a response begins reach its end no sooner than it is long.
LEMMA RisingIsLong ==
    ASSUME NEW e \in Pairs, NEW n \in Nat, n <= Taken(e), Rising(e, n)
    PROVE  n <= Responses[e.msg].len
<1> DEFINE P == {k \in Nat : k + 1 \in 1..n => e.got[k + 1] >= Start(e.msg) + k}
<1>1. e.msg \in Msgs /\ e.got \in Seq(Nat) /\ Taken(e) = Len(e.got)
  BY DEF Pairs, Taken
<1>2. /\ Start(e.msg) \in Nat /\ Responses[e.msg].len \in Nat
      /\ Last(e.msg) = Start(e.msg) + Responses[e.msg].len
  BY <1>1, ResponseFacts DEF Last
<1>3. \A j \in 1..n : e.got[j] \in Nat /\ Start(e.msg) <= e.got[j] /\ e.got[j] < Last(e.msg)
  BY <1>1 DEF Rising, In
<1>4. \A j \in 1..n : j > 1 => e.got[j - 1] < e.got[j]
  BY DEF Rising
<1>5. 0 \in P
  BY <1>2, <1>3
<1>6. ASSUME NEW k \in Nat, k \in P PROVE k + 1 \in P
  <2> SUFFICES ASSUME k + 2 \in 1..n PROVE e.got[k + 2] >= Start(e.msg) + (k + 1)
    <3>1. k + 1 \in Nat /\ (k + 1) + 1 = k + 2
      OBVIOUS
    <3> QED BY <3>1
  <2>1. k + 1 \in 1..n /\ e.got[k + 1] >= Start(e.msg) + k
    BY <1>6
  <2>2. (k + 2) - 1 = k + 1 /\ k + 2 > 1
    OBVIOUS
  <2>3. e.got[k + 1] < e.got[k + 2]
    BY <1>4, <2>2
  <2> QED BY <1>2, <1>3, <2>1, <2>3
<1>7. \A k \in Nat : k \in P
  <2> HIDE DEF P
  <2> QED BY <1>5, <1>6, NatInduction1
<1>8. CASE n > 0
  <2>1. n - 1 \in Nat /\ n \in 1..n /\ (n - 1) + 1 = n
    BY <1>8
  <2>2. n - 1 \in P
    BY <1>7, <2>1
  <2>3. e.got[n] >= Start(e.msg) + (n - 1)
    BY <2>1, <2>2
  <2> QED BY <1>2, <1>3, <2>1, <2>3
<1> QED
  BY <1>2, <1>8

\* However the timer and the sightings interleave, a response in whose head a length was
\* read, were the head whole or cut, leaves with all of its body or says that it was cut:
\* what was stitched is in order, so that as much as its length is all of it; and a cut
\* head, with which no body comes, is unmarked only if it says that there is none.
THEOREM KnownLengthTells ==
    ASSUME SegmentsAgree
    PROVE  Spec => []WholeOrMarked
<1>1. Types /\ PairInv => WholeOrMarked
  <2> SUFFICES ASSUME Types, PairInv, NEW i \in 1..Len(recent), recent[i].out # Nothing,
                      recent[i].out.clen # Nothing, ~recent[i].out.more
               PROVE  BodyIn(recent[i].msg, recent[i].out.taken) = BodyLen(recent[i].msg)
    BY DEF WholeOrMarked
  <2>1. PairAt(i) /\ Leaves(recent[i]) = recent[i].out.taken
    BY DEF PairInv, Leaves
  <2>2. /\ recent[i] \in Pairs /\ recent[i].msg \in Msgs
        /\ Taken(recent[i]) \in Nat /\ Leaves(recent[i]) \in Nat
        /\ Leaves(recent[i]) <= Taken(recent[i]) /\ Rising(recent[i], Shown(i))
    BY <2>1, PairFacts DEF PairAt
  <2>3. Rising(recent[i], Leaves(recent[i]))
    <3>1. \A j \in 1..Leaves(recent[i]) : j \in 1..Shown(i)
      BY <2>2 DEF Shown
    <3> QED BY <2>2, <3>1 DEF Rising
  <2>4. Leaves(recent[i]) <= Responses[recent[i].msg].len
    BY <2>2, <2>3, RisingIsLong
  <2>5. BodyIn(recent[i].msg, Leaves(recent[i])) >= BodyLen(recent[i].msg)
    BY <2>1 DEF PairAt
  <2>6. /\ Responses[recent[i].msg].len \in Nat /\ HeadLen(recent[i].msg) \in Nat
        /\ HeadLen(recent[i].msg) <= Responses[recent[i].msg].len
    BY <2>2, ResponseFacts
  <2>7. BodyIn(recent[i].msg, Leaves(recent[i])) = BodyLen(recent[i].msg)
    BY <2>2, <2>4, <2>5, <2>6 DEF BodyIn, BodyLen
  <2> QED BY <2>1, <2>7
<1> QED
  BY <1>1, TypesHold, PairHolds, PTL

-----------------------------------------------------------------------------
(* Nothing is left out without a mark or a reason.                           *)

Quiet == Whys(asked) = {}
\* A pair that is marked as cut, or has its response.
Done(e) == e.trunc \/ Taken(e) >= Responses[e.msg].len
FlagWaits == \E i \in 1..Len(ring) : Data(ring[i]) /\ In(ring[i].seq, asked) /\ ring[i].trunc
\* While nothing ended the capture: the first record was taken before the others, a pair of
\* what is asked collects until it is done...
KeepsSlot ==
    /\ Clean(asked)
    /\ \A i \in 1..Len(recent) : recent[i].msg = asked =>
          /\ SeqKey(Start(asked)) \in seen /\ IsFirstPair(i)
          /\ i = slot \/ Done(recent[i])
\* ...and the window is where the response was sighted to, or a mark is on its way, or came.
KeepsUp == inOrder > 0 =>
    \/ win # Nothing /\ win.next = Start(asked) + inOrder
    \/ FlagWaits
    \/ /\ SeqKey(Start(asked)) \in seen
       /\ \A i \in 1..Len(recent) : recent[i].msg = asked => Done(recent[i])
AskedInv ==
    /\ asked > 0 => inOrder <= Responses[asked].len
    /\ asked > 0 /\ Quiet => KeepsSlot /\ KeepsUp

LEMMA QuietIs ==
    /\ Quiet <=> \A why \in {"ring", "rate", "ceiling", "budget", "flag", "room", "evicted", "age"} :
                    <<asked, why>> \notin cuts
    /\ Quiet' <=> \A why \in {"ring", "rate", "ceiling", "budget", "flag", "room", "evicted", "age"} :
                    <<asked', why>> \notin cuts'
BY DEF Quiet, Whys

LEMMA AskedIs ==
    ASSUME Types, asked > 0
    PROVE  asked \in Msgs /\ asked \in Nat
BY ResponsesAreFinite DEF Types

\* What a sighting does if nothing ends the capture.
LEMMA SightKeeps ==
    ASSUME Types, Order, NEW seg \in Segments, Sight(seg), Quiet'
    PROVE  /\ Quiet
           /\ \/ ~Wanted(seg) /\ UNCHANGED <<win, ring>>
              \/ Wanted(seg) /\ win' # Nothing /\ win'.next = seg.seq + seg.len
              \/ Wanted(seg) /\ FlagWaits'
<1>1. asked \in Msgs /\ OfResponse(seg, asked) /\ UNCHANGED asked
  BY SightShips
<1>2. CASE ~Wanted(seg) /\ UNCHANGED <<kernel, cuts, slips>>
  BY <1>1, <1>2, QuietIs DEF kernel
<1>3. ~(cuts' = cuts \cup {<<asked, "rate">>})
  BY <1>1, QuietIs
<1>4. ASSUME Wanted(seg), NEW want \in Nat \ {0}, NEW fit \in Nat, want <= seg.len,
             Shipped(seg, want, fit)
      PROVE  Quiet /\ ((win' # Nothing /\ win'.next = seg.seq + seg.len) \/ FlagWaits')
  <2>1. /\ <<asked, "ring">> \notin cuts' /\ <<asked, "ceiling">> \notin cuts'
        /\ <<asked, "budget">> \notin cuts'
    BY <1>1, QuietIs
  <2>2. cuts \subseteq cuts'
    BY <1>4 DEF Shipped
  <2>3. Quiet
    BY <1>1, <2>2, QuietIs
  <2>4. fit = Chunks(want) /\ fit \in Nat \ {0}
    <3>1. Chunks(want) \in Nat \ {0}
      BY ChunksFacts
    <3>2. fit \in 0..Chunks(want) /\ ~(fit < Chunks(want))
      BY <1>4, <2>1 DEF Shipped
    <3> QED BY <3>1, <3>2
  <2>5. win' # Nothing => win'.next = seg.seq + seg.len
    BY <1>4, <2>4 DEF Shipped
  <2>6. ASSUME win' = Nothing PROVE FlagWaits'
    <3>1. Chunk(seg, want, fit).trunc
      BY <1>4, <2>1, <2>4, <2>6 DEF Shipped
    <3>2. /\ Len(ring') = Len(ring) + fit /\ Len(ring) \in Nat /\ fit \in 1..fit
          /\ ring'[Len(ring) + fit] = Chunk(seg, want, fit)
          /\ Chunk(seg, want, fit) \in DataRecords
          /\ In(Chunk(seg, want, fit).seq, asked)
      BY <1>1, <1>4, <2>4, ShippedRecords
    <3>3. Len(ring) + fit \in 1..Len(ring')
      BY <2>4, <3>2
    <3> QED BY <1>1, <3>1, <3>2, <3>3, RecordKinds DEF FlagWaits
  <2> QED BY <2>3, <2>5, <2>6
<1> QED
  BY <1>2, <1>3, <1>4, SightShips

LEMMA AskedSight ==
    ASSUME Types, Order, NEW seg \in Segments, Sight(seg), AskedInv
    PROVE  AskedInv'
<1>1. /\ UNCHANGED <<seen, pending, recent, slot, asked>> /\ asked \in Msgs /\ asked > 0
      /\ Len(ring) \in Nat /\ Len(ring') \in Nat /\ Len(ring) <= Len(ring')
      /\ \A i \in 1..Len(ring) : ring'[i] = ring[i]
  BY SightAdds, SightShips
<1>2. /\ OfResponse(seg, asked)
      /\ inOrder' = IF IsFirst(seg) THEN seg.len
                    ELSE IF seg.seq = Start(asked) + inOrder THEN inOrder + seg.len
                    ELSE inOrder
  BY SightShips
<1>3. /\ seg.seq \in Nat /\ seg.len \in Nat \ {0} /\ seg.seq + seg.len <= Last(asked)
      /\ Start(asked) <= seg.seq /\ Start(asked) \in Nat /\ Responses[asked].len \in Nat
      /\ (IsFirst(seg) <=> seg.seq = Start(asked)) /\ inOrder \in Nat
      /\ Last(asked) = Start(asked) + Responses[asked].len
  BY <1>1, <1>2, SegmentFacts, ResponseFacts DEF Types, Last
<1>4. inOrder' <= Responses[asked].len
  <2>1. inOrder <= Responses[asked].len
    BY <1>1 DEF AskedInv
  <2> QED BY <1>2, <1>3, <2>1
<1>5. ASSUME Quiet' PROVE KeepsSlot' /\ KeepsUp'
  <2>1. Quiet /\ KeepsSlot /\ KeepsUp
    BY <1>1, <1>5, SightKeeps DEF AskedInv
  <2>2. Clean(asked)'
    BY <1>1, <2>1, CleanSight DEF KeepsSlot, Clean, WinIn
  <2>3. KeepsSlot'
    BY <1>1, <2>1, <2>2 DEF KeepsSlot, IsFirstPair
  <2>4. FlagWaits => FlagWaits'
    <3> SUFFICES ASSUME NEW i \in 1..Len(ring), Data(ring[i]), In(ring[i].seq, asked), ring[i].trunc
                 PROVE  FlagWaits'
      BY DEF FlagWaits
    <3>1. i \in 1..Len(ring') /\ ring'[i] = ring[i]
      BY <1>1
    <3> QED BY <1>1, <3>1 DEF FlagWaits
  <2>5. CASE ~Wanted(seg) /\ UNCHANGED <<win, ring>>
    <3>1. inOrder' = IF seg.seq = Start(asked) + inOrder THEN inOrder + seg.len ELSE inOrder
      BY <1>2, <2>5 DEF Wanted
    <3>2. ASSUME inOrder' > 0 PROVE inOrder > 0
      <4> SUFFICES ASSUME inOrder = 0 PROVE FALSE
        BY <1>3
      <4>1. seg.seq # Start(asked)
        BY <1>3, <2>5 DEF Wanted
      <4> QED BY <1>3, <3>1, <3>2, <4>1
    <3>3. win # Nothing /\ win.next = Start(asked) + inOrder => inOrder' = inOrder
      BY <2>5, <3>1 DEF Wanted
    <3> QED BY <1>1, <2>1, <2>3, <2>4, <2>5, <3>2, <3>3 DEF KeepsUp
  <2>6. CASE Wanted(seg) /\ FlagWaits'
    BY <2>3, <2>6 DEF KeepsUp
  <2>7. CASE Wanted(seg) /\ win' # Nothing /\ win'.next = seg.seq + seg.len
    <3>1. CASE IsFirst(seg)
      <4>1. win'.next = Start(asked') + inOrder'
        BY <1>1, <1>2, <1>3, <2>7, <3>1
      <4> QED BY <2>3, <2>7, <4>1 DEF KeepsUp
    <3>2. CASE ~IsFirst(seg)
      <4>1. win # Nothing /\ win.next = seg.seq /\ inOrder > 0
        BY <1>1, <1>2, <2>7, <3>2, Continues
      <4>2. CASE win.next = Start(asked) + inOrder
        <5>1. win'.next = Start(asked') + inOrder'
          BY <1>1, <1>2, <1>3, <2>7, <3>2, <4>1, <4>2
        <5> QED BY <2>3, <2>7, <5>1 DEF KeepsUp
      <4>3. CASE win.next # Start(asked) + inOrder
        BY <1>1, <2>1, <2>3, <2>4, <4>1, <4>3 DEF KeepsUp
      <4> QED BY <4>2, <4>3
    <3> QED BY <3>1, <3>2
  <2> QED BY <1>5, <2>5, <2>6, <2>7, SightKeeps
<1> QED
  BY <1>1, <1>4, <1>5 DEF AskedInv

LEMMA AskedRequest ==
    ASSUME Types, Order, Order', NEW k \in Msgs, SightRequest(k), AskedInv
    PROVE  AskedInv'
<1>1. /\ asked' = k /\ inOrder' = 0 /\ UNCHANGED <<win, seen, recent, slot>> /\ k \in Nat \ {0}
  BY MsgsAreNat DEF SightRequest, js
<1>2. Responses[k].len \in Nat
  BY ResponseFacts
<1>3. Clean(asked)'
  <2>1. \A i \in 1..Len(ring') : ~(Data(ring'[i]) /\ In(ring'[i].seq, k))
    BY <1>1 DEF Order, RingAsked, Of
  <2>2. ~WinIn(k)'
    <3> SUFFICES ASSUME win' # Nothing, Start(k) < win'.next PROVE FALSE
      BY DEF WinIn
    <3>1. PICK n \in 1..k : /\ Start(n) < win'.next /\ win'.next <= Last(n)
                            /\ n = k => inOrder' > 0
      BY <1>1 DEF Order, WinPlace
    <3>2. n \in Msgs /\ n \in Nat /\ n < k
      BY <1>1, <3>1, ResponsesAreFinite
    <3>3. Last(n) <= Start(k)
      BY <3>2, CaptureAssumption DEF Last
    <3>4. win'.next \in Nat /\ Last(n) \in Nat /\ Start(k) \in Nat
      BY <1>1, <3>2, ResponseFacts DEF Types, Windows
    <3> QED BY <3>1, <3>3, <3>4
  <2> QED BY <1>1, <2>1, <2>2 DEF Clean
<1>4. \A i \in 1..Len(recent') : recent'[i].msg # k
  BY <1>1 DEF Order, PairsAsked
<1> QED
  BY <1>1, <1>2, <1>3, <1>4 DEF AskedInv, KeepsSlot, KeepsUp

\* A first record that was not taken yet has no pair, while nothing ended the capture.
LEMMA NewIsFirst ==
    ASSUME Types, Order, Consume, asked > 0, KeepsSlot, NEW m \in Msgs,
           Key(ring[1]) \notin seen, Data(ring[1]), ring[1].seq = Start(m)
    PROVE  \A i \in 1..Len(recent) : recent[i].msg # asked
<1> SUFFICES ASSUME NEW i \in 1..Len(recent), recent[i].msg = asked PROVE FALSE
  OBVIOUS
<1>1. SeqKey(Start(asked)) \in seen
  BY DEF KeepsSlot
<1>2. asked \in Msgs /\ 1 \in 1..Len(ring) /\ Key(ring[1]) = SeqKey(Start(m))
  BY AskedIs, ReadRing DEF Key, SeqKey, Data
<1>3. In(Start(m), m) /\ In(Start(asked), asked) /\ Start(asked) \in Nat
  BY <1>2, ResponseFacts
<1>4. asked <= m /\ m <= asked
  BY <1>1, <1>2, <1>3 DEF Order, SeenOrder, RingAsked, Of
<1>5. asked = m
  BY <1>2, <1>4, MsgsAreNat
<1> QED
  BY <1>1, <1>2, <1>5

LEMMA KeepsSlotRead ==
    ASSUME Types, Order, SlotInv, Consume, asked > 0, Quiet, Quiet', KeepsSlot
    PROVE  KeepsSlot'
<1>1. /\ asked' = asked /\ asked \in Msgs /\ seen \subseteq seen' /\ Key(ring[1]) \in seen'
  BY AskedIs, ReadRing
<1>2. Clean(asked)'
  BY <1>1, CleanConsume DEF KeepsSlot, Clean, WinIn
<1>3. /\ Len(recent') \in Nat /\ Len(recent) \in Nat /\ Len(recent) <= Len(recent')
      /\ \A i \in 1..Len(recent) : /\ recent'[i].msg = recent[i].msg
                                   /\ (recent'[i] = recent[i] \/ i = slot)
      /\ \A i \in 1..Len(recent') : i > Len(recent) =>
            /\ i = Len(recent) + 1
            /\ \E m \in Msgs, e \in Pairs : ReadPaired(m, e) /\ recent'[i] = e
  BY RecentRead
<1>4. SUFFICES ASSUME NEW i \in 1..Len(recent'), recent'[i].msg = asked
               PROVE  /\ SeqKey(Start(asked)) \in seen' /\ IsFirstPair(i)'
                      /\ i = slot' \/ Done(recent'[i])
  BY <1>1, <1>2 DEF KeepsSlot, Done, Taken
<1>5. CASE i > Len(recent)
  <2>1. PICK m \in Msgs, e \in Pairs : ReadPaired(m, e) /\ recent'[i] = e
    BY <1>3, <1>5
  <2>2. m = asked /\ slot' = i /\ Key(ring[1]) = SeqKey(Start(asked))
    BY <1>3, <1>4, <1>5, <2>1 DEF ReadPaired, Key, SeqKey, Data
  <2>3. \A j \in 1..Len(recent) : recent[j].msg # asked
    BY <2>1, NewIsFirst DEF ReadPaired
  <2>4. \A j \in 1..(i - 1) : j \in 1..Len(recent)
    BY <1>3, <1>5
  <2> QED BY <1>1, <1>3, <1>4, <2>2, <2>3, <2>4 DEF IsFirstPair
<1>6. CASE i <= Len(recent)
  <2>1. i \in 1..Len(recent) /\ recent[i].msg = asked
    BY <1>3, <1>4, <1>6
  <2>2. SeqKey(Start(asked)) \in seen /\ IsFirstPair(i) /\ (i = slot \/ Done(recent[i]))
    BY <2>1 DEF KeepsSlot
  <2>3. IsFirstPair(i)'
    <3>1. \A j \in 1..(i - 1) : j \in 1..Len(recent)
      BY <1>3, <2>1
    <3> QED BY <1>3, <2>1, <2>2, <3>1 DEF IsFirstPair
  <2>4. ASSUME NEW m \in Msgs PROVE ~ReadUnpaired(m) /\ \A e \in Pairs : ~ReadPaired(m, e)
    <3>1. ~(Key(ring[1]) \notin seen /\ Data(ring[1]) /\ ring[1].seq = Start(m))
      BY <2>1, NewIsFirst
    <3> QED BY <3>1 DEF ReadUnpaired, ReadPaired
  <2>5. CASE UNCHANGED <<recent, slot>>
    BY <1>1, <2>2, <2>3, <2>5
  <2>6. ASSUME NEW e \in Pairs, ReadStitched(e) PROVE i = slot' \/ Done(recent'[i])
    <3>1. CASE i # slot
      <4>1. recent'[i] = recent[i] /\ Done(recent[i])
        BY <1>3, <2>1, <2>2, <3>1
      <4> QED BY <4>1
    <3>2. CASE i = slot
      <4>1. /\ recent'[i] = e /\ Taken(e) \in Nat
        BY <2>6, <3>2, StitchedTo
      <4>2. /\ slot' = IF ring[1].trunc \/ Full(e) THEN 0 ELSE slot
            /\ e.trunc = (recent[slot].trunc \/ ring[1].trunc)
            /\ Full(e) /\ Taken(e) < Responses[e.msg].len => <<e.msg, "room">> \in cuts'
        BY <2>6 DEF ReadStitched
      <4>3. e.msg = asked /\ <<asked, "room">> \notin cuts' /\ Responses[asked].len \in Nat
        BY <1>1, <1>4, <4>1, QuietIs, ResponseFacts
      <4>4. CASE ring[1].trunc
        BY <4>1, <4>2, <4>4 DEF Done
      <4>5. CASE Full(e)
        BY <4>1, <4>2, <4>3, <4>5 DEF Done
      <4>6. CASE ~ring[1].trunc /\ ~Full(e)
        BY <3>2, <4>2, <4>6
      <4> QED BY <4>4, <4>5, <4>6
    <3> QED BY <3>1, <3>2
  <2> QED BY <1>1, <2>2, <2>3, <2>4, <2>5, <2>6, ConsumeReads DEF ReadAgain, ReadRequest, ReadLoose
<1> QED
  BY <1>3, <1>5, <1>6

LEMMA KeepsUpRead ==
    ASSUME Types, Order, SlotInv, Consume, asked > 0, Quiet, Quiet', KeepsSlot, KeepsUp, inOrder > 0
    PROVE  KeepsUp'
<1>1. /\ asked' = asked /\ asked \in Msgs /\ inOrder' = inOrder /\ win' = win
      /\ seen \subseteq seen' /\ Key(ring[1]) \in seen' /\ Key(ring[1]) \in {Key(ring[1])}
      /\ ring[1] \in Kept /\ Len(ring) \in Nat \ {0} /\ Len(ring') = Len(ring) - 1
      /\ \A i \in 1..Len(ring') : ring'[i] = ring[i + 1]
      /\ 1 \in 1..Len(ring)
  BY AskedIs, ReadRing, ConsumeReads
<1>2. CASE win # Nothing /\ win.next = Start(asked) + inOrder
  BY <1>1, <1>2 DEF KeepsUp
\* A pair of what is asked is done if the mark came, and else was done already.
<1> DEFINE Marked == Data(ring[1]) /\ In(ring[1].seq, asked) /\ ring[1].trunc
           AllDone == \A i \in 1..Len(recent) : recent[i].msg = asked => Done(recent[i])
<1>3. CASE FlagWaits /\ ~Marked
  <2>1. PICK i \in 1..Len(ring) : Data(ring[i]) /\ In(ring[i].seq, asked) /\ ring[i].trunc
    BY <1>3 DEF FlagWaits
  <2>2. i - 1 \in 1..Len(ring') /\ ring'[i - 1] = ring[i]
    BY <1>1, <1>3, <2>1
  <2>3. FlagWaits'
    BY <1>1, <2>1, <2>2 DEF FlagWaits
  <2> QED BY <2>3 DEF KeepsUp
<1>4. CASE Marked \/ (SeqKey(Start(asked)) \in seen /\ AllDone)
  <2>1. Data(ring[1]) /\ ring[1].trunc => ~ReadAgain
    BY <1>1, QuietIs DEF ReadAgain
  <2>2. SeqKey(Start(asked)) \in seen'
    <3>1. CASE Marked
      <4>1. SeqKey(Start(asked)) \in seen \/ Started(ring, asked, 1)
        BY <1>1, <3>1 DEF KeepsSlot, Clean
      <4>2. ASSUME Started(ring, asked, 1) PROVE Key(ring[1]) = SeqKey(Start(asked))
        BY <4>2 DEF Started, Key, SeqKey, Data
      <4> QED BY <1>1, <4>1, <4>2
    <3>2. CASE SeqKey(Start(asked)) \in seen
      BY <1>1, <3>2
    <3> QED BY <1>4, <3>1, <3>2
  <2>3. ASSUME NEW i \in 1..Len(recent'), recent'[i].msg = asked PROVE Done(recent'[i])
    <3>1. CASE ReadAgain \/ ReadRequest \/ ReadLoose
      <4>1. /\ recent' = recent
        BY <3>1 DEF ReadAgain, ReadRequest, ReadLoose
      <4>2. CASE AllDone
        BY <2>3, <4>1, <4>2
      <4>3. CASE Marked
        <5>1. ReadLoose
          BY <2>1, <3>1, <4>3 DEF ReadRequest
        <5>2. slot = 0 /\ i # 0
          BY <5>1, <4>1 DEF ReadLoose
        <5>3. i \in 1..Len(recent) /\ recent[i].msg = asked
          BY <2>3, <4>1
        <5> QED BY <4>1, <5>2, <5>3 DEF KeepsSlot
      <4> QED BY <1>4, <4>2, <4>3
    <3>2. ASSUME NEW m \in Msgs, ReadUnpaired(m) PROVE Done(recent'[i])
      <4>1. recent' = recent /\ i \in 1..Len(recent) /\ recent[i].msg = asked
        BY <2>3, <3>2 DEF ReadUnpaired
      <4>2. FALSE
        BY <3>2, <4>1, NewIsFirst DEF ReadUnpaired
      <4> QED BY <4>2
    <3>3. ASSUME NEW m \in Msgs, NEW e \in Pairs, ReadPaired(m, e) PROVE Done(recent'[i])
      <4>1. recent \in Seq(Pairs) /\ Len(recent) \in Nat
        BY DEF Types
      <4>2. /\ Len(recent') = Len(recent) + 1 /\ recent'[Len(recent) + 1] = e
            /\ \A j \in 1..Len(recent) : recent'[j] = recent[j]
        BY <3>3, <4>1 DEF ReadPaired
      <4>3. \A j \in 1..Len(recent) : recent[j].msg # asked
        BY <3>3, NewIsFirst DEF ReadPaired
      <4>4. i = Len(recent) + 1 /\ recent'[i] = e /\ m = asked
        <5>1. i \in 1..Len(recent) \/ i = Len(recent) + 1
          BY <4>1, <4>2
        <5> QED BY <2>3, <3>3, <4>2, <4>3, <5>1 DEF ReadPaired
      <4>5. Key(ring[1]) = SeqKey(Start(asked)) /\ Key(ring[1]) \notin seen
        BY <3>3, <4>4 DEF ReadPaired, Key, SeqKey, Data
      <4>6. Marked
        BY <1>4, <4>5
      <4> QED BY <3>3, <4>4, <4>6 DEF Done, ReadPaired
    <3>4. ASSUME NEW e \in Pairs, ReadStitched(e) PROVE Done(recent'[i])
      <4>1. /\ slot \in 1..Len(recent) /\ recent'[slot] = e /\ Len(recent') = Len(recent)
            /\ \A j \in 1..Len(recent) : j # slot => recent'[j] = recent[j]
            /\ Taken(recent[slot]) \in Nat /\ Taken(e) \in Nat /\ Taken(recent[slot]) <= Taken(e)
        BY <3>4, StitchedTo
      <4>2. e.trunc = (recent[slot].trunc \/ ring[1].trunc) /\ e.msg = recent[slot].msg
        BY <3>4 DEF ReadStitched
      <4>3. i \in 1..Len(recent) /\ recent[i].msg = asked
        BY <2>3, <4>1, <4>2
      <4>4. CASE i # slot
        <5>1. recent'[i] = recent[i] /\ Done(recent[i])
          BY <4>1, <4>3, <4>4 DEF KeepsSlot
        <5> QED BY <5>1
      <4>5. CASE i = slot /\ Marked
        BY <4>1, <4>2, <4>5 DEF Done
      <4>6. CASE i = slot /\ AllDone
        <5>1. Done(recent[slot])
          BY <4>3, <4>6
        <5>2. Responses[asked].len \in Nat
          BY <1>1, ResponseFacts
        <5>3. recent'[i] = e /\ e.msg = asked /\ recent[slot].msg = asked
          BY <4>1, <4>2, <4>3, <4>6
        <5>4. recent[slot].trunc \/ Taken(recent[slot]) >= Responses[asked].len
          BY <5>1, <5>3 DEF Done
        <5>5. e.trunc \/ Taken(e) >= Responses[asked].len
          <6>1. CASE recent[slot].trunc
            BY <4>2, <6>1
          <6>2. CASE Taken(recent[slot]) >= Responses[asked].len
            <7>1. Taken(e) >= Responses[asked].len
              BY <4>1, <5>2, <6>2
            <7> QED BY <7>1
          <6> QED BY <5>4, <6>1, <6>2
        <5> QED BY <5>3, <5>5 DEF Done
      <4> QED BY <1>4, <4>4, <4>5, <4>6
    <3> QED BY <3>1, <3>2, <3>3, <3>4, ConsumeReads
  <2>4. \A i \in 1..Len(recent') : recent'[i].msg = asked => Done(recent[i])'
    BY <2>3 DEF Done, Taken
  <2> QED BY <1>1, <2>2, <2>4 DEF KeepsUp
<1> QED
  BY <1>2, <1>3, <1>4 DEF KeepsUp

LEMMA AskedHolds == Spec => []AskedInv
<1>1. Init => AskedInv
  BY DEF Init, AskedInv
<1>2. Types /\ Order /\ SlotInv /\ Types' /\ Order' /\ AskedInv /\ [Next]_vars => AskedInv'
  <2> SUFFICES ASSUME Types, Order, SlotInv, Types', Order', AskedInv, [Next]_vars PROVE AskedInv'
    OBVIOUS
  <2>1. ASSUME NEW seg \in Segments, Sight(seg) PROVE AskedInv'
    BY <2>1, AskedSight
  <2>2. ASSUME NEW k \in Msgs, SightRequest(k) PROVE AskedInv'
    BY <2>2, AskedRequest
  <2>3. CASE WindowEvicted
    <3>1. asked' = asked /\ inOrder' = inOrder /\ <<asked, "evicted">> \in cuts'
      BY <2>3 DEF WindowEvicted
    <3>2. ~Quiet'
      BY <3>1, QuietIs
    <3> QED BY <3>1, <3>2 DEF AskedInv
  <2>4. CASE Consume
    <3>1. asked' = asked /\ inOrder' = inOrder /\ cuts \subseteq cuts'
      BY <2>4, ConsumeReads
    <3>2. Quiet' => Quiet
      BY <3>1, QuietIs
    <3>3. KeepsUp' \/ inOrder > 0
      BY <3>1 DEF KeepsUp, Types
    <3>4. asked > 0 /\ Quiet' => KeepsSlot' /\ KeepsUp'
      BY <2>4, <3>2, <3>3, KeepsSlotRead, KeepsUpRead DEF AskedInv
    <3> QED BY <3>1, <3>4 DEF AskedInv
  <2>5. ASSUME NEW n \in 1..Len(recent), Drain(n) PROVE AskedInv'
    <3>1. /\ UNCHANGED <<win, ring, seen, pending, slot, asked, inOrder, cuts>>
          /\ Len(recent') = Len(recent) /\ Len(recent) \in Nat
          /\ \A i \in 1..Len(recent) :
                 /\ recent'[i].msg = recent[i].msg
                 /\ recent'[i].got = recent[i].got /\ recent'[i].trunc = recent[i].trunc
      BY <2>5, DrainKeeps
    <3>2. \A i \in 1..Len(recent) : /\ IsFirstPair(i) => IsFirstPair(i)'
                                    /\ Done(recent[i])' <=> Done(recent[i])
      <4>1. \A i \in 1..Len(recent) : \A j \in 1..(i - 1) : j \in 1..Len(recent)
        BY <3>1
      <4> QED BY <3>1, <4>1 DEF IsFirstPair, Done, Taken
    <3>3. (Quiet' <=> Quiet) /\ (Clean(asked)' <=> Clean(asked)) /\ (FlagWaits' <=> FlagWaits)
      BY <3>1 DEF Quiet, Whys, Clean, WinIn, FlagWaits
    <3>4. KeepsSlot => KeepsSlot'
      BY <3>1, <3>2, <3>3 DEF KeepsSlot
    <3>5. KeepsUp => KeepsUp'
      BY <3>1, <3>2, <3>3 DEF KeepsUp
    <3> QED BY <3>1, <3>3, <3>4, <3>5 DEF AskedInv
  <2>6. CASE Lapse
    <3>1. asked' = asked /\ inOrder' = inOrder /\ <<asked, "age">> \in cuts'
      BY <2>6, LapseForgets
    <3>2. ~Quiet'
      BY <3>1, QuietIs
    <3> QED BY <3>1, <3>2 DEF AskedInv
  <2>7. CASE UNCHANGED vars
    BY <2>7 DEF vars, kernel, js, past, AskedInv, KeepsSlot, KeepsUp, Quiet, Whys, Clean, WinIn,
                FlagWaits, Done, Taken, IsFirstPair
  <2> QED BY <2>1, <2>2, <2>3, <2>4, <2>5, <2>6, <2>7 DEF Next
<1> QED
  BY <1>1, <1>2, TypesHold, OrderHolds, SlotHolds, PTL DEF Spec

\* The window survives double sightings: of the response that was asked for last, as much as
\* was sighted in order is taken, or the pair is marked as cut, unless the capture stopped
\* for one of the reasons that leave no mark.
THEOREM SightedIsTaken ==
    ASSUME SegmentsAgree
    PROVE  Spec => []AllTakenOrMarked
<1>1. Types /\ Order /\ SlotInv /\ Stitching /\ PairInv /\ AskedInv => AllTakenOrMarked
  <2> SUFFICES ASSUME Types, Order, SlotInv, Stitching, PairInv, AskedInv,
                      ring = <<>>, NEW i \in 1..Len(recent), recent[i].msg = asked,
                      Whys(recent[i].msg) = {}, ~recent[i].trunc
               PROVE  Taken(recent[i]) >= inOrder
    BY DEF AllTakenOrMarked, InHand
  <2> DEFINE T == Taken(recent[i])
  <2>1. /\ asked \in Msgs /\ asked > 0 /\ T \in Nat /\ inOrder \in Nat /\ inOrder > 0
        /\ Start(asked) \in Nat /\ Responses[asked].len \in Nat
    <3>1. recent[i].msg \in Msgs /\ T \in Nat
      BY PairFacts
    <3> QED BY <3>1, MsgsAreNat, ResponseFacts DEF Order, PairsAsked, Types
  <2>2. KeepsSlot /\ KeepsUp /\ Quiet /\ inOrder <= Responses[asked].len
    BY <2>1 DEF AskedInv, Quiet
  <2>3. CASE Done(recent[i])
    BY <2>1, <2>2, <2>3 DEF Done
  <2>4. CASE ~Done(recent[i])
    <3>1. i = slot /\ IsFirstPair(slot)
      BY <2>2, <2>4 DEF KeepsSlot
    <3>2. Len(ring) = 0 /\ ~FlagWaits
      BY DEF FlagWaits
    <3>3. win # Nothing /\ win.next = Start(asked) + inOrder
      BY <2>1, <2>2, <2>4, <3>2 DEF KeepsUp
    <3>4. OnSlot(asked) /\ Live(asked)
      <4>1. slot # 0 /\ Current(recent[slot])
        BY <2>2, <3>1, QuietIs DEF Current
      <4> QED BY <3>1, <4>1 DEF OnSlot, Live
    <3>5. LiveAt(asked)
      BY <2>1, <3>4 DEF Stitching, StitchingAt
    <3>6. WinIn(asked)
      BY <2>1, <3>3 DEF WinIn
    <3>7. PICK x \in Nat : win.next <= x /\ Reached(ring, asked, OnSlot(asked), Pos(asked), Len(ring), x)
      BY <3>5, <3>6 DEF LiveAt
    <3>8. x = Pos(asked)
      BY <3>2, <3>7 DEF Reached
    <3>9. Pos(asked) = recent[i].got[T] + 1 /\ T \in 1..T
      BY <2>1, <3>1, <3>4, SlotFacts DEF Pos
    <3>10. recent[i].got[T] = Start(asked) + T - 1
      <4>1. Shown(i) = T
        BY <3>1, <3>4 DEF Shown, OnSlot
      <4> QED BY <3>1, <3>9, <4>1 DEF PairInv, PairAt, Whole
    <3> QED BY <2>1, <3>3, <3>7, <3>8, <3>9, <3>10
  <2> QED BY <2>3, <2>4
<1> QED
  BY <1>1, TypesHold, OrderHolds, SlotHolds, StitchingHolds, PairHolds, AskedHolds, PTL
=============================================================================
