------------------------------ MODULE MCCapture ------------------------------
(* An instance of Capture: three responses on one connection.  The first fits its *)
(* budget, and its head, cut after two positions of three, gives its length short  *)
(* of a digit.  The second has no Content-Length, a head of two records, and a     *)
(* continuation of more records than a segment may have.  The third says           *)
(* `Content-Length: 0' early in a head longer than any that is kept.               *)
EXTENDS Capture

ThreeResponses ==
    <<[start |-> 0, len |-> 6, head |-> 3, says |-> <<Nothing, 1, 3>>, extra |-> 3],
      [start |-> 6, len |-> 10, head |-> 3, says |-> <<Nothing, Nothing, Nothing>>, extra |-> 6],
      [start |-> 16, len |-> 6, head |-> 6, says |-> <<Nothing, 0, 0, 0, 0, 0>>, extra |-> 4]>>
AsSent == {[seq |-> 0, len |-> 3], [seq |-> 3, len |-> 2], [seq |-> 5, len |-> 1],
           [seq |-> 6, len |-> 4], [seq |-> 10, len |-> 5], [seq |-> 15, len |-> 1],
           [seq |-> 16, len |-> 4], [seq |-> 20, len |-> 2]}
\* Two sightings need not agree on the segments (offloads, other interfaces, a
\* retransmission): the first one also comes in two.
SentInTwoWays == AsSent \cup {[seq |-> 0, len |-> 1], [seq |-> 1, len |-> 2]}
=============================================================================
