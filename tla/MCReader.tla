------------------------------ MODULE MCReader ------------------------------
(***************************************************************************)
(* Reader on a small stream.                                               *)
(***************************************************************************)
EXTENDS Reader, MCDecoder

(* Two searches: one that ends at a log event safely past its range,       *)
(* unless somebody else takes that one, and one that skips log events, and *)
(* with them their deltas if it fails before the next match.               *)
UpToFour == NewQuery(0, 4, {}, <<>>, 1)
SecondMessage == NewQuery(0, 9, {{m2}}, <<>>, 0)
TwoSearches == {UpToFour, SecondMessage}

=============================================================================
