------------------------------ MODULE MCDecoder ------------------------------
(***************************************************************************)
(* Decoder on small streams.                                               *)
(***************************************************************************)
EXTENDS Decoder

CONSTANTS m1, m2      \* messages of log events
CONSTANTS a1, v1, v2  \* an attribute of log events and two values of it

(* The layout of the stream Units, computed unit by unit.                  *)
StartOf[i \in 1 .. Len(Units) + 1] ==
  IF i = 1 THEN 0 ELSE StartOf[i - 1] + Units[i - 1].len
IndexOf[i \in 1 .. Len(Units) + 1] ==
  IF i = 1 THEN 0
  ELSE IndexOf[i - 1] + (IF i - 1 \in EventUnits THEN 1 ELSE 0)
TimeOf[i \in 1 .. Len(Units) + 1] ==
  IF i = 1 THEN RefTs
  ELSE TimeOf[i - 1]
         + (IF i - 1 \in EventUnits THEN Units[i - 1].delta ELSE 0)

(* A build whose memcpy moves overlapping bytes as memmove would.          *)
ForwardCopies == {"forward"}

Unit(kind, len) ==
  [kind |-> kind, len |-> len, delta |-> 0, message |-> m1,
   attributes |-> <<>>]
Event(len, delta, message, value) ==
  [kind |-> "event", len |-> len, delta |-> delta, message |-> message,
   attributes |-> [a \in {a1} |-> value]]

(* A complete stream: two messages, events of different sizes, timestamps  *)
(* 1, 4, 3, 9: the third is logged before the second.                      *)
CompleteStream ==
  << Unit("magic4", 1), Unit("preamble", 2),
     Event(3, 0, m1, v1), Event(1, 3, m2, v1), Event(2, -1, m1, v2),
     Event(1, 6, m2, v2), Unit("eof", 1) >>

(* A complete stream in the order of time, with timestamps 2, 9, 10.       *)
OrderedStream ==
  << Unit("magic4", 1), Unit("preamble", 1),
     Event(2, 1, m1, v1), Event(1, 7, m1, v2), Event(1, 1, m2, v1),
     Unit("eof", 1) >>

(* A stream with a part in an encoding that is not supported, a preamble   *)
(* whose metadata is not valid, two preambles, and at the end a log event  *)
(* whose attributes are not those of the metadata.                         *)
DamagedStream ==
  << Unit("magic8", 1), Unit("magic4", 1), Unit("bad_preamble", 1),
     Unit("magic4", 1), Unit("preamble", 2), Event(2, 0, m1, v1),
     Unit("magic4", 1), Unit("preamble", 1), Event(1, 2, m2, v1),
     Unit("bad_attributes", 1) >>

(* Searches: by message up to a timestamp with a margin that covers the    *)
(* disorder, by attribute over all times, and for an attribute no event    *)
(* has together with one that may have another value.                      *)
SmallQueries ==
  { NewQuery(0, 3, {{m1}}, <<>>, 1),
    NewQuery(2, 9, {}, [a \in {a1} |-> v2], 2),
    NewQuery(0, 15, {{m2}}, [a \in {a1, m1} |-> v1], 2) }

(* A single search, for the runs whose interest is elsewhere.              *)
OneQuery == { NewQuery(2, 9, {{m2}}, [a \in {a1} |-> v1], 2) }

=============================================================================
