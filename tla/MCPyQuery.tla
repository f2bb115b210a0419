----------------------------- MODULE MCPyQuery -----------------------------
(***************************************************************************)
(* PyQuery with timestamps of three bits.                                  *)
(***************************************************************************)
EXTENDS PyQuery

CONSTANTS m1, m2       \* messages
CONSTANTS a1, v1, v2   \* an attribute and two values of it

(* For a builder: some values, and the least that is too large.            *)
SmallInts == {-1, 0, DefaultMargin, MaxTs, MaxTs + 1}

(* From Python: all bounds and margins of the type, and one too small.     *)
SmallCalls ==
  [lower : Int64, upper : Int64, margin : MinTs - 1 .. MaxTs,
   wildcards : {None}, attributes : {None}]

LogEvent(timestamp, message, attributes) ==
  [timestamp |-> timestamp, message |-> message, attributes |-> attributes]
Attribute(value) == [a \in {a1} |-> value]

(* From streams with the attribute, with two values of it.                 *)
SmallLogEvents ==
  { LogEvent(1, m1, Attribute(v1)), LogEvent(2, m1, Attribute(v2)) }

(* From a stream without attributes.                                       *)
PlainLogEvents == { LogEvent(1, m1, <<>>) }

=============================================================================
