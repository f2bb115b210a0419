----------------------------- MODULE MCLogEvent -----------------------------
(***************************************************************************)
(* LogEvent with few log events, objects and threads.                      *)
(***************************************************************************)
EXTENDS LogEvent, TLC

CONSTANTS utc, chicago, notzinfo  \* the last is not a time zone
CONSTANTS near, far               \* far is past what datetime can represent
CONSTANT c1

SmallZones == {utc, chicago, notzinfo}
SmallRepresentable == {near} \X {utc, chicago}

Source(timestamp, metadata, attributes) ==
  [content |-> c1, timestamp |-> timestamp, metadata |-> metadata,
   attributes |-> attributes]
Stream(android) == [zone |-> chicago, android |-> android]

(* Created in Python without metadata, decoded from an Android stream,     *)
(* decoded with a timestamp that cannot be formatted.                      *)
SmallSources ==
  { Source(near, None, "empty"), Source(near, Stream(TRUE), "whole"),
    Source(far, Stream(FALSE), "empty") }

(* Log events of Android streams, with timestamps that Python can format.  *)
AndroidSources ==
  { Source(near, Stream(TRUE), a) : a \in {"whole", "lacking"} }

Symmetry == Permutations(Threads) \union Permutations(Objects)

=============================================================================
