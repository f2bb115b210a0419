--------------------------- MODULE LogEventStream ---------------------------
(***************************************************************************)
(* What decode_next_log_event promises, without buffers or bytes: a stream *)
(* of log events read from front to back.  A request without a query gets  *)
(* the next log event; a request with one gets the next log event that     *)
(* matches it, with its index in the stream and its own timestamp.  None   *)
(* is answered only when the request cannot be served now: no complete log *)
(* event is left to read, or no later one matches.                         *)
(***************************************************************************)
EXTENDS Integers, Sequences, Query

CONSTANTS
  Events,    \* the log events of the complete stream, in order
  Queries,
  NoQuery

VARIABLES
  published,  \* number of log events written to the stream completely
  next,       \* number of log events read, skipped ones included
  request,    \* the query of the request in progress, in a singleton
  answer      \* the last answer

streamVars == <<published, next, request, answer>>

(* Event k (counted from 0) is one the request asks for.                   *)
Wanted(query, k) ==
  query = NoQuery \/ Matches(query, Events[k + 1].ts, Events[k + 1])

SInit ==
  /\ published \in 0 .. Len(Events)
  /\ next = 0
  /\ request = {}
  /\ answer = [kind |-> "other", idx |-> 0, ts |-> 0]

Publish ==
  /\ published' \in published + 1 .. Len(Events)
  /\ UNCHANGED <<next, request, answer>>

Ask(query) ==
  /\ request = {}
  /\ request' = {query}
  /\ UNCHANGED <<published, next, answer>>

(* The next event is not one the request asks for.                         *)
Skip ==
  /\ next < published
  /\ \E query \in request : ~Wanted(query, next)
  /\ next' = next + 1

Give ==
  /\ next < published
  /\ \E query \in request : Wanted(query, next)
  /\ next' = next + 1
  /\ request' = {}
  /\ answer' = [kind |-> "event", idx |-> next, ts |-> Events[next + 1].ts]
  /\ UNCHANGED published

(* The request is answered None, perhaps after a last event it skips.      *)
End ==
  /\ request # {}
  /\ Skip \/ next' = next
  /\ \/ next = published
     \/ \A query \in request, k \in next .. Len(Events) - 1 :
          ~Wanted(query, k)
  /\ request' = {}
  /\ answer' = [kind |-> "none", idx |-> 0, ts |-> 0]
  /\ UNCHANGED published

(* A request fails, or anything but a request is answered.                 *)
Other ==
  /\ Skip \/ next' = next
  /\ request' = {}
  /\ answer' = [kind |-> "other", idx |-> 0, ts |-> 0]
  /\ UNCHANGED published

SNext ==
  \/ Publish
  \/ \E query \in Queries \cup {NoQuery} : Ask(query)
  \/ Skip /\ UNCHANGED <<published, request, answer>>
  \/ Give
  \/ End
  \/ Other

SSpec == SInit /\ [][SNext]_streamVars

=============================================================================
