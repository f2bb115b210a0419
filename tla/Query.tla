-------------------------------- MODULE Query --------------------------------
(***************************************************************************)
(* Search queries (Query.{hpp,cpp}): a time range, a search termination    *)
(* timestamp, wildcard queries on the message and queries on attributes.   *)
(*                                                                         *)
(* A wildcard query is the set of the messages it matches                  *)
(* (wildcard_match_unsafe is not part of the repository), and a table of   *)
(* attributes is a function from attribute names to values.                *)
(***************************************************************************)
EXTENDS Integers

CONSTANT MaxTs   \* Query::cTimestampMax, the largest epoch_time_ms_t

ASSUME MaxTsAssumption == MaxTs \in Nat

Timestamps == 0 .. MaxTs

(* The sum or difference of two integers of the width of epoch_time_ms_t.  *)
(* Overflow of a signed integer wraps in the builds of this project; MaxTs *)
(* is the largest integer of the type.                                     *)
MinTs == -MaxTs - 1
Wrapped(n) == IF n > MaxTs THEN n - 2 * (MaxTs + 1)
              ELSE IF n < MinTs THEN n + 2 * (MaxTs + 1)
              ELSE n

(* The largest timestamp still worth searching: upper plus the margin,     *)
(* saturating at MaxTs.                                                    *)
TerminateAtUpper(upper, margin) == upper  \* mutant: the margin is ignored
TerminateWrapped(upper, margin) ==        \* mutant: the sum may overflow
  Wrapped(upper + margin)
TerminationTs(upper, margin) ==
  IF Wrapped(MaxTs - margin) > upper THEN Wrapped(upper + margin) ELSE MaxTs

(* get_search_time_termination_margin: the margin is not kept.             *)
TerminationMargin(q) == Wrapped(q.termination - q.upper)

(* throw_if_ts_range_invalid: the constructor rejects an empty range.      *)
RangeUnchecked(lower, upper) == TRUE  \* mutant
ValidRange(lower, upper) == lower <= upper

NewQuery(lower, upper, wildcards, attributes, margin) ==
  [lower |-> lower, upper |-> upper,
   termination |-> TerminationTs(upper, margin),
   wildcards |-> wildcards, attributes |-> attributes]

MatchesTimeRange(q, ts) == q.lower <= ts /\ ts <= q.upper

TsSafelyOutside(q, ts) == q.termination < ts

MatchesWildcards(q, message) ==
  q.wildcards = {} \/ \E w \in q.wildcards : message \in w

(* What matching the queried attributes against a table can answer.  The   *)
(* queried names are visited in the order of a hash map, so when one name  *)
(* is unknown and another has a different value either may be met first.   *)
AttributeAnswers(q, table) ==
  LET Names   == DOMAIN q.attributes
      Unknown == {n \in Names : n \notin DOMAIN table}
      Differs == {n \in Names \ Unknown : q.attributes[n] # table[n]}
  IN  {a \in {"match", "mismatch", "unknown_name"} :
         CASE a = "unknown_name" -> Unknown # {}
           [] a = "mismatch"     -> Differs # {}
           [] OTHER              -> Unknown = {} /\ Differs = {}}

(* What matching a log event can answer: the three tests in their order,   *)
(* each made only if the ones before it succeed.                           *)
Answers(q, ts, event) ==
  IF MatchesTimeRange(q, ts) /\ MatchesWildcards(q, event.message)
  THEN AttributeAnswers(q, event.attributes)
  ELSE {"mismatch"}

Matches(q, ts, event) == "match" \in Answers(q, ts, event)

=============================================================================
