------------------------------ MODULE PyQuery ------------------------------
(***************************************************************************)
(* Query objects in Python: construction (PyQuery.cpp), QueryBuilder       *)
(* (query_builder.py), pickling, and matching a log event.                 *)
(*                                                                         *)
(* Timestamps have the width of epoch_time_ms_t (Wrapped in Query), and    *)
(* Python's integers do not.  Cleaning a wildcard string keeps what it     *)
(* matches, which is all a wildcard query is here.                         *)
(***************************************************************************)
EXTENDS Query

CONSTANTS
  Wildcards,     \* wildcard queries: sets of messages
  AttrNames, AttrValues,
  PyInts,        \* Python integers given to a QueryBuilder
  Calls,         \* the arguments of Query(...) called from Python
  DefaultMargin, \* Query::cDefaultSearchTimeTerminationMargin
  LogEvents,     \* log events to match
  None, NoQuery

Int64 == MinTs .. MaxTs
NoAttributes == [n \in {} |-> None]
AttrTables == UNION { [names -> AttrValues] : names \in SUBSET AttrNames }

(* The settings of a QueryBuilder.                                         *)
Settings ==
  [lower : PyInts, upper : PyInts, margin : PyInts,
   wildcards : SUBSET Wildcards, attributes : AttrTables]

(* The fields of a Query object.                                           *)
QueryObjects ==
  [lower : Int64, upper : Int64, termination : Int64,
   wildcards : SUBSET Wildcards, attributes : AttrTables]

ASSUME PyQueryAssumption ==
  /\ PyInts \subseteq Int /\ 0 \in PyInts /\ MaxTs \in PyInts
  /\ DefaultMargin \in PyInts \intersect Int64
  /\ \A data \in (SUBSET Wildcards) \union AttrTables : None # data
  /\ Calls \subseteq [lower : Int, upper : Int, margin : Int,
                      wildcards : (SUBSET Wildcards) \union {None},
                      attributes : AttrTables \union {None}]
  /\ NoQuery \notin QueryObjects

VARIABLES
  builder,  \* the settings of a QueryBuilder
  query,    \* a place for a Query object
  built,    \* history: the same object as it was constructed
  answer,   \* what the last call returned or raised
  running   \* the interpreter runs

vars == <<builder, query, built, answer, running>>

-----------------------------------------------------------------------------
(* Conversions.                                                            *)

(* Empty lists of wildcard queries and tables of attributes are None in    *)
(* Python, and None is read back as empty.                                 *)
Serialized(empty, data) == IF data = empty THEN None ELSE data
Deserialized(empty, object) == IF object = None THEN empty ELSE object

(* An integer is parsed into epoch_time_ms_t, or raises OverflowError.     *)
Parses(args) ==
  args.lower \in Int64 /\ args.upper \in Int64 /\ args.margin \in Int64

QueryOf(args) ==
  NewQuery(args.lower, args.upper, Deserialized({}, args.wildcards),
           Deserialized(NoAttributes, args.attributes), args.margin)

(* mutant: the margin that was given is taken to be the default one        *)
StateWithDefaultMargin(q) ==
  [lower |-> q.lower, upper |-> q.upper, margin |-> DefaultMargin,
   wildcards |-> Serialized({}, q.wildcards),
   attributes |-> Serialized(NoAttributes, q.attributes)]

(* __getstate__                                                            *)
StateOf(q) ==
  [lower |-> q.lower, upper |-> q.upper, margin |-> TerminationMargin(q),
   wildcards |-> Serialized({}, q.wildcards),
   attributes |-> Serialized(NoAttributes, q.attributes)]

-----------------------------------------------------------------------------
(* Query objects.                                                          *)

(* __init__: integers are parsed, then the range is checked.               *)
Construct(args) ==
  \/ /\ ~Parses(args)
     /\ answer' = "OverflowError"
     /\ UNCHANGED <<query, built>>
  \/ /\ Parses(args)
     /\ ~ValidRange(args.lower, args.upper)
     /\ answer' = "RuntimeError"
     /\ UNCHANGED <<query, built>>
  \/ /\ Parses(args)
     /\ ValidRange(args.lower, args.upper)
     /\ query' = QueryOf(args) /\ built' = query'
     /\ answer' = "query"

(* Query(...) from Python.                                                 *)
NewPyQuery ==
  /\ running /\ query = NoQuery
  /\ \E args \in Calls : Construct(args)
  /\ UNCHANGED <<builder, running>>

(* pickle.loads(pickle.dumps(query)) replaces the query by its copy, or by *)
(* none if __setstate__ raises.                                            *)
Pickle ==
  /\ running /\ query # NoQuery
  /\ LET state == StateOf(query)
     IN  query' = IF Parses(state) /\ ValidRange(state.lower, state.upper)
                  THEN QueryOf(state) ELSE NoQuery
  /\ UNCHANGED <<builder, built, answer, running>>

(* The last reference to the query is dropped.                             *)
Dealloc ==
  /\ running /\ query # NoQuery
  /\ query' = NoQuery /\ built' = NoQuery
  /\ UNCHANGED <<builder, answer, running>>

(* Query.match_log_event: the exception of an unknown attribute name is    *)
(* caught and raised in Python.                                            *)
MatchLogEvent ==
  /\ running /\ query # NoQuery
  /\ \E e \in LogEvents : answer' \in Answers(query, e.timestamp, e)
  /\ UNCHANGED <<builder, query, built, running>>

(* LogEvent.match_query: nothing catches it, and it leaves a C function.   *)
MatchQuery ==
  /\ running /\ query # NoQuery
  /\ \E e \in LogEvents : answer' \in Answers(query, e.timestamp, e)
  /\ running' = (answer' # "unknown_name")
  /\ UNCHANGED <<builder, query, built>>

-----------------------------------------------------------------------------
(* QueryBuilder.                                                           *)

Defaults ==
  [lower |-> 0, upper |-> MaxTs, margin |-> DefaultMargin,
   wildcards |-> {}, attributes |-> NoAttributes]

With(table, name, value) ==
  [n \in DOMAIN table \union {name} |->
     IF n = name THEN value ELSE table[n]]

SetTimes ==
  \E ts \in PyInts :
    \/ builder' = [builder EXCEPT !.lower = ts]
    \/ builder' = [builder EXCEPT !.upper = ts]
    \/ builder' = [builder EXCEPT !.margin = ts]

AddQueries ==
  \/ \E w \in Wildcards :
       builder' = [builder EXCEPT !.wildcards = @ \union {w}]
  \/ \E n \in AttrNames, v \in AttrValues :
       builder' = [builder EXCEPT !.attributes = With(@, n, v)]

(* reset, or one of the methods it calls.                                  *)
Reset ==
  \/ builder' = [builder EXCEPT !.lower = Defaults.lower]
  \/ builder' = [builder EXCEPT !.upper = Defaults.upper]
  \/ builder' = [builder EXCEPT !.margin = Defaults.margin]
  \/ builder' = [builder EXCEPT !.wildcards = {}]
  \/ builder' = [builder EXCEPT !.attributes = NoAttributes]
  \/ builder' = Defaults

Configure ==
  /\ running
  /\ SetTimes \/ AddQueries \/ Reset
  /\ UNCHANGED <<query, built, answer, running>>

(* build(): the range is checked before Query(...) checks it again.        *)
Build ==
  /\ running /\ query = NoQuery
  /\ \/ /\ builder.lower > builder.upper
        /\ answer' = "QueryBuilderException"
        /\ UNCHANGED <<query, built>>
     \/ /\ builder.lower <= builder.upper
        /\ Construct([builder EXCEPT
             !.wildcards = Serialized({}, @),
             !.attributes = Serialized(NoAttributes, @)])
  /\ UNCHANGED <<builder, running>>

-----------------------------------------------------------------------------

Init ==
  /\ builder = Defaults
  /\ query = NoQuery /\ built = NoQuery
  /\ answer = "none"
  /\ running = TRUE

Next ==
  \/ NewPyQuery \/ Pickle \/ Dealloc
  \/ MatchLogEvent \/ MatchQuery
  \/ Configure \/ Build

Spec == Init /\ [][Next]_vars

-----------------------------------------------------------------------------
(* Properties.                                                             *)

(* Every variable has its type, and the time range of a query is not       *)
(* empty, whether it was constructed, built or unpickled.                  *)
TypeOK ==
  /\ builder \in Settings
  /\ {query, built} \subseteq QueryObjects \union {NoQuery}
  /\ query # NoQuery => query.lower <= query.upper
  /\ running \in BOOLEAN

(* A query that was pickled, any number of times, is the query it was:     *)
(* unpickling succeeds, and the termination timestamp is the same though   *)
(* the margin is computed from it, saturated or overflowed.                *)
PickleKeepsQuery == query = built

(* A search is not terminated by a timestamp within its time range,        *)
(* whatever the margin: a negative one, or one that overflows, included.   *)
SearchOutlivesRange ==
  query # NoQuery =>
    \A ts \in Int64 : ts <= query.upper => ~TsSafelyOutside(query, ts)

(* Matching a log event returns True or False, or raises in Python.        *)
InterpreterRuns == running

=============================================================================
