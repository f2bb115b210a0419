--------------------------- MODULE PyQueryProofs ---------------------------
(***************************************************************************)
(* Proofs about PyQuery, for timestamps of any width and any arguments:    *)
(* pickling keeps a query, and no margin terminates a search too early.    *)
(***************************************************************************)
EXTENDS PyQuery, TLAPS

(* The termination timestamp of a query comes from a margin.               *)
HasMargin(q) ==
  \E margin \in Int64 : q.termination = TerminationTs(q.upper, margin)

(* The inductive invariant.                                                *)
IInv == /\ TypeOK
        /\ PickleKeepsQuery
        /\ query # NoQuery => HasMargin(query)

-----------------------------------------------------------------------------
(* The arithmetic of the termination timestamp.                            *)

(* It is an integer of the type, and not before the upper bound.           *)
LEMMA TerminationAfterUpper ==
  ASSUME NEW upper \in Int64, NEW margin \in Int64
  PROVE  /\ TerminationTs(upper, margin) \in Int64
         /\ upper <= TerminationTs(upper, margin)
BY MaxTsAssumption DEF TerminationTs, Wrapped, Int64, MinTs

(* The margin computed from it gives it back, though it may be another     *)
(* margin: by saturation, or by two overflows that cancel.                 *)
LEMMA MarginRoundTrip ==
  ASSUME NEW upper \in Int64, NEW margin \in Int64,
         NEW termination, termination = TerminationTs(upper, margin)
  PROVE  /\ Wrapped(termination - upper) \in Int64
         /\ TerminationTs(upper, Wrapped(termination - upper)) = termination
BY MaxTsAssumption DEF TerminationTs, Wrapped, Int64, MinTs

-----------------------------------------------------------------------------
(* Conversions.                                                            *)

(* What is serialized is read back.                                        *)
LEMMA SerializedReadBack ==
  ASSUME NEW empty, NEW data, data # None
  PROVE  Deserialized(empty, Serialized(empty, data)) = data
BY DEF Deserialized, Serialized

(* None is neither a set of wildcard queries nor a table of attributes.    *)
LEMMA DataNotNone ==
  /\ \A wildcards \in SUBSET Wildcards : wildcards # None
  /\ \A attributes \in AttrTables : attributes # None
BY PyQueryAssumption

(* The empty table of attributes is a table.                               *)
LEMMA NoAttributesType == NoAttributes \in AttrTables
BY DEF NoAttributes, AttrTables

(* Arguments that are data or None are deserialized to data.               *)
LEMMA DeserializedType ==
  /\ \A w \in (SUBSET Wildcards) \union {None} :
       Deserialized({}, w) \in SUBSET Wildcards
  /\ \A a \in AttrTables \union {None} :
       Deserialized(NoAttributes, a) \in AttrTables
BY NoAttributesType DEF Deserialized

-----------------------------------------------------------------------------
(* A query made from arguments that parse and have a range.                *)
LEMMA QueryOfType ==
  ASSUME NEW args, Parses(args), ValidRange(args.lower, args.upper),
         args.wildcards \in (SUBSET Wildcards) \union {None},
         args.attributes \in AttrTables \union {None}
  PROVE  /\ QueryOf(args) \in QueryObjects
         /\ QueryOf(args).lower <= QueryOf(args).upper
         /\ HasMargin(QueryOf(args))
<1>1. QueryOf(args) =
        [lower |-> args.lower, upper |-> args.upper,
         termination |-> TerminationTs(args.upper, args.margin),
         wildcards |-> Deserialized({}, args.wildcards),
         attributes |-> Deserialized(NoAttributes, args.attributes)]
  BY DEF QueryOf, NewQuery
<1>2. TerminationTs(args.upper, args.margin) \in Int64
  BY TerminationAfterUpper DEF Parses
<1>3. HasMargin(QueryOf(args))
  BY <1>1 DEF HasMargin, Parses
<1>. QED
  BY <1>1, <1>2, <1>3, DeserializedType DEF QueryObjects, Parses, ValidRange

(* The copy that pickling makes of a query is the query.                   *)
LEMMA PickleIsIdentity ==
  ASSUME NEW q \in QueryObjects, q.lower <= q.upper, HasMargin(q)
  PROVE  /\ Parses(StateOf(q))
         /\ ValidRange(StateOf(q).lower, StateOf(q).upper)
         /\ QueryOf(StateOf(q)) = q
<1>1. /\ q.lower \in Int64 /\ q.upper \in Int64
      /\ q.wildcards \in SUBSET Wildcards /\ q.attributes \in AttrTables
  BY DEF QueryObjects
<1>2. PICK margin \in Int64 : q.termination = TerminationTs(q.upper, margin)
  BY DEF HasMargin
<1>3. /\ TerminationMargin(q) \in Int64
      /\ TerminationTs(q.upper, TerminationMargin(q)) = q.termination
  BY <1>1, <1>2, MarginRoundTrip DEF TerminationMargin
<1>4. Parses(StateOf(q)) /\ ValidRange(StateOf(q).lower, StateOf(q).upper)
  BY <1>1, <1>3 DEF Parses, ValidRange, StateOf
<1>5. QueryOf(StateOf(q)) =
        [lower |-> q.lower, upper |-> q.upper,
         termination |-> q.termination,
         wildcards |-> q.wildcards, attributes |-> q.attributes]
  BY <1>1, <1>3, SerializedReadBack, DataNotNone
     DEF QueryOf, StateOf, NewQuery
<1>. QED
  BY <1>4, <1>5 DEF QueryObjects

(* Constructing a query leaves the place alone or fills it with one that   *)
(* keeps the invariant.                                                    *)
LEMMA ConstructStep ==
  ASSUME IInv, NEW args, Construct(args), UNCHANGED <<builder, running>>,
         args.wildcards \in (SUBSET Wildcards) \union {None},
         args.attributes \in AttrTables \union {None}
  PROVE  IInv'
<1>1. CASE UNCHANGED <<query, built>>
  BY <1>1 DEF IInv, TypeOK, PickleKeepsQuery
<1>2. CASE /\ Parses(args) /\ ValidRange(args.lower, args.upper)
           /\ query' = QueryOf(args) /\ built' = query'
  <2>1. /\ QueryOf(args) \in QueryObjects
        /\ QueryOf(args).lower <= QueryOf(args).upper
        /\ HasMargin(QueryOf(args))
    BY <1>2, QueryOfType
  <2>. QED
    BY <1>2, <2>1 DEF IInv, TypeOK, PickleKeepsQuery
<1>. QED
  BY <1>1, <1>2 DEF Construct

-----------------------------------------------------------------------------

(* Query(...) from Python constructs from typed arguments, or raises.      *)
LEMMA NewPyQueryStep == ASSUME IInv, NewPyQuery PROVE IInv'
<1>1. PICK args \in Calls : Construct(args)
  BY DEF NewPyQuery
<1>2. /\ args.wildcards \in (SUBSET Wildcards) \union {None}
      /\ args.attributes \in AttrTables \union {None}
  BY PyQueryAssumption
<1>. QED
  BY <1>1, <1>2, ConstructStep DEF NewPyQuery

(* Pickling replaces the query by itself.                                  *)
LEMMA PickleStep == ASSUME IInv, Pickle PROVE IInv'
<1>1. query \in QueryObjects /\ query.lower <= query.upper /\ HasMargin(query)
  BY DEF IInv, TypeOK, Pickle
<1>2. query' = query
  BY <1>1, PickleIsIdentity DEF Pickle
<1>. QED
  BY <1>2 DEF Pickle, IInv, TypeOK, PickleKeepsQuery

(* An empty place is no query.                                             *)
LEMMA DeallocStep == ASSUME IInv, Dealloc PROVE IInv'
BY DEF IInv, TypeOK, PickleKeepsQuery, Dealloc

(* Matching changes no query.                                              *)
LEMMA MatchSteps == ASSUME IInv, MatchLogEvent \/ MatchQuery PROVE IInv'
BY DEF IInv, TypeOK, PickleKeepsQuery, MatchLogEvent, MatchQuery

(* The settings of a builder keep their types.                             *)
LEMMA ConfigureStep == ASSUME IInv, Configure PROVE IInv'
<1>1. builder \in Settings
  BY DEF IInv, TypeOK
<1>2. Defaults \in Settings
  BY PyQueryAssumption, NoAttributesType DEF Defaults, Settings
<1>3. ASSUME SetTimes PROVE builder' \in Settings
  BY <1>1, <1>3 DEF SetTimes, Settings
<1>4. ASSUME AddQueries PROVE builder' \in Settings
  <2>1. ASSUME NEW w \in Wildcards,
               builder' = [builder EXCEPT !.wildcards = @ \union {w}]
        PROVE  builder' \in Settings
    BY <1>1, <2>1 DEF Settings
  <2>2. ASSUME NEW n \in AttrNames, NEW v \in AttrValues,
               builder' = [builder EXCEPT !.attributes = With(@, n, v)]
        PROVE  builder' \in Settings
    <3>1. PICK names \in SUBSET AttrNames :
            builder.attributes \in [names -> AttrValues]
      BY <1>1 DEF Settings, AttrTables
    <3>2. With(builder.attributes, n, v) \in [names \union {n} -> AttrValues]
      BY <3>1 DEF With
    <3>3. With(builder.attributes, n, v) \in AttrTables
      BY <3>2 DEF AttrTables
    <3>. QED
      BY <1>1, <2>2, <3>3 DEF Settings
  <2>. QED
    BY <1>4, <2>1, <2>2 DEF AddQueries
<1>5. ASSUME Reset PROVE builder' \in Settings
  BY <1>1, <1>2, <1>5, NoAttributesType DEF Reset, Settings
<1>6. builder' \in Settings
  BY <1>3, <1>4, <1>5 DEF Configure
<1>. QED
  BY <1>6 DEF Configure, IInv, TypeOK, PickleKeepsQuery

(* A builder constructs from its settings, which are typed, or raises.     *)
LEMMA BuildStep == ASSUME IInv, Build PROVE IInv'
<1>. DEFINE args == [builder EXCEPT
               !.wildcards = Serialized({}, @),
               !.attributes = Serialized(NoAttributes, @)]
<1>1. CASE UNCHANGED <<query, built>>
  BY <1>1 DEF Build, IInv, TypeOK, PickleKeepsQuery
<1>2. CASE Construct(args)
  <2>1. builder \in Settings
    BY DEF IInv, TypeOK
  <2>2. /\ args.wildcards = Serialized({}, builder.wildcards)
        /\ args.attributes = Serialized(NoAttributes, builder.attributes)
    BY <2>1 DEF Settings
  <2>3. /\ args.wildcards \in (SUBSET Wildcards) \union {None}
        /\ args.attributes \in AttrTables \union {None}
    BY <2>1, <2>2 DEF Settings, Serialized
  <2>. HIDE DEF args
  <2>. QED
    BY <1>2, <2>3, ConstructStep DEF Build
<1>. QED
  BY <1>1, <1>2 DEF Build

(* At first a builder has the defaults and there is no query.              *)
LEMMA InitInv == Init => IInv
<1>1. Defaults \in Settings
  BY PyQueryAssumption, NoAttributesType DEF Defaults, Settings
<1>. QED
  BY <1>1 DEF Init, IInv, TypeOK, PickleKeepsQuery

(* Every step keeps the invariant.                                         *)
LEMMA StepInv == IInv /\ [Next]_vars => IInv'
<1>. SUFFICES ASSUME IInv, [Next]_vars PROVE IInv'
  OBVIOUS
<1>1. CASE UNCHANGED vars
  BY <1>1 DEF vars, IInv, TypeOK, PickleKeepsQuery
<1>. QED
  BY <1>1, NewPyQueryStep, PickleStep, DeallocStep, MatchSteps, ConfigureStep,
     BuildStep DEF Next

(* The invariant holds of every state.                                     *)
LEMMA Invariance == Spec => []IInv
BY InitInv, StepInv, PTL DEF Spec

(* Queries and builders have their types, and the range of a query is not  *)
(* empty.                                                                  *)
THEOREM QueryTypeCorrect == Spec => []TypeOK
<1>1. IInv => TypeOK
  BY DEF IInv
<1>. QED
  BY <1>1, Invariance, PTL

(* A pickled query is the query it was, for a width of any number of bits  *)
(* and any margin (PyQuery_getstate, get_search_time_termination_margin).  *)
THEOREM PickledQueryIsTheQuery == Spec => []PickleKeepsQuery
<1>1. IInv => PickleKeepsQuery
  BY DEF IInv
<1>. QED
  BY <1>1, Invariance, PTL

(* No margin makes a search end within its time range: the termination     *)
(* timestamp of the constructor of Query is not before the upper bound.    *)
THEOREM SearchIsNotCutShort == Spec => []SearchOutlivesRange
<1>1. IInv => SearchOutlivesRange
  <2>. SUFFICES ASSUME IInv, query # NoQuery, NEW ts \in Int64,
                       ts <= query.upper
                PROVE  ~TsSafelyOutside(query, ts)
    BY DEF SearchOutlivesRange
  <2>1. query.upper \in Int64
    BY DEF IInv, TypeOK, QueryObjects
  <2>2. PICK margin \in Int64 :
          query.termination = TerminationTs(query.upper, margin)
    BY DEF IInv, HasMargin
  <2>3. query.termination \in Int64 /\ query.upper <= query.termination
    BY <2>1, <2>2, TerminationAfterUpper
  <2>. QED
    BY <2>1, <2>3, MaxTsAssumption DEF TsSafelyOutside, Int64, MinTs
<1>. QED
  BY <1>1, Invariance, PTL

=============================================================================
