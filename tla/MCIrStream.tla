----------------------------- MODULE MCIrStream -----------------------------
(***************************************************************************)
(* IrStream with timestamps of few values, Android streams and streams of  *)
(* another encoder with one attribute.                                     *)
(***************************************************************************)
EXTENDS IrStream

CONSTANTS utc, nowhere    \* time zone ids; Python knows the first
CONSTANTS m1, v1, v2, v3, null

AndroidTable == << "tag", "pid", "tid", "priority" >>
ForeignTable == << "host" >>
OneForeignTable == {ForeignTable}

(* Attributes that differ between the columns, one of them null.           *)
AndroidAttributes(tag) ==
  [n \in NamesIn(AndroidTable) |->
     CASE n = "tag" -> tag
       [] n = "pid" -> v2
       [] n = "tid" -> v3
       [] OTHER -> null]

SmallLogCalls ==
  [timestamp : Int64, message : {m1},
   attributes : {<<>>, [n \in {"host"} |-> v2],
                 AndroidAttributes(v1), AndroidAttributes(v3)}]

(* Queries on the first, a middle and an unknown attribute.                *)
Asking(attributes) == NewQuery(0, MaxTs, {}, attributes, 0)
SmallQueries ==
  { Asking([n \in {"tag"} |-> v1]),
    Asking([n \in {"tag", "pid"} |-> IF n = "tag" THEN v3 ELSE v2]),
    Asking([n \in {"host"} |-> v2]) }

=============================================================================
