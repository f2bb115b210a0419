------------------------------ MODULE Metadata ------------------------------
(***************************************************************************)
(* The metadata of a stream (Metadata.{hpp,cpp}, PyMetadata.cpp): what the *)
(* JSON text of a preamble is read as, and the attribute table that says   *)
(* which column of a log event holds which attribute.                      *)
(*                                                                         *)
(* A JSON text is a record with a field for each key that is looked up;    *)
(* None stands for a key that is absent or whose value is not of the type  *)
(* required.  The reference timestamp is a string, represented by the      *)
(* integer it spells.  The types of the attributes are left out: a log     *)
(* event whose values are not of the declared types does not decode.       *)
(***************************************************************************)
EXTENDS Query, Sequences, FiniteSets

CONSTANTS
  KnownZones,  \* time zone ids that Python has a time zone for
  None

Int64 == MinTs .. MaxTs

(* std::stoull reads what an unsigned integer of the width of a timestamp  *)
(* can hold, with a sign or without, and the cast to epoch_time_ms_t keeps *)
(* the bits.                                                               *)
UnsignedMax == 2 * MaxTs + 1
RefTsReadsUnsigned(n) == n \in 0 .. UnsignedMax  \* mutant: a sign is refused
RefTsReads(n) == n \in -UnsignedMax .. UnsignedMax

(* The constructor and the search for the time zone raise nothing.  Only a *)
(* stream with an Android version has its attribute table looked up, and   *)
(* then it must have one.                                                  *)
Readable(json) ==
  /\ json.refTs # None /\ RefTsReads(json.refTs)
  /\ json.format # None
  /\ json.zone # None
  /\ json.version # None => json.attributes # None
  /\ json.zone \in KnownZones

MetadataUncast(json) ==  \* mutant: the integer read is not cast
  [refTs |-> json.refTs, zone |-> json.zone,
   android |-> json.version # None,
   attributes |-> IF json.version = None THEN <<>> ELSE json.attributes]
MetadataOf(json) ==
  [refTs |-> Wrapped(json.refTs), zone |-> json.zone,
   android |-> json.version # None,
   attributes |-> IF json.version = None THEN <<>> ELSE json.attributes]

-----------------------------------------------------------------------------
(* The attribute table, a sequence of names, and the values of a log       *)
(* event, one for each of its columns.                                     *)

NamesIn(table) == {table[k] : k \in DOMAIN table}

(* The first column of a name.                                             *)
FirstColumn(table, name) ==
  CHOOSE k \in DOMAIN table :
    /\ table[k] = name
    /\ \A j \in DOMAIN table : table[j] = name => k <= j

(* m_attribute_idx_map counts from 0: emplace keeps the entry of a name    *)
(* that is repeated, and a name's entry is the number of entries before it *)
(* was added.                                                              *)
IndexMapBackwards(table) ==  \* mutant: the table is read from its end
  [n \in NamesIn(table) |->
     Cardinality({table[j] : j \in FirstColumn(table, n) + 1 .. Len(table)})]
IndexMap(table) ==
  [n \in NamesIn(table) |->
     Cardinality({table[j] : j \in 1 .. FirstColumn(table, n) - 1})]

(* The attributes as a search looks them up, by the index map, and as the  *)
(* LogEvent object that decode returns has them, where emplace keeps the   *)
(* value of the first column of a name.                                    *)
ByColumn(table, values) ==
  [n \in NamesIn(table) |-> values[IndexMap(table)[n] + 1]]
ByName(table, values) ==
  [n \in NamesIn(table) |-> values[FirstColumn(table, n)]]

Distinct(table) ==
  \A j, k \in DOMAIN table : table[j] = table[k] => j = k

=============================================================================
