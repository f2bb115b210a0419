--------------------------- MODULE IrStreamProofs ---------------------------
(***************************************************************************)
(* Proofs about IrStream, for timestamps of any width, any attribute       *)
(* tables without repeated names and any number of log events: what is     *)
(* read is what was logged, a search by column and a match by name agree,  *)
(* and only an unknown time zone makes a preamble unreadable.              *)
(***************************************************************************)
EXTENDS IrStream, FiniteSetTheorems, TLAPS

(* What the variables hold.                                                *)
Metadatas ==
  [refTs : Int64, zone : Zones, android : BOOLEAN, attributes : Tables]

Jsons ==
  [refTs : MinTs .. UnsignedMax, format : {"format"}, zone : Zones,
   version : {None, "version"}, attributes : Tables \union {None}]

Rows == UNION { [DOMAIN table -> AttributeValues] : table \in Tables }

Pieces ==
  [kind : {"preamble"}, json : Jsons]
    \union [kind : {"message"}, values : Rows, message : Messages]
    \union [kind : {"delta"}, delta : Int]
    \union {EncodeEndOfIr}

Decoded == [timestamp : Int64, message : Messages, values : Rows,
            attributes : Attributes]

(* The timestamp of the k-th log event, of the preamble for 0.             *)
TsAt(k) == IF k = 0 THEN Wrapped(pieces[1].json.refTs)
           ELSE logged[k].timestamp

(* The stream begins with a preamble that decode_preamble reads, but for   *)
(* its time zone.                                                          *)
PreambleOK ==
  IF pieces = <<>> THEN logged = <<>> /\ metadata = None
  ELSE /\ pieces[1].json \in Jsons
       /\ pieces[1].json.version # None =>
            pieces[1].json.attributes \in Tables

(* Every log event is two pieces, an end of stream follows the last one.   *)
PiecesOK ==
  /\ pieces \in Seq(Pieces)
  /\ logged \in Seq(LogCalls)
  /\ pieces # <<>> =>
       /\ last = TsAt(Len(logged))
       /\ \/ Len(pieces) = 1 + 2 * Len(logged)
          \/ /\ Len(pieces) = 2 + 2 * Len(logged)
             /\ pieces[Len(pieces)].kind = "eof"
  /\ \A k \in 1 .. Len(logged) :
       /\ logged[k].attributes \in [NamesIn(Declared) -> AttributeValues]
       /\ pieces[2 * k].values = Row(Declared, logged[k].attributes)
       /\ pieces[2 * k].message = logged[k].message
       /\ pieces[2 * k + 1].delta = TsAt(k) - TsAt(k - 1)

(* The reader has decoded the first log events, and is at the next one.    *)
ReaderOK ==
  /\ written \in 0 .. Len(pieces)
  /\ last \in Int64
  /\ refTs \in Int64
  /\ got \in Seq(Decoded)
  /\ metadata \in {None, Rejected} => got = <<>>
  /\ metadata = Rejected =>
       pieces # <<>> /\ pieces[1].json.zone \notin KnownZones
  /\ metadata \notin {None, Rejected} =>
       /\ pieces # <<>>
       /\ metadata = MetadataOf(pieces[1].json)
       /\ Readable(pieces[1].json)
       /\ position = 1 + 2 * Len(got)
       /\ refTs = TsAt(Len(got))
  /\ Len(got) <= Len(logged)
  /\ \A k \in 1 .. Len(got) :
       /\ got[k].timestamp = logged[k].timestamp
       /\ got[k].message = logged[k].message
       /\ got[k].values = Row(Declared, logged[k].attributes)
       /\ got[k].attributes = logged[k].attributes

(* The inductive invariant.                                                *)
IInv == PreambleOK /\ PiecesOK /\ ReaderOK

-----------------------------------------------------------------------------
(* The attribute table.                                                    *)

(* The first column of the name in column k is k, if no name is repeated.  *)
LEMMA FirstColumnIs ==
  ASSUME NEW table, Distinct(table), DOMAIN table \subseteq Int,
         NEW k \in DOMAIN table
  PROVE  FirstColumn(table, table[k]) = k
<1> DEFINE P(j) == /\ table[j] = table[k]
                   /\ \A i \in DOMAIN table : table[i] = table[k] => j <= i
<1>1. \A i \in DOMAIN table : table[i] = table[k] => i = k
  BY DEF Distinct
<1>2. k \in DOMAIN table /\ P(k)
  BY <1>1
<1>3. \A j \in DOMAIN table : P(j) => j = k
  BY <1>1
<1> HIDE DEF P
<1>4. (CHOOSE j \in DOMAIN table : P(j)) = k
  BY <1>2, <1>3
<1> QED
  BY <1>4 DEF P, FirstColumn

(* The index map has the column of every name, counted from 0.             *)
LEMMA IndexIsColumn ==
  ASSUME NEW table, table \in Seq(NamesIn(table)), Distinct(table),
         NEW k \in DOMAIN table
  PROVE  IndexMap(table)[table[k]] = k - 1
<1> DEFINE Before == 1 .. k - 1
           Names  == {table[j] : j \in Before}
           f      == [j \in Before |-> table[j]]
<1>1. k \in 1 .. Len(table) /\ DOMAIN table = 1 .. Len(table)
      /\ Len(table) \in Nat
  BY DEF NamesIn
<1>2. f \in Bijection(Before, Names)
  <2>1. Before \subseteq DOMAIN table
    BY <1>1
  <2>2. \A i, j \in Before : f[i] = f[j] => i = j
    BY <2>1 DEF Distinct
  <2>3. f \in [Before -> Names] /\ \A n \in Names : \E j \in Before : f[j] = n
    OBVIOUS
  <2> QED
    BY <2>2, <2>3 DEF Bijection, Injection, Surjection, IsInjective
<1>3. IsFiniteSet(Before) /\ Cardinality(Before) = k - 1
  <2>1. 1 \in Int /\ k - 1 \in Int
    BY <1>1
  <2>2. /\ IsFiniteSet(Before)
        /\ Cardinality(Before) = IF 1 > k - 1 THEN 0 ELSE (k - 1) - 1 + 1
    BY <2>1, FS_Interval
  <2> QED
    BY <1>1, <2>2
<1>4. ExistsBijection(Before, Names)
  BY <1>2 DEF ExistsBijection
<1>5. Cardinality(Names) = k - 1
  BY <1>3, <1>4, FS_Bijection
<1>6. FirstColumn(table, table[k]) = k
  BY <1>1, FirstColumnIs
<1>7. table[k] \in NamesIn(table)
  BY DEF NamesIn
<1> QED
  BY <1>5, <1>6, <1>7 DEF IndexMap

(* What a logger puts into the columns is found there by either way.       *)
LEMMA ColumnsReadBack ==
  ASSUME NEW table \in Tables, NEW attributes,
         attributes \in [NamesIn(table) -> AttributeValues]
  PROVE  /\ ByName(table, Row(table, attributes)) = attributes
         /\ ByColumn(table, Row(table, attributes)) = attributes
         /\ Row(table, attributes) \in Rows
         /\ attributes \in Attributes
<1> DEFINE row == Row(table, attributes)
<1>1. /\ table \in Seq(NamesIn(table)) /\ Distinct(table)
      /\ DOMAIN table \subseteq Int
  BY IrStreamAssumption
<1>2. \A k \in DOMAIN table : /\ row[k] = attributes[table[k]]
                              /\ table[k] \in NamesIn(table)
  BY DEF Row, NamesIn
<1>3. ASSUME NEW n \in NamesIn(table)
      PROVE  /\ row[FirstColumn(table, n)] = attributes[n]
             /\ row[IndexMap(table)[n] + 1] = attributes[n]
  <2>1. PICK k \in DOMAIN table : table[k] = n
    BY DEF NamesIn
  <2>2. FirstColumn(table, table[k]) = k
    BY <1>1, FirstColumnIs
  <2>3. IndexMap(table)[table[k]] = k - 1
    BY <1>1, IndexIsColumn
  <2>4. IndexMap(table)[n] + 1 = k
    BY <1>1, <2>1, <2>3
  <2> QED
    BY <1>2, <2>1, <2>2, <2>4
<1>4. row \in [DOMAIN table -> AttributeValues]
  BY <1>2 DEF Row
<1>5. /\ ByName(table, row) = attributes
      /\ ByColumn(table, row) = attributes
  BY <1>3 DEF ByName, ByColumn
<1> QED
  BY <1>4, <1>5 DEF Rows, Attributes

-----------------------------------------------------------------------------
(* The JSON text of a preamble.                                            *)

(* However the reference timestamp is spelt, it is the one of the logger   *)
(* that is read, and only the time zone can make the text unreadable.      *)
LEMMA JsonReads ==
  ASSUME NEW json \in Jsons,
         json.version # None => json.attributes \in Tables
  PROVE  /\ Readable(json) <=> json.zone \in KnownZones
         /\ Wrapped(json.refTs) \in Int64
         /\ MetadataOf(json) \in Metadatas
         /\ MetadataOf(json) \notin {None, Rejected}
         /\ Readable(json) =>
              MetadataOf(json) \in [refTs : Int64, zone : KnownZones,
                                    android : BOOLEAN, attributes : Tables]
<1>1. Wrapped(json.refTs) \in Int64
  BY MaxTsAssumption DEF Jsons, Wrapped, Int64, MinTs, UnsignedMax
<1>2. json.refTs # None /\ json.format # None /\ json.zone # None
  BY IrStreamAssumption, MaxTsAssumption DEF Jsons, MinTs, UnsignedMax
<1>3. json.version # None => json.attributes # None
  BY IrStreamAssumption
<1>4. RefTsReads(json.refTs)
  BY MaxTsAssumption DEF Jsons, RefTsReads, MinTs, UnsignedMax
<1>5. Readable(json) <=> json.zone \in KnownZones
  BY <1>2, <1>3, <1>4 DEF Readable
<1> DEFINE ts      == Wrapped(json.refTs)
           zone    == json.zone
           android == json.version # None
           table   == IF json.version = None THEN <<>> ELSE json.attributes
<1>6. /\ zone \in Zones
      /\ android \in BOOLEAN
      /\ table \in Tables
  BY DEF Jsons, Tables
<1>7. MetadataOf(json) = [refTs |-> ts, zone |-> zone, android |-> android,
                          attributes |-> table]
  BY DEF MetadataOf
<1>8. /\ MetadataOf(json) \in Metadatas
      /\ zone \in KnownZones =>
           MetadataOf(json) \in [refTs : Int64, zone : KnownZones,
                                 android : BOOLEAN, attributes : Tables]
  <2> HIDE DEF zone, android, table
  <2> QED
    BY <1>1, <1>6, <1>7 DEF Metadatas
<1>9. MetadataOf(json) # None
  BY <1>8, IrStreamAssumption DEF Metadatas
<1>10. MetadataOf(json) # Rejected
  <2>1. DOMAIN Rejected = {"kind"}
    BY DEF Rejected
  <2>2. "refTs" \in DOMAIN MetadataOf(json)
    BY DEF MetadataOf
  <2> QED
    BY <2>1, <2>2
<1> QED
  BY <1>1, <1>5, <1>8, <1>9, <1>10

(* The texts a logger writes, each with its timestamp.                     *)
LEMMA PreambleJsons ==
  ASSUME NEW ts \in Int64, NEW zone \in Zones,
         NEW json \in {EncodePreamble(ts, zone),
                       EncodeAndroidPreamble(ts, zone)}
               \union {ForeignPreamble(ts, zone, t) : t \in ForeignTables}
  PROVE  /\ json \in Jsons
         /\ json.version # None => json.attributes \in Tables
         /\ Wrapped(json.refTs) = ts
<1>1. ts \in MinTs .. MaxTs /\ MaxTs \in Nat
  BY MaxTsAssumption DEF Int64
<1>2. CASE json = EncodePreamble(ts, zone)
  <2>1. json = [refTs |-> ts, format |-> "format", zone |-> zone,
                version |-> None, attributes |-> None]
    BY <1>2 DEF EncodePreamble, PreambleJson
  <2>2. ts \in MinTs .. UnsignedMax /\ Wrapped(ts) = ts
    BY <1>1 DEF MinTs, UnsignedMax, Wrapped
  <2> QED
    BY <2>1, <2>2 DEF Jsons
<1>3. CASE json = EncodeAndroidPreamble(ts, zone)
  <2>1. json = [refTs |-> ts, format |-> "format", zone |-> zone,
                version |-> "version", attributes |-> AndroidNames]
    BY <1>3 DEF EncodeAndroidPreamble, PreambleJson
  <2>2. ts \in MinTs .. UnsignedMax /\ Wrapped(ts) = ts
    BY <1>1 DEF MinTs, UnsignedMax, Wrapped
  <2> QED
    BY <2>1, <2>2 DEF Jsons, Tables
<1>4. CASE json \in {ForeignPreamble(ts, zone, t) : t \in ForeignTables}
  <2>1. PICK t \in ForeignTables : json = ForeignPreamble(ts, zone, t)
    BY <1>4
  <2> DEFINE spelt == IF ts < 0 THEN ts + UnsignedMax + 1 ELSE ts
  <2>2. json = [refTs |-> spelt, format |-> "format", zone |-> zone,
                version |-> "version", attributes |-> t]
    BY <2>1 DEF ForeignPreamble, PreambleJson
  <2>3. spelt \in MinTs .. UnsignedMax /\ Wrapped(spelt) = ts
    BY <1>1 DEF MinTs, UnsignedMax, Wrapped
  <2> QED
    BY <2>2, <2>3 DEF Jsons, Tables
<1> QED
  BY <1>2, <1>3, <1>4

-----------------------------------------------------------------------------
(* The inductive invariant.                                                *)

(* The attributes a preamble declares are one of the tables.               *)
LEMMA DeclaredTable ==
  ASSUME PreambleOK, pieces # <<>>
  PROVE  Declared \in Tables
<1>1. MetadataOf(pieces[1].json) \in Metadatas
  BY JsonReads DEF PreambleOK
<1> QED
  BY <1>1 DEF Declared, Metadatas

(* It holds before anything is written.                                    *)
LEMMA InitInv == Init => IInv
<1> SUFFICES ASSUME Init PROVE IInv
  OBVIOUS
<1>1. PreambleOK
  BY DEF Init, PreambleOK
<1>2. PiecesOK
  BY DEF Init, PiecesOK
<1>3. ReaderOK
  <2>1. None # Rejected
    BY IrStreamAssumption
  <2>2. 0 \in Int64
    BY MaxTsAssumption DEF Int64, MinTs
  <2> QED
    BY <2>1, <2>2 DEF Init, ReaderOK
<1> QED
  BY <1>1, <1>2, <1>3 DEF IInv

(* Beginning a stream.                                                     *)
LEMMA BeginInv == IInv /\ Begin => IInv'
<1> SUFFICES ASSUME IInv, Begin PROVE IInv'
  OBVIOUS
<1> DEFINE Texts(ts, zone) ==
      {EncodePreamble(ts, zone), EncodeAndroidPreamble(ts, zone)}
        \union {ForeignPreamble(ts, zone, t) : t \in ForeignTables}
<1>0. PICK ts \in Int64, zone \in Zones :
        /\ last' = ts
        /\ \E json \in Texts(ts, zone) :
             pieces' = << [kind |-> "preamble", json |-> json] >>
  BY DEF Begin
<1>1. PICK json \in Texts(ts, zone) :
        pieces' = << [kind |-> "preamble", json |-> json] >>
  BY <1>0
<1>2. /\ json \in Jsons
      /\ json.version # None => json.attributes \in Tables
      /\ Wrapped(json.refTs) = ts
  BY PreambleJsons
<1>3. pieces = <<>> /\ logged = <<>> /\ metadata = None
  BY DEF Begin, IInv, PreambleOK
<1>4. UNCHANGED <<written, logged, position, metadata, refTs, got>>
  BY DEF Begin
<1>5. pieces' # <<>> /\ Len(pieces') = 1 /\ pieces'[1].json = json
      /\ Len(logged') = 0
  BY <1>1, <1>3, <1>4
<1>6. PreambleOK'
  BY <1>2, <1>5 DEF PreambleOK
<1>7. PiecesOK'
  <2>1. [kind |-> "preamble", json |-> json] \in Pieces
    BY <1>2 DEF Pieces
  <2>2. TsAt(Len(logged))' = ts
    BY <1>2, <1>5 DEF TsAt
  <2> QED
    BY <1>0, <1>1, <1>3, <1>4, <1>5, <2>1, <2>2 DEF PiecesOK, IInv
<1>8. ReaderOK'
  BY <1>0, <1>3, <1>4, <1>5 DEF IInv, ReaderOK
<1> QED
  BY <1>6, <1>7, <1>8 DEF IInv

(* Whatever the logger appends, what was there keeps its place.            *)
LEMMA Appended ==
  ASSUME IInv, Open, NEW more, more \in Seq(Pieces), pieces' = pieces \o more
  PROVE  /\ pieces' \in Seq(Pieces)
         /\ Len(pieces') = Len(pieces) + Len(more)
         /\ \A i \in 1 .. Len(pieces) : pieces'[i] = pieces[i]
         /\ \A i \in 1 .. Len(more) : pieces'[Len(pieces) + i] = more[i]
         /\ pieces' # <<>>
         /\ pieces'[1] = pieces[1]
         /\ Declared' = Declared
         /\ Len(pieces) = 1 + 2 * Len(logged)
         /\ Len(logged) \in Nat
<1>1. pieces \in Seq(Pieces) /\ logged \in Seq(LogCalls) /\ pieces # <<>>
  BY DEF IInv, PiecesOK, Open
<1>2. pieces' \in Seq(Pieces) /\ Len(pieces') = Len(pieces) + Len(more)
  BY <1>1
<1>3. /\ \A i \in 1 .. Len(pieces) : pieces'[i] = pieces[i]
      /\ \A i \in 1 .. Len(more) : pieces'[Len(pieces) + i] = more[i]
  BY <1>1
<1>4. Len(pieces) = 1 + 2 * Len(logged) /\ Len(logged) \in Nat
  BY <1>1 DEF IInv, PiecesOK, Open
<1>5. pieces' # <<>> /\ pieces'[1] = pieces[1]
  BY <1>1, <1>2, <1>3, <1>4
<1>6. Declared' = Declared
  BY <1>5 DEF Declared
<1> QED
  BY <1>1, <1>2, <1>3, <1>4, <1>5, <1>6

(* Logging an event.                                                       *)
LEMMA LogInv == IInv /\ Log => IInv'
<1> SUFFICES ASSUME IInv, Log PROVE IInv'
  OBVIOUS
<1>1. PICK call \in LogCalls :
        /\ DOMAIN call.attributes = NamesIn(Declared)
        /\ DeltaEncodes(call.timestamp - last)
        /\ pieces' = pieces \o EncodeMessageAndTimestampDelta(
                        Row(Declared, call.attributes), call.message,
                        call.timestamp - last)
        /\ last' = call.timestamp
        /\ logged' = Append(logged, call)
  BY DEF Log
<1> DEFINE values == Row(Declared, call.attributes)
           delta  == call.timestamp - last
           more   == << EncodeMessage(values, call.message),
                        EncodeTimestampDelta(delta) >>
<1>0. PICK L \in Nat : L = Len(logged)
  BY DEF IInv, PiecesOK
<1>2. Open /\ UNCHANGED <<written, position, metadata, refTs, got>>
  BY DEF Log
<1>3. /\ call \in [timestamp : Int64, message : Messages,
                   attributes : Attributes]
      /\ call.timestamp \in Int64 /\ call.timestamp \in Int /\ last \in Int
  BY IrStreamAssumption, MaxTsAssumption DEF IInv, ReaderOK, Int64, MinTs
<1>4. FourBytes(delta) = delta /\ delta \in Int
  BY <1>1, <1>3, IrStreamAssumption, MaxTsAssumption
  DEF DeltaEncodes, FourBytes
<1>5. call.attributes \in [NamesIn(Declared) -> AttributeValues]
  BY <1>1, <1>3 DEF Attributes
<1>6. Declared \in Tables
  BY <1>2, DeclaredTable DEF Open, IInv
<1>7. values \in Rows
  BY <1>5, <1>6, ColumnsReadBack
<1>8. more \in Seq(Pieces) /\ Len(more) = 2 /\ pieces' = pieces \o more
  <2>1. EncodeMessage(values, call.message) \in Pieces
    BY <1>3, <1>7 DEF EncodeMessage, Pieces
  <2>2. EncodeTimestampDelta(delta) \in Pieces
    BY <1>4 DEF EncodeTimestampDelta, Pieces
  <2> QED
    BY <1>1, <2>1, <2>2 DEF EncodeMessageAndTimestampDelta
<1>9. /\ pieces' \in Seq(Pieces)
      /\ Len(pieces') = Len(pieces) + 2
      /\ \A i \in 1 .. Len(pieces) : pieces'[i] = pieces[i]
      /\ \A i \in 1 .. 2 : pieces'[Len(pieces) + i] = more[i]
      /\ pieces' # <<>>
      /\ pieces'[1] = pieces[1]
      /\ Declared' = Declared
      /\ Len(pieces) = 1 + 2 * L
      /\ L \in Nat
  <2> HIDE DEF more
  <2>1. /\ pieces' \in Seq(Pieces)
        /\ Len(pieces') = Len(pieces) + Len(more)
        /\ \A i \in 1 .. Len(pieces) : pieces'[i] = pieces[i]
        /\ \A i \in 1 .. Len(more) : pieces'[Len(pieces) + i] = more[i]
        /\ pieces' # <<>>
        /\ pieces'[1] = pieces[1]
        /\ Declared' = Declared
        /\ Len(pieces) = 1 + 2 * Len(logged)
        /\ Len(logged) \in Nat
    BY <1>2, <1>8, Appended
  <2> QED
    BY <1>0, <1>8, <2>1
<1>10. /\ logged' \in Seq(LogCalls) /\ Len(logged') = L + 1
       /\ \A k \in 1 .. L : logged'[k] = logged[k]
       /\ logged'[L + 1] = call
  BY <1>0, <1>1 DEF IInv, PiecesOK
<1>11. /\ \A k \in 0 .. L : TsAt(k)' = TsAt(k)
       /\ TsAt(L + 1)' = call.timestamp
  BY <1>9, <1>10 DEF TsAt
<1>12. PreambleOK'
  BY <1>2, <1>9 DEF IInv, PreambleOK, Open
<1>13. PiecesOK'
  <2>1. TsAt(Len(logged))' = last'
    BY <1>1, <1>10, <1>11 DEF TsAt
  <2>2. Len(pieces') = 1 + 2 * Len(logged')
    BY <1>9, <1>10
  <2>3. ASSUME NEW k \in 1 .. L
        PROVE  /\ logged'[k].attributes
                    \in [NamesIn(Declared') -> AttributeValues]
               /\ pieces'[2 * k].values = Row(Declared', logged'[k].attributes)
               /\ pieces'[2 * k].message = logged'[k].message
               /\ pieces'[2 * k + 1].delta = TsAt(k)' - TsAt(k - 1)'
    <3>1. 2 * k \in 1 .. Len(pieces) /\ 2 * k + 1 \in 1 .. Len(pieces)
      BY <1>9
    <3>2. /\ pieces'[2 * k] = pieces[2 * k]
          /\ pieces'[2 * k + 1] = pieces[2 * k + 1]
      BY <1>9, <3>1
    <3>3. TsAt(k)' = TsAt(k) /\ TsAt(k - 1)' = TsAt(k - 1)
      BY <1>9, <1>11
    <3>4. logged'[k] = logged[k] /\ Declared' = Declared
      BY <1>9, <1>10
    <3>5. /\ logged[k].attributes \in [NamesIn(Declared) -> AttributeValues]
          /\ pieces[2 * k].values = Row(Declared, logged[k].attributes)
          /\ pieces[2 * k].message = logged[k].message
          /\ pieces[2 * k + 1].delta = TsAt(k) - TsAt(k - 1)
      BY <1>0 DEF IInv, PiecesOK
    <3> QED
      BY <3>2, <3>3, <3>4, <3>5
  <2>4. /\ logged'[L + 1].attributes
             \in [NamesIn(Declared') -> AttributeValues]
        /\ pieces'[2 * (L + 1)].values
             = Row(Declared', logged'[L + 1].attributes)
        /\ pieces'[2 * (L + 1)].message = logged'[L + 1].message
        /\ pieces'[2 * (L + 1) + 1].delta = TsAt(L + 1)' - TsAt(L + 1 - 1)'
    <3>1. /\ pieces'[2 * (L + 1)] = EncodeMessage(values, call.message)
          /\ pieces'[2 * (L + 1) + 1] = EncodeTimestampDelta(delta)
      BY <1>9
    <3>2. last = TsAt(L) /\ L + 1 - 1 = L
      BY <1>0, <1>2, <1>9 DEF IInv, PiecesOK, Open
    <3>3. TsAt(L + 1)' = call.timestamp /\ TsAt(L)' = last
      BY <1>9, <1>11, <3>2
    <3>4. logged'[L + 1] = call /\ Declared' = Declared
      BY <1>9, <1>10
    <3>5. pieces'[2 * (L + 1) + 1].delta = call.timestamp - last
      BY <1>4, <3>1 DEF EncodeTimestampDelta
    <3>6. /\ pieces'[2 * (L + 1)].values = values
          /\ pieces'[2 * (L + 1)].message = call.message
      BY <3>1 DEF EncodeMessage
    <3> QED
      BY <1>5, <3>2, <3>3, <3>4, <3>5, <3>6
  <2>5. \A k \in 1 .. Len(logged') : k \in 1 .. L \/ k = L + 1
    BY <1>9, <1>10
  <2>6. ASSUME NEW k \in 1 .. Len(logged')
        PROVE  /\ logged'[k].attributes
                    \in [NamesIn(Declared') -> AttributeValues]
               /\ pieces'[2 * k].values = Row(Declared', logged'[k].attributes)
               /\ pieces'[2 * k].message = logged'[k].message
               /\ pieces'[2 * k + 1].delta = TsAt(k)' - TsAt(k - 1)'
    <3>1. CASE k \in 1 .. L
      BY <2>3, <3>1
    <3>2. CASE k = L + 1
      BY <2>4, <3>2
    <3> QED
      BY <2>5, <3>1, <3>2
  <2> QED
    BY <1>9, <1>10, <2>1, <2>2, <2>6 DEF PiecesOK
<1>14. ReaderOK'
  <2>1. written' \in 0 .. Len(pieces') /\ last' \in Int64
    BY <1>1, <1>2, <1>3, <1>9 DEF IInv, ReaderOK
  <2>2. Len(got) <= L /\ Len(got) \in Nat /\ got \in Seq(Decoded)
    BY <1>0 DEF IInv, ReaderOK
  <2>3. TsAt(Len(got))' = TsAt(Len(got))
    BY <1>2, <1>9, <1>11, <2>2
  <2>4. \A k \in 1 .. Len(got) : logged'[k] = logged[k]
    BY <1>9, <1>10, <2>2
  <2>5. Len(got) <= Len(logged')
    BY <1>9, <1>10, <2>2
  <2> QED
    BY <1>2, <1>9, <2>1, <2>2, <2>3, <2>4, <2>5 DEF IInv, ReaderOK
<1> QED
  BY <1>12, <1>13, <1>14 DEF IInv

(* Ending the stream.                                                      *)
LEMMA EndInv == IInv /\ End => IInv'
<1> SUFFICES ASSUME IInv, End PROVE IInv'
  OBVIOUS
<1>0. PICK L \in Nat : L = Len(logged)
  BY DEF IInv, PiecesOK
<1>1. /\ Open /\ pieces' = pieces \o << EncodeEndOfIr >>
      /\ UNCHANGED <<written, last, logged, position, metadata, refTs, got>>
  BY DEF End, IInv, PiecesOK
<1> DEFINE more == << EncodeEndOfIr >>
<1>2. more \in Seq(Pieces) /\ Len(more) = 1 /\ more[1].kind = "eof"
  BY DEF Pieces, EncodeEndOfIr
<1>3. /\ pieces' \in Seq(Pieces)
      /\ Len(pieces') = Len(pieces) + Len(more)
      /\ \A i \in 1 .. Len(pieces) : pieces'[i] = pieces[i]
      /\ \A i \in 1 .. Len(more) : pieces'[Len(pieces) + i] = more[i]
      /\ pieces' # <<>>
      /\ pieces'[1] = pieces[1]
      /\ Declared' = Declared
      /\ Len(pieces) = 1 + 2 * L
  <2> HIDE DEF more
  <2> QED
    BY <1>0, <1>1, <1>2, Appended DEF more
<1>4. PreambleOK'
  BY <1>1, <1>3 DEF IInv, PreambleOK, Open
<1>5. \A k : TsAt(k)' = TsAt(k)
  BY <1>1, <1>3 DEF TsAt
<1>6. PiecesOK'
  <2>1. last' = TsAt(Len(logged))'
    BY <1>1, <1>3 DEF IInv, PiecesOK, TsAt, Open
  <2>2. pieces'[Len(pieces')].kind = "eof"
    <3> HIDE DEF more
    <3>1. Len(pieces') = Len(pieces) + 1 /\ 1 \in 1 .. Len(more)
      BY <1>2, <1>3
    <3> QED
      BY <1>2, <1>3, <3>1
  <2>3. Len(pieces') = 2 + 2 * Len(logged')
    BY <1>0, <1>1, <1>2, <1>3
  <2>4. ASSUME NEW k \in 1 .. Len(logged')
        PROVE  /\ logged'[k].attributes
                    \in [NamesIn(Declared') -> AttributeValues]
               /\ pieces'[2 * k].values = Row(Declared', logged'[k].attributes)
               /\ pieces'[2 * k].message = logged'[k].message
               /\ pieces'[2 * k + 1].delta = TsAt(k)' - TsAt(k - 1)'
    <3>1. k \in 1 .. Len(logged)
      BY <1>1
    <3>2. 2 * k \in 1 .. Len(pieces) /\ 2 * k + 1 \in 1 .. Len(pieces)
      BY <1>0, <1>3, <3>1
    <3>3. /\ pieces'[2 * k] = pieces[2 * k]
          /\ pieces'[2 * k + 1] = pieces[2 * k + 1]
      BY <1>3, <3>2
    <3>4. TsAt(k)' = TsAt(k) /\ TsAt(k - 1)' = TsAt(k - 1)
      BY <1>1, <1>3 DEF TsAt
    <3>5. /\ logged[k].attributes \in [NamesIn(Declared) -> AttributeValues]
          /\ pieces[2 * k].values = Row(Declared, logged[k].attributes)
          /\ pieces[2 * k].message = logged[k].message
          /\ pieces[2 * k + 1].delta = TsAt(k) - TsAt(k - 1)
      BY <3>1 DEF IInv, PiecesOK
    <3> QED
      BY <1>1, <1>3, <3>3, <3>4, <3>5
  <2>5. logged' \in Seq(LogCalls)
    BY <1>1 DEF IInv, PiecesOK
  <2> QED
    BY <1>3, <2>1, <2>2, <2>3, <2>4, <2>5 DEF PiecesOK
<1>7. ReaderOK'
  <2>1. written' \in 0 .. Len(pieces')
    <3> HIDE DEF more
    <3> QED
      BY <1>1, <1>2, <1>3 DEF IInv, ReaderOK, PiecesOK
  <2>2. TsAt(Len(got))' = TsAt(Len(got))
    BY <1>1, <1>3 DEF TsAt
  <2> QED
    BY <1>1, <1>3, <2>1, <2>2 DEF IInv, ReaderOK
<1> QED
  BY <1>4, <1>6, <1>7 DEF IInv

(* Writing a piece.                                                        *)
LEMMA WriteInv == IInv /\ Write => IInv'
<1> SUFFICES ASSUME IInv, Write PROVE IInv'
  OBVIOUS
<1>1. UNCHANGED <<pieces, last, logged, position, metadata, refTs, got>>
  BY DEF Write
<1>2. written' \in 0 .. Len(pieces)
  BY DEF Write, IInv, PiecesOK, ReaderOK
<1>3. /\ Declared' = Declared
      /\ \A k : TsAt(k)' = TsAt(k)
      /\ TsAt(Len(logged))' = TsAt(Len(logged))
      /\ TsAt(Len(got))' = TsAt(Len(got))
  BY <1>1 DEF TsAt, Declared
<1>4. PreambleOK' /\ PiecesOK'
  BY <1>1, <1>3 DEF IInv, PreambleOK, PiecesOK
<1>5. ReaderOK'
  BY <1>1, <1>2, <1>3 DEF IInv, ReaderOK
<1> QED
  BY <1>4, <1>5 DEF IInv

(* The reader changes nothing of the stream.                               *)
LEMMA StreamFrame ==
  ASSUME IInv, UNCHANGED <<pieces, written, last, logged>>,
         pieces = <<>> => metadata' = None
  PROVE  /\ PreambleOK' /\ PiecesOK'
         /\ Declared' = Declared
         /\ \A k : TsAt(k)' = TsAt(k)
<1>1. Declared' = Declared /\ \A k : TsAt(k)' = TsAt(k)
  BY DEF TsAt, Declared
<1>2. TsAt(Len(logged))' = TsAt(Len(logged))
  BY DEF TsAt
<1> QED
  BY <1>1, <1>2 DEF IInv, PreambleOK, PiecesOK

(* Reading the preamble.                                                   *)
LEMMA DecodePreambleInv == IInv /\ DecodePreamble => IInv'
<1> SUFFICES ASSUME IInv, DecodePreamble PROVE IInv'
  OBVIOUS
<1> DEFINE json == pieces[1].json
<1>1. /\ metadata = None /\ position' = 1
      /\ UNCHANGED <<pieces, written, last, logged, got>>
      /\ \/ Readable(json) /\ metadata' = MetadataOf(json)
            /\ refTs' = metadata'.refTs
         \/ ~Readable(json) /\ metadata' = Rejected /\ refTs' = refTs
  BY DEF DecodePreamble
<1>2. pieces # <<>> /\ got = <<>> /\ Len(got) = 0
  BY <1>1 DEF DecodePreamble, IInv, ReaderOK
<1>3. PreambleOK' /\ PiecesOK' /\ Declared' = Declared
  BY <1>1, <1>2, StreamFrame
<1>4. /\ Readable(json) <=> json.zone \in KnownZones
      /\ Wrapped(json.refTs) \in Int64
      /\ MetadataOf(json) \notin {None, Rejected}
  BY <1>2, JsonReads DEF IInv, PreambleOK
<1>5. None # Rejected
  BY IrStreamAssumption
<1>6. TsAt(Len(got))' = Wrapped(json.refTs)
  BY <1>1, <1>2 DEF TsAt
<1>7. MetadataOf(json).refTs = Wrapped(json.refTs)
  BY DEF MetadataOf
<1>8. refTs' \in Int64
  BY <1>1, <1>4, <1>7 DEF IInv, ReaderOK
<1>9. /\ metadata' = Rejected =>
           pieces' # <<>> /\ pieces'[1].json.zone \notin KnownZones
      /\ metadata' \notin {None, Rejected} =>
           /\ pieces' # <<>>
           /\ metadata' = MetadataOf(pieces'[1].json)
           /\ Readable(pieces'[1].json)
           /\ position' = 1 + 2 * Len(got')
           /\ refTs' = TsAt(Len(got))'
  BY <1>1, <1>2, <1>4, <1>6, <1>7
<1>10. ReaderOK'
  BY <1>1, <1>2, <1>3, <1>5, <1>8, <1>9 DEF IInv, ReaderOK
<1> QED
  BY <1>3, <1>10 DEF IInv

(* Reading a log event.                                                    *)
LEMMA DecodeNextLogEventInv == IInv /\ DecodeNextLogEvent => IInv'
<1> SUFFICES ASSUME IInv, DecodeNextLogEvent PROVE IInv'
  OBVIOUS
<1>0. PICK G \in Nat : G = Len(got)
  BY DEF IInv, ReaderOK
<1> DEFINE values == pieces[position + 1].values
           event  == [timestamp |-> refTs',
                      message |-> pieces[position + 1].message,
                      values |-> values,
                      attributes |-> ByName(metadata.attributes, values)]
<1>1. /\ position + 2 <= written /\ metadata \notin {None, Rejected}
      /\ refTs' = refTs + pieces[position + 2].delta
      /\ got' = Append(got, event)
      /\ position' = position + 2
      /\ UNCHANGED <<pieces, written, last, logged, metadata>>
  BY DEF DecodeNextLogEvent
<1>2. /\ pieces # <<>>
      /\ metadata = MetadataOf(pieces[1].json)
      /\ position = 1 + 2 * G
      /\ refTs = TsAt(G)
  BY <1>0, <1>1 DEF IInv, ReaderOK
<1>3. PreambleOK' /\ PiecesOK' /\ Declared' = Declared
      /\ \A k : TsAt(k)' = TsAt(k)
  BY <1>1, <1>2, StreamFrame
<1>4. G + 1 \in 1 .. Len(logged)
  <2>1. 1 + 2 * G + 2 <= Len(pieces)
    BY <1>1, <1>2 DEF IInv, ReaderOK, PiecesOK
  <2>2. Len(pieces) <= 2 + 2 * Len(logged) /\ Len(logged) \in Nat
    BY <1>2 DEF IInv, PiecesOK
  <2> QED
    BY <2>1, <2>2
<1>5. /\ position + 1 = 2 * (G + 1) /\ position + 2 = 2 * (G + 1) + 1
      /\ G + 1 - 1 = G
  BY <1>2
<1>6. /\ logged[G + 1].attributes \in [NamesIn(Declared) -> AttributeValues]
      /\ values = Row(Declared, logged[G + 1].attributes)
      /\ pieces[position + 1].message = logged[G + 1].message
      /\ pieces[position + 2].delta = TsAt(G + 1) - TsAt(G)
  BY <1>4, <1>5 DEF IInv, PiecesOK
<1>7. /\ logged[G + 1] \in [timestamp : Int64, message : Messages,
                            attributes : Attributes]
      /\ TsAt(G + 1) = logged[G + 1].timestamp
  BY <1>4, IrStreamAssumption DEF IInv, PiecesOK, TsAt
<1>8. refTs' = logged[G + 1].timestamp /\ refTs' \in Int64
  <2>1. TsAt(G + 1) \in Int /\ TsAt(G) \in Int
    BY <1>2, <1>7, MaxTsAssumption DEF IInv, ReaderOK, Int64, MinTs
  <2> QED
    BY <1>1, <1>2, <1>6, <1>7, <2>1
<1>9. Declared \in Tables /\ metadata.attributes = Declared
  BY <1>2, DeclaredTable DEF IInv, Declared
<1>10. ByName(metadata.attributes, values) = logged[G + 1].attributes
       /\ values \in Rows
  BY <1>6, <1>9, ColumnsReadBack
<1>11. event \in Decoded
  BY <1>6, <1>7, <1>8, <1>10 DEF Decoded
<1>12. /\ got' \in Seq(Decoded) /\ Len(got') = G + 1
       /\ \A k \in 1 .. G : got'[k] = got[k]
       /\ got'[G + 1] = event
  <2> HIDE DEF event
  <2> QED
    BY <1>0, <1>1, <1>11 DEF IInv, ReaderOK
<1>13. TsAt(Len(got))' = TsAt(G + 1)
  BY <1>1, <1>12 DEF TsAt
<1>14. ASSUME NEW k \in 1 .. Len(got')
       PROVE  /\ got'[k].timestamp = logged'[k].timestamp
              /\ got'[k].message = logged'[k].message
              /\ got'[k].values = Row(Declared', logged'[k].attributes)
              /\ got'[k].attributes = logged'[k].attributes
  <2>1. CASE k \in 1 .. G
    BY <1>0, <1>1, <1>3, <1>12, <2>1 DEF IInv, ReaderOK
  <2>2. CASE k = G + 1
    BY <1>1, <1>3, <1>6, <1>8, <1>10, <1>12, <2>2
  <2> QED
    BY <1>12, <2>1, <2>2
<1>15. position' = 1 + 2 * Len(got')
  <2>1. position' = position + 2 /\ position = 1 + 2 * G /\ Len(got') = G + 1
    BY <1>1, <1>2, <1>12
  <2> QED
    BY <2>1
<1>16. Len(got') <= Len(logged')
  BY <1>1, <1>4, <1>12
<1>17. ReaderOK'
  BY <1>1, <1>2, <1>7, <1>8, <1>12, <1>13, <1>14, <1>15, <1>16
  DEF IInv, ReaderOK
<1> QED
  BY <1>3, <1>17 DEF IInv

(* Every step keeps the invariant.                                         *)
LEMMA StepInv == IInv /\ [Next]_vars => IInv'
<1>1. IInv /\ UNCHANGED vars => IInv'
  <2> SUFFICES ASSUME IInv, UNCHANGED vars PROVE IInv'
    OBVIOUS
  <2>1. PreambleOK' /\ PiecesOK' /\ Declared' = Declared
        /\ \A k : TsAt(k)' = TsAt(k)
    BY StreamFrame DEF vars, IInv, PreambleOK
  <2>2. TsAt(Len(got))' = TsAt(Len(got))
    BY DEF vars, TsAt
  <2> QED
    BY <2>1, <2>2 DEF vars, IInv, ReaderOK
<1> QED
  BY <1>1, BeginInv, LogInv, EndInv, WriteInv, DecodePreambleInv,
     DecodeNextLogEventInv
  DEF Next

(* The inductive invariant holds of every state of a behaviour.            *)
LEMMA InvHolds == Spec => []IInv
BY InitInv, StepInv, PTL DEF Spec

-----------------------------------------------------------------------------
(* Theorems.                                                               *)

(* Type correctness: no timestamp the reader adds up overflows, however    *)
(* the reference timestamp was spelt.                                      *)
THEOREM StreamTypeCorrect == Spec => []TypeOK
<1>1. IInv => TypeOK
  <2> SUFFICES ASSUME IInv PROVE TypeOK
    OBVIOUS
  <2>1. metadata \notin {None, Rejected} =>
          metadata \in [refTs : Int64, zone : KnownZones, android : BOOLEAN,
                        attributes : Tables]
    BY JsonReads DEF IInv, PreambleOK, ReaderOK
  <2>2. \A k \in DOMAIN got : got[k].timestamp \in Int64
    <3>1. \A k \in DOMAIN got : got[k] \in Decoded
      BY DEF IInv, ReaderOK
    <3> QED
      BY <3>1 DEF Decoded
  <2> QED
    BY <2>1, <2>2 DEF TypeOK, IInv, PiecesOK, ReaderOK
<1> QED
  BY <1>1, InvHolds, PTL

(* What is read is what was logged, for any tables, deltas and lengths.    *)
THEOREM LoggedIsRead == Spec => []ReadsWhatWasLogged
<1>1. IInv => ReadsWhatWasLogged
  <2> SUFFICES ASSUME IInv PROVE ReadsWhatWasLogged
    OBVIOUS
  <2>1. DOMAIN got = 1 .. Len(got)
    BY DEF IInv, ReaderOK
  <2> QED
    BY <2>1 DEF ReadsWhatWasLogged, IInv, ReaderOK
<1> QED
  BY <1>1, InvHolds, PTL

(* A search by column answers as a match by name, for any query.           *)
THEOREM SearchIsMatch == Spec => []SearchAgreesWithMatch
<1>1. IInv => SearchAgreesWithMatch
  <2> SUFFICES ASSUME IInv, NEW q \in Queries, NEW k \in DOMAIN got
               PROVE  AttributeAnswers(q, ByColumn(metadata.attributes,
                                                   got[k].values))
                        = AttributeAnswers(q, got[k].attributes)
    BY DEF SearchAgreesWithMatch
  <2>1. k \in 1 .. Len(got) /\ k \in 1 .. Len(logged) /\ got # <<>>
    BY DEF IInv, ReaderOK, PiecesOK
  <2>2. pieces # <<>> /\ metadata = MetadataOf(pieces[1].json)
    BY <2>1 DEF IInv, ReaderOK
  <2>3. Declared \in Tables /\ metadata.attributes = Declared
    BY <2>2, DeclaredTable DEF IInv, Declared
  <2>4. /\ got[k].values = Row(Declared, logged[k].attributes)
        /\ got[k].attributes = logged[k].attributes
        /\ logged[k].attributes \in [NamesIn(Declared) -> AttributeValues]
    BY <2>1 DEF IInv, ReaderOK, PiecesOK
  <2>5. ByColumn(metadata.attributes, got[k].values) = got[k].attributes
    BY <2>3, <2>4, ColumnsReadBack
  <2> QED
    BY <2>5
<1> QED
  BY <1>1, InvHolds, PTL

(* Every preamble of the encoder is read, if Python knows its time zone.   *)
THEOREM PreambleIsAccepted == Spec => []PreambleAccepted
<1>1. IInv => PreambleAccepted
  BY DEF IInv, ReaderOK, PreambleAccepted
<1> QED
  BY <1>1, InvHolds, PTL

=============================================================================
