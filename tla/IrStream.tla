------------------------------ MODULE IrStream ------------------------------
(***************************************************************************)
(* A stream from end to end: a logger encodes a preamble and log events    *)
(* with FourByteEncoder (encoding_methods.cpp), writes the pieces one by   *)
(* one, and a reader decodes them while it does (decoding_methods.cpp).    *)
(*                                                                         *)
(* A piece is what a call of the encoder returns, or part of it; the bytes *)
(* of pieces and the buffer between stream and reader are modelled in      *)
(* Decoder.  The encoder keeps no state: the logger keeps the timestamp    *)
(* that the next delta is taken from, as the encoder's documentation says. *)
(* The encoder of this repository writes no attributes: the logger of an   *)
(* Android stream puts their values before the message by its own means.   *)
(***************************************************************************)
EXTENDS Metadata

CONSTANTS
  DeltaMax,        \* the largest delta of the four-byte encoding
  Zones,           \* time zone ids that a logger writes
  AndroidNames,    \* the attributes of encode_android_preamble, in order
  ForeignTables,   \* attribute tables of other encoders
  Messages,
  AttributeValues,
  LogCalls,        \* what the logger is given to log
  Queries,         \* queries on attributes
  NumLogEvents     \* how many log events are logged at most

Tables == {<<>>, AndroidNames} \union ForeignTables

Attributes ==
  UNION { [NamesIn(table) -> AttributeValues] : table \in Tables }

Rejected == [kind |-> "rejected"]  \* decode_preamble has raised

ASSUME IrStreamAssumption ==
  /\ DeltaMax \in 0 .. MaxTs
  /\ None # Rejected
  /\ None \notin Int \union Zones \union Tables \union {"format", "version"}
  /\ None \notin [refTs : Int64, zone : Zones, android : BOOLEAN,
                  attributes : Tables]
  /\ \A table \in Tables : table \in Seq(NamesIn(table)) /\ Distinct(table)
  /\ LogCalls \subseteq [timestamp : Int64, message : Messages,
                         attributes : Attributes]
  /\ NumLogEvents \in Nat

VARIABLES
  pieces,    \* the pieces the logger has encoded
  written,   \* how many of them it has written to the stream
  last,      \* the timestamp the next delta is taken from
  logged,    \* history: the log events encoded
  position,  \* the number of pieces the reader has consumed
  metadata,  \* what decode_preamble returned, None before, or that it raised
  refTs,     \* m_ref_timestamp of the decoder buffer
  got        \* history: the log events decoded

vars == <<pieces, written, last, logged, position, metadata, refTs, got>>

-----------------------------------------------------------------------------
(* The encoder.                                                            *)

(* encode_preamble and encode_android_preamble: the reference timestamp    *)
(* becomes a string of digits, with its sign.                              *)
PreambleJson(refTimestamp, zone, version, attributes) ==
  [refTs |-> refTimestamp, format |-> "format", zone |-> zone,
   version |-> version, attributes |-> attributes]
EncodePreamble(refTimestamp, zone) ==
  PreambleJson(refTimestamp, zone, None, None)
EncodeAndroidPreamble(refTimestamp, zone) ==
  PreambleJson(refTimestamp, zone, "version", AndroidNames)

(* Another encoder may spell the reference timestamp as an unsigned        *)
(* integer, and declare other attributes.                                  *)
ForeignPreamble(refTimestamp, zone, table) ==
  PreambleJson(IF refTimestamp < 0 THEN refTimestamp + UnsignedMax + 1
               ELSE refTimestamp,
               zone, "version", table)

(* A delta is parsed as epoch_time_ms_t, and encodes in four bytes.        *)
DeltaEncodesParsed(delta) == delta \in Int64  \* mutant: whatever the encoding
DeltaEncodes(delta) ==
  delta \in Int64 /\ delta \in -DeltaMax - 1 .. DeltaMax
FourBytes(delta) ==
  IF delta > DeltaMax THEN delta - 2 * (DeltaMax + 1)
  ELSE IF delta < -DeltaMax - 1 THEN delta + 2 * (DeltaMax + 1)
  ELSE delta

(* The values of a log event's attributes, in the columns of the table.    *)
Row(table, attributes) == [k \in DOMAIN table |-> attributes[table[k]]]

(* encode_message, with the values that the logger puts before it, and     *)
(* encode_timestamp_delta; encode_message_and_timestamp_delta returns both.*)
EncodeMessage(values, message) ==
  [kind |-> "message", values |-> values, message |-> message]
EncodeTimestampDelta(delta) == [kind |-> "delta", delta |-> FourBytes(delta)]
EncodeMessageAndTimestampDelta(values, message, delta) ==
  << EncodeMessage(values, message), EncodeTimestampDelta(delta) >>
EncodeEndOfIr == [kind |-> "eof"]

-----------------------------------------------------------------------------
(* The logger.                                                             *)

(* It begins the stream, at a reference timestamp it chooses.              *)
Begin ==
  /\ pieces = <<>>
  /\ \E ts \in Int64, zone \in Zones :
       /\ last' = ts
       /\ \E json \in {EncodePreamble(ts, zone),
                       EncodeAndroidPreamble(ts, zone)}
                \union {ForeignPreamble(ts, zone, t) : t \in ForeignTables} :
            pieces' = << [kind |-> "preamble", json |-> json] >>
  /\ UNCHANGED <<written, logged, position, metadata, refTs, got>>

(* The attributes the preamble declares, and whether the stream has ended. *)
Declared == MetadataOf(pieces[1].json).attributes
Open == pieces # <<>> /\ pieces[Len(pieces)].kind # "eof"

(* It logs an event, in one call of the encoder or in two, whose pieces    *)
(* then wait together to be written: Write takes them one at a time, and   *)
(* the reader reads in between.  If the encoder raises, there is nothing   *)
(* to write, and the next delta is taken from the same event.              *)
Log ==
  /\ Open
  /\ Len(logged) < NumLogEvents
  /\ \E call \in LogCalls :
       /\ DOMAIN call.attributes = NamesIn(Declared)
       /\ DeltaEncodes(call.timestamp - last)
       /\ pieces' = pieces \o EncodeMessageAndTimestampDelta(
                       Row(Declared, call.attributes), call.message,
                       call.timestamp - last)
       /\ last' = call.timestamp
       /\ logged' = Append(logged, call)
  /\ UNCHANGED <<written, position, metadata, refTs, got>>

End ==
  /\ Open
  /\ pieces' = Append(pieces, EncodeEndOfIr)
  /\ UNCHANGED <<written, last, logged, position, metadata, refTs, got>>

Write ==
  /\ written < Len(pieces)
  /\ written' = written + 1
  /\ UNCHANGED <<pieces, last, logged, position, metadata, refTs, got>>

-----------------------------------------------------------------------------
(* The reader.                                                             *)

(* decode_preamble.                                                        *)
DecodePreamble ==
  /\ metadata = None
  /\ 1 <= written
  /\ LET json == pieces[1].json
     IN  \/ /\ Readable(json)
            /\ metadata' = MetadataOf(json)
            /\ refTs' = metadata'.refTs
         \/ /\ ~Readable(json)
            /\ metadata' = Rejected
            /\ UNCHANGED refTs
  /\ position' = 1
  /\ UNCHANGED <<pieces, written, last, logged, got>>

(* decode_next_log_event, without a query, once both pieces of a log event *)
(* are there.  The values stay as they are in the stream, for a search.    *)
DecodeOnNextPiece ==  \* mutant: a log event waits for what follows it
  /\ position + 2 < written
  /\ metadata \notin {None, Rejected}
  /\ refTs' = refTs + pieces[position + 2].delta
  /\ got' = Append(got,
       [timestamp |-> refTs', message |-> pieces[position + 1].message,
        values |-> pieces[position + 1].values,
        attributes |-> ByName(metadata.attributes,
                              pieces[position + 1].values)])
  /\ position' = position + 2
  /\ UNCHANGED <<pieces, written, last, logged, metadata>>
DecodeNextLogEvent ==
  /\ position + 2 <= written
  /\ metadata \notin {None, Rejected}
  /\ refTs' = refTs + pieces[position + 2].delta
  /\ got' = Append(got,
       [timestamp |-> refTs', message |-> pieces[position + 1].message,
        values |-> pieces[position + 1].values,
        attributes |-> ByName(metadata.attributes,
                              pieces[position + 1].values)])
  /\ position' = position + 2
  /\ UNCHANGED <<pieces, written, last, logged, metadata>>

-----------------------------------------------------------------------------

Init ==
  /\ pieces = <<>> /\ written = 0
  /\ last = 0 /\ logged = <<>>
  /\ position = 0 /\ metadata = None /\ refTs = 0
  /\ got = <<>>

Next ==
  \/ Begin \/ Log \/ End \/ Write
  \/ DecodePreamble \/ DecodeNextLogEvent

Spec == Init /\ [][Next]_vars

-----------------------------------------------------------------------------
(* Properties.                                                             *)

(* Every variable has its type: in particular no timestamp overflows, in   *)
(* whichever way the reference timestamp was spelt and whatever deltas the *)
(* reader added to it.                                                     *)
TypeOK ==
  /\ written \in 0 .. Len(pieces)
  /\ last \in Int64
  /\ logged \in Seq(LogCalls)
  /\ metadata \notin {None, Rejected} =>
       metadata \in [refTs : Int64, zone : KnownZones, android : BOOLEAN,
                     attributes : Tables]
  /\ refTs \in Int64
  /\ \A k \in DOMAIN got : got[k].timestamp \in Int64

(* What is read are the log events that were logged, each at its own time  *)
(* and with its own attributes, from the first on: encoding, the deltas,   *)
(* the reference timestamp in JSON and the attribute table lose nothing.   *)
ReadsWhatWasLogged ==
  /\ Len(got) <= Len(logged)
  /\ \A k \in DOMAIN got :
       /\ got[k].timestamp = logged[k].timestamp
       /\ got[k].message = logged[k].message
       /\ got[k].attributes = logged[k].attributes

(* A search, which looks attributes up by column, answers for every log    *)
(* event as the query does for the LogEvent object, by name                *)
(* (matches_decoded_attributes and matches_attributes).                    *)
SearchAgreesWithMatch ==
  \A q \in Queries, k \in DOMAIN got :
    AttributeAnswers(q, ByColumn(metadata.attributes, got[k].values))
      = AttributeAnswers(q, got[k].attributes)

(* decode_preamble fails only for a time zone that Python does not know:   *)
(* every reference timestamp the encoder takes is read back.               *)
PreambleAccepted ==
  metadata = Rejected => pieces[1].json.zone \notin KnownZones

(* Liveness.  The logger writes what it encodes, and the reader's client   *)
(* asks again until it has the next log event.                             *)
FairSpec == Spec /\ WF_vars(Write) /\ WF_vars(DecodePreamble)
                 /\ WF_vars(DecodeNextLogEvent)

(* Every log event is read in the end, before the next one is logged if    *)
(* need be, and though the stream is never ended.                          *)
EverythingLoggedIsRead ==
  \A n \in 1 .. NumLogEvents :
    Len(logged) >= n ~> Len(got) >= n \/ metadata = Rejected

=============================================================================
