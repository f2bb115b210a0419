------------------------------- MODULE Decoder -------------------------------
(***************************************************************************)
(* The decoding methods (decoding_methods.cpp) over one DecoderBuffer:     *)
(* decode_preamble and decode_next_log_event, as called by a client on a   *)
(* stream that may still be written to.                                    *)
(*                                                                         *)
(* The stream is a sequence of units: the magic number that names the      *)
(* encoding, the preamble, the log events and the end-of-stream tag.  The  *)
(* parsing of one unit's bytes is not part of the repository: a unit       *)
(* decodes once all its bytes are in the buffer.                           *)
(***************************************************************************)
EXTENDS Integers, Sequences, FiniteSets, Query

CONSTANTS
  InitCap,        \* initial capacity of the decoder buffer
  CopyOrders,     \* orders in which memcpy may move bytes (DecoderBuffer)
  Units,          \* the units of the complete stream
  Start,          \* Start[i]: offset of unit i
  Index,          \* Index[i]: number of log events before unit i
  Time,           \* Time[i]: timestamp of the last log event before unit i
  RefTs,          \* reference timestamp in the preamble's metadata
  Queries,        \* the queries the client searches with
  NoQuery,        \* the absent query
  ClientResumes   \* whether the client calls again after None or an error

UnitKinds == {"magic4", "magic8", "preamble", "bad_preamble",
              "event", "bad_attributes", "corrupt", "eof"}

EventUnits == {i \in DOMAIN Units : Units[i].kind = "event"}

ASSUME BufferAssumption ==
  /\ InitCap \in Nat
  /\ CopyOrders # {} /\ CopyOrders \subseteq {"forward", "backward"}

ASSUME UnitsAssumption ==
  /\ Len(Units) \in Nat
  /\ DOMAIN Units = 1 .. Len(Units)
  /\ \A i \in 1 .. Len(Units) :
       /\ Units[i].kind \in UnitKinds
       /\ Units[i].len \in Nat \ {0}
       /\ Units[i].delta \in Int

(* Start, Index and Time are the running sums of the lengths, of the log   *)
(* events and of the timestamp deltas of the units, with one entry more    *)
(* for the end of the stream.                                              *)
ASSUME LayoutAssumption ==
  /\ Start \in [1 .. Len(Units) + 1 -> Nat]
  /\ Index \in [1 .. Len(Units) + 1 -> Nat]
  /\ Time \in [1 .. Len(Units) + 1 -> Int]
  /\ Start[1] = 0 /\ Index[1] = 0 /\ Time[1] = RefTs
  /\ \A i \in 1 .. Len(Units) :
       /\ Start[i + 1] = Start[i] + Units[i].len
       /\ Index[i + 1] = Index[i] + (IF i \in EventUnits THEN 1 ELSE 0)
       /\ Time[i + 1]
            = Time[i] + (IF i \in EventUnits THEN Units[i].delta ELSE 0)

ASSUME RefTsAssumption == RefTs \in Timestamps
ASSUME QueriesAssumption ==
  \A q \in Queries : ValidRange(q.lower, q.upper) /\ q.termination \in Int
ASSUME NoQueryAssumption == NoQuery \notin Queries
ASSUME ClientAssumption == ClientResumes \in BOOLEAN

StreamLen == Start[Len(Units) + 1]

VARIABLES
  mem, cap, bufSize, numConsumed, protocolEnabled, reading, streamPos,
  avail, status,  \* the buffer: see DecoderBuffer
  hasMetadata,    \* m_metadata is set
  refTs,          \* m_ref_timestamp
  numDecoded,     \* m_num_decoded_message
  call,           \* the call in progress, with decode's locals
  ret,            \* what the last call gave its caller
  delivered       \* history: the log events returned so far

Buf == INSTANCE DecoderBuffer

decVars == <<hasMetadata, refTs, numDecoded, call, ret, delivered>>
bufVars == <<mem, cap, bufSize, numConsumed, protocolEnabled, reading,
             streamPos, avail, status>>
vars == <<mem, cap, bufSize, numConsumed, protocolEnabled, reading,
          streamPos, avail, status, hasMetadata, refTs, numDecoded, call,
          ret, delivered>>

-----------------------------------------------------------------------------
Idle == [op |-> "idle", query |-> NoQuery, allowIncomplete |-> FALSE,
         ts |-> 0]
Gave(kind) == [kind |-> kind, idx |-> 0, ts |-> 0]

Errors == {"incomplete_error", "runtime_error", "not_implemented",
           "io_error", "no_memory"}

Init ==
  /\ Buf!Init
  /\ hasMetadata = FALSE
  /\ refTs = 0
  /\ numDecoded = 0
  /\ call = Idle
  /\ ret = Gave("nothing")
  /\ delivered = <<>>

(* A client that does not resume stops at the first None or error, as a    *)
(* for loop over the reader does.                                          *)
MayCall ==
  /\ call = Idle
  /\ ClientResumes \/ ret.kind \in {"nothing", "metadata", "event"}

Return(answer) ==
  /\ call' = Idle
  /\ ret' = answer

(* The call goes on, with nothing of the decoder's own state changed.      *)
Continue == UNCHANGED decVars

-----------------------------------------------------------------------------
(* The units whose first byte is the first unconsumed byte: none if the    *)
(* buffer is drained.                                                      *)
FrontUnits ==
  {i \in DOMAIN Units :
     Buf!NumUnconsumed > 0 /\ Start[i] = mem[numConsumed]}

(* The first n unconsumed bytes are consecutive bytes of the stream.       *)
Consecutive(n) ==
  \A k \in 0 .. n - 1 : mem[numConsumed + k] = mem[numConsumed] + k

(* Unit i is at the front with all its bytes.                              *)
Ready(i) ==
  /\ i \in FrontUnits
  /\ Units[i].len <= Buf!NumUnconsumed
  /\ Consecutive(Units[i].len)

(* A decoding function asks for more bytes: it sees less than a unit.      *)
Incomplete ==
  \/ Buf!NumUnconsumed = 0
  \/ \E i \in FrontUnits : Buf!NumUnconsumed < Units[i].len

(* It finds bytes that are no unit of those kinds.                         *)
Malformed(kinds) ==
  /\ Buf!NumUnconsumed > 0
  /\ ~ \E i \in FrontUnits :
         /\ Units[i].kind \in kinds
         /\ Units[i].len <= Buf!NumUnconsumed => Ready(i)

-----------------------------------------------------------------------------
(* try_read, made by whichever loop finds the buffer incomplete: the read  *)
(* begins, or the buffer cannot grow and the call fails.                   *)
TryRead ==
  \/ Buf!BeginRead /\ Continue
  \/ /\ Buf!GrowFails
     /\ Return(Gave("no_memory"))
     /\ UNCHANGED <<hasMetadata, refTs, numDecoded, delivered>>

(* What a call answers when the stream has no byte to give.                *)
IncompleteAnswer ==
  IF call.op = "log_event" /\ call.allowIncomplete
  THEN Gave("none") ELSE Gave("incomplete_error")

(* readinto returns: the loop goes on if it brought bytes.                 *)
ReadReturnsRetrying ==  \* mutant: try_read does not look at the byte count
  /\ \E n \in 0 .. StreamLen : Buf!ReadReturns(n)
  /\ Continue
ReadReturns ==
  /\ \E n \in 0 .. StreamLen : Buf!ReadReturns(n)
  /\ IF status' = "incomplete"
     THEN /\ Return(IncompleteAnswer)
          /\ UNCHANGED <<hasMetadata, refTs, numDecoded, delivered>>
     ELSE Continue

(* readinto fails: so does the call, whatever allow_incomplete_stream is.  *)
(* The stream's own error is taken to be another than the                  *)
(* IncompleteStreamError of this library, which, raised by readinto, would *)
(* be taken for the stream's end.                                          *)
ReadFailsAsEnd ==  \* mutant: any failed read is taken for the stream's end
  /\ Buf!ReadFails
  /\ Return(Gave("none"))
  /\ UNCHANGED <<hasMetadata, refTs, numDecoded, delivered>>
ReadFails ==
  /\ Buf!ReadFails
  /\ Return(Gave("io_error"))
  /\ UNCHANGED <<hasMetadata, refTs, numDecoded, delivered>>

(* The decoding function's error is raised and nothing is consumed.        *)
RaiseDecodeError ==
  /\ Return(Gave("runtime_error"))
  /\ UNCHANGED <<hasMetadata, refTs, numDecoded, delivered>>
  /\ UNCHANGED bufVars

-----------------------------------------------------------------------------
CallDecodePreamble ==
  /\ MayCall
  /\ call' = [Idle EXCEPT !.op = "encoding_type"]
  /\ UNCHANGED <<hasMetadata, refTs, numDecoded, ret, delivered>>
  /\ UNCHANGED bufVars

(* decode_preamble's first loop: the magic number is consumed before the   *)
(* rest of the preamble is known to be there.                              *)
DecodeEncodingType ==
  /\ call.op = "encoding_type"
  /\ ~reading
  /\ \/ /\ \E i \in DOMAIN Units :
             /\ Ready(i)
             /\ Buf!Commit(Units[i].len)
             /\ \/ /\ Units[i].kind = "magic4"
                   /\ call' = [call EXCEPT !.op = "preamble"]
                   /\ UNCHANGED ret
                \/ /\ Units[i].kind = "magic8"
                   /\ Return(Gave("not_implemented"))
        /\ UNCHANGED <<hasMetadata, refTs, numDecoded, delivered>>
     \/ Malformed({"magic4", "magic8"}) /\ RaiseDecodeError
     \/ Incomplete /\ TryRead

(* decode_preamble's second loop, the parse of the metadata and            *)
(* metadata_init: the bytes are consumed before either can fail.           *)
DecodePreamble ==
  /\ call.op = "preamble"
  /\ ~reading
  /\ \/ /\ \E i \in DOMAIN Units :
             /\ Ready(i)
             /\ Buf!Commit(Units[i].len)
             /\ \/ /\ Units[i].kind = "preamble"
                   /\ ~hasMetadata
                   /\ hasMetadata' = TRUE
                   /\ refTs' = RefTs
                   /\ Return(Gave("metadata"))
                \/ /\ \/ Units[i].kind = "bad_preamble"
                      \/ Units[i].kind = "preamble" /\ hasMetadata
                   /\ Return(Gave("runtime_error"))
                   /\ UNCHANGED <<hasMetadata, refTs>>
        /\ UNCHANGED <<numDecoded, delivered>>
     \/ Malformed({"preamble", "bad_preamble"}) /\ RaiseDecodeError
     \/ Incomplete /\ TryRead

-----------------------------------------------------------------------------
(* decode_next_log_event, up to the loop of decode, which works on a copy  *)
(* of the reference timestamp.                                             *)
CallDecodeNextLogEvent(query, allowIncomplete) ==
  /\ MayCall
  /\ IF hasMetadata
     THEN /\ call' = [op |-> "log_event", query |-> query,
                      allowIncomplete |-> allowIncomplete, ts |-> refTs]
          /\ UNCHANGED ret
     ELSE Return(Gave("runtime_error"))
  /\ UNCHANGED <<hasMetadata, refTs, numDecoded, delivered>>
  /\ UNCHANGED bufVars

(* decode leaves its loop with a log event: only here is the reference     *)
(* timestamp updated.                                                      *)
ReturnWithoutRefTs(ts) ==  \* mutant: the reference timestamp is not updated
  /\ UNCHANGED refTs
  /\ Return([kind |-> "event", idx |-> numDecoded, ts |-> ts])
  /\ delivered' = Append(delivered,
                         [idx |-> numDecoded, ts |-> ts,
                          query |-> call.query])
ReturnPrevious(ts) ==  \* mutant: the index is off by one
  /\ refTs' = ts
  /\ Return([kind |-> "event", idx |-> numDecoded - 1, ts |-> ts])
  /\ delivered' = Append(delivered,
                         [idx |-> numDecoded - 1, ts |-> ts,
                          query |-> call.query])
ReturnLogEvent(ts) ==
  /\ refTs' = ts
  /\ Return([kind |-> "event", idx |-> numDecoded, ts |-> ts])
  /\ delivered' = Append(delivered,
                         [idx |-> numDecoded, ts |-> ts,
                          query |-> call.query])

(* The decoded log event against the query of the call.                    *)
FilterAtPrevious(event, ts) ==  \* mutant: tested before the delta is added
  IF call.query # NoQuery => Matches(call.query, call.ts, event)
  THEN ReturnLogEvent(ts)
  ELSE /\ IF TsSafelyOutside(call.query, call.ts)
          THEN Return(Gave("none"))
          ELSE call' = [call EXCEPT !.ts = ts] /\ UNCHANGED ret
       /\ UNCHANGED <<refTs, delivered>>
FilterLogEvent(event, ts) ==
  \/ /\ call.query = NoQuery
     /\ ReturnLogEvent(ts)
  \/ /\ call.query # NoQuery
     /\ TsSafelyOutside(call.query, ts)
     /\ Return(Gave("none"))
     /\ UNCHANGED <<refTs, delivered>>
  \/ /\ call.query # NoQuery
     /\ ~TsSafelyOutside(call.query, ts)
     /\ \/ /\ "match" \in Answers(call.query, ts, event)
           /\ ReturnLogEvent(ts)
        \/ /\ "mismatch" \in Answers(call.query, ts, event)
           /\ call' = [call EXCEPT !.ts = ts]
           /\ UNCHANGED <<refTs, ret, delivered>>
        \/ /\ "unknown_name" \in Answers(call.query, ts, event)
           /\ Return(Gave("runtime_error"))
           /\ UNCHANGED <<refTs, delivered>>

(* A whole log event is counted and its bytes are consumed.                *)
ConsumeUncounted(i) ==  \* mutant: the count is left alone
  /\ Buf!Commit(Units[i].len)
  /\ UNCHANGED numDecoded
ConsumeUncommitted(i) ==  \* mutant: the bytes stay in the buffer
  /\ Buf!Commit(0)
  /\ numDecoded' = numDecoded + 1
ConsumeLogEvent(i) ==
  /\ Buf!Commit(Units[i].len)
  /\ numDecoded' = numDecoded + 1

(* One pass of decode's loop: a log event is consumed before it is         *)
(* filtered; the end-of-stream tag is never consumed.                      *)
DecodeLogEvent ==
  /\ call.op = "log_event"
  /\ ~reading
  /\ \/ /\ \E i \in DOMAIN Units :
             /\ Ready(i)
             /\ Units[i].kind = "event"
             /\ ConsumeLogEvent(i)
             /\ FilterLogEvent(Units[i], call.ts + Units[i].delta)
        /\ UNCHANGED hasMetadata
     \/ /\ \E i \in DOMAIN Units : Ready(i) /\ Units[i].kind = "eof"
        /\ Return(Gave("none"))
        /\ UNCHANGED <<hasMetadata, refTs, numDecoded, delivered>>
        /\ UNCHANGED bufVars
     \/ /\ \E i \in DOMAIN Units :
             Ready(i) /\ Units[i].kind = "bad_attributes"
        /\ RaiseDecodeError
     \/ Malformed({"event", "bad_attributes", "eof"}) /\ RaiseDecodeError
     \/ Incomplete /\ TryRead

StreamGrows ==
  /\ \E n \in 1 .. StreamLen : Buf!StreamGrows(n)
  /\ UNCHANGED decVars

-----------------------------------------------------------------------------
DecoderStep ==
  DecodeEncodingType \/ DecodePreamble \/ DecodeLogEvent \/ ReadReturns

ClientStep ==
  \/ CallDecodePreamble
  \/ \E query \in Queries \cup {NoQuery}, allowIncomplete \in BOOLEAN :
       CallDecodeNextLogEvent(query, allowIncomplete)

Next == ClientStep \/ DecoderStep \/ ReadFails \/ StreamGrows

Spec == Init /\ [][Next]_vars

-----------------------------------------------------------------------------
(* How many log events end at or before an offset of the stream.           *)
EventsWithin(offset) ==
  Cardinality({i \in EventUnits : Start[i + 1] <= offset})

(* The log events of the stream, each with the timestamp it was logged at. *)
Events ==
  [k \in 1 .. Cardinality(EventUnits) |->
     LET i == CHOOSE i \in EventUnits : Index[i] = k - 1
     IN  [ts |-> Time[i + 1], message |-> Units[i].message,
          attributes |-> Units[i].attributes]]

(* No log event of the stream was logged before the one written before it. *)
InTimeOrder == \A i \in EventUnits : Units[i].delta >= 0

(* Every field of the decoder has its type.                                *)
TypeOK ==
  /\ Buf!TypeOK
  /\ hasMetadata \in BOOLEAN
  /\ refTs \in Int
  /\ numDecoded \in Nat
  /\ call \in [op : {"idle", "encoding_type", "preamble", "log_event"},
               query : Queries \cup {NoQuery}, allowIncomplete : BOOLEAN,
               ts : Int]
  /\ ret \in [kind : {"nothing", "metadata", "event", "none"} \cup Errors,
              idx : Nat, ts : Int]
  /\ delivered \in Seq([idx : Nat, ts : Int, query : Queries \cup {NoQuery}])

(* Whatever mixture of reads, failures and None answers came before, the   *)
(* decoder stands at the beginning of a unit, and the index it will give   *)
(* to the next log event is the number of log events before that unit      *)
(* (get_and_increment_decoded_message_count against the bytes committed).  *)
IndexIsPosition ==
  \E i \in 1 .. Len(Units) + 1 :
    /\ Start[i] = Buf!ConsumedOffset
    /\ Index[i] = numDecoded

(* No log event is returned twice or out of order, across calls, queries   *)
(* and generators that share the buffer.                                   *)
DeliveredInOrder ==
  /\ \A j, k \in DOMAIN delivered :
       j < k => delivered[j].idx < delivered[k].idx
  /\ \A k \in DOMAIN delivered : delivered[k].idx < numDecoded

(* Every log event is returned with the timestamp it was logged at (decode *)
(* and set_ref_timestamp).                                                 *)
TimestampsExact ==
  \A k \in DOMAIN delivered :
    \E i \in EventUnits :
      /\ Index[i] = delivered[k].idx
      /\ Time[i + 1] = delivered[k].ts

(* A search gives only what it asked for, whoever read from the buffer in  *)
(* between and with whatever timestamps: the log event at the index it     *)
(* returned matches its query at the timestamp it returned (decode).       *)
DeliveriesMatch ==
  \A k \in DOMAIN delivered :
    delivered[k].query # NoQuery =>
      \E i \in EventUnits :
        /\ Index[i] = delivered[k].idx
        /\ Matches(delivered[k].query, delivered[k].ts, Units[i])

(* The decoder asks for more room only while a unit is incomplete, so the  *)
(* buffer stays within its initial capacity or four of the longest units,  *)
(* however long the stream is.                                             *)
MemoryBounded ==
  \/ cap <= InitCap
  \/ \E i \in DOMAIN Units : cap <= 4 * Units[i].len - 6

(* decode_next_log_event implements a filtered reader of the log events    *)
(* written so far: no matching log event is skipped, and None means that   *)
(* nothing is left that the request asks for.                              *)
Stream ==
  INSTANCE LogEventStream WITH
    published <- EventsWithin(avail),
    next <- numDecoded,
    request <- IF call.op = "log_event" THEN {call.query} ELSE {},
    answer <- IF ret.kind \in {"event", "none"}
              THEN ret ELSE [kind |-> "other", idx |-> 0, ts |-> 0]
ImplementsLogEventStream == Stream!SSpec

-----------------------------------------------------------------------------
(* What the calls of decoding methods have left to use up: bytes of the    *)
(* stream to read, bytes to consume, and a read to begin.                  *)
CallBudget ==
  2 * (StreamLen - streamPos) + (StreamLen - Buf!ConsumedOffset)
    + (IF reading THEN 0 ELSE 1)

(* No call loops forever, however the stream answers its reads: a step of  *)
(* a call that does not end the call uses up some of the budget, which     *)
(* nothing fills up again but the end of a call (the loops of              *)
(* decode_preamble and decode, and try_read).                              *)
CallsProgress ==
  [][/\ DecoderStep \/ ReadFails
          => call' = Idle \/ CallBudget' \in 0 .. CallBudget - 1
     /\ CallBudget' > CallBudget => call' = Idle]_vars

(* Liveness.  A call runs to its end without waiting for its caller, and   *)
(* readinto returns or raises: the steps of a call are weakly fair.        *)
FairSpec == Spec /\ WF_vars(DecoderStep \/ ReadFails)

(* No call loops forever: every pass of its loops consumes a log event,    *)
(* reads a byte or returns.                                                *)
EveryCallReturns == call.op # "idle" ~> call.op = "idle"

(* A client that tails the stream, under the fairness of Reader, reads     *)
(* every log event once it has the metadata, whatever failed or was        *)
(* incomplete in between.                                                  *)
TailReaderCatchesUp ==
  hasMetadata ~> numDecoded = Index[Len(Units) + 1]

=============================================================================
