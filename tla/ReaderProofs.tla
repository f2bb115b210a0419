---------------------------- MODULE ReaderProofs ----------------------------
(***************************************************************************)
(* Proofs about Reader, for any stream, any number of generators and any   *)
(* order in which they are advanced: the reader is a client of the decoder *)
(* like any other, so that what holds of the decoder holds under it, it    *)
(* decodes its preamble once, and a search reads all there is for it.      *)
(***************************************************************************)
EXTENDS Reader, DecoderProofs

(* The reader's calls, whoever makes them.                                 *)
LEMMA ReaderCalls ==
  ASSUME allowIncomplete \in BOOLEAN,
         \/ ReadPreamble \/ ReadNextLogEvent \/ BeginLoop
         \/ \E query \in Queries : Advance(query)
  PROVE  \/ CallDecodePreamble /\ ~readerMeta
         \/ \E query \in Queries \cup {NoQuery} :
              CallDecodeNextLogEvent(query, allowIncomplete)
BY DEF ReadPreamble, ReadNextLogEvent, BeginLoop, Advance

(* The reader's steps are the decoder's, or leave the decoder alone.       *)
LEMMA ReaderStepIsDecoderStep ==
  ASSUME allowIncomplete \in BOOLEAN, [ReaderNext]_readVars
  PROVE  [Next]_vars
  <1>1. CASE \/ ReadPreamble \/ ReadNextLogEvent \/ BeginLoop
             \/ \E query \in Queries : Advance(query)
    BY <1>1, ReaderCalls DEF Next, ClientStep
  <1>2. CASE \E query \in Queries : Search(query)
    BY <1>2 DEF Search
  <1>3. CASE ReaderStep \/ ReaderStreamGrows
    BY <1>3 DEF ReaderStep, ReaderStreamGrows, Next
  <1>4. CASE UNCHANGED readVars
    BY <1>4 DEF readVars
  <1> QED BY <1>1, <1>2, <1>3, <1>4 DEF ReaderNext

(* _allow_incomplete_stream is set once.                                   *)
LEMMA AllowIncompleteType == ReaderSpec => [](allowIncomplete \in BOOLEAN)
  <1>1. ReaderInit => allowIncomplete \in BOOLEAN
    BY DEF ReaderInit
  <1>2. ASSUME [ReaderNext]_readVars PROVE UNCHANGED allowIncomplete
    BY <1>2
    DEF ReaderNext, ReadPreamble, ReadNextLogEvent, BeginLoop, Advance,
        Search, ReaderStep, ReaderStreamGrows, Answer, readVars, readerVars
  <1>3. ASSUME allowIncomplete \in BOOLEAN, [ReaderNext]_readVars
        PROVE  (allowIncomplete \in BOOLEAN)'
    BY <1>2, <1>3
  <1> QED BY <1>1, <1>3, PTL DEF ReaderSpec

(* The reader and its generators implement the client of the decoder.      *)
THEOREM ReaderIsDecoderClient == ReaderSpec => Spec
  <1>1. ReaderInit => Init
    BY DEF ReaderInit
  <1> QED
    BY <1>1, ReaderStepIsDecoderStep, AllowIncompleteType, PTL
    DEF ReaderSpec, Spec

(* So the reader and its generators between them get every log event at    *)
(* most once and in the order of the stream.                               *)
THEOREM ReaderDeliversInOrder == ReaderSpec => []DeliveredInOrder
BY ReaderIsDecoderClient, DeliveryInOrder, PTL

(* A search never yields a log event that it was not asked for, whoever    *)
(* read from the buffer in between (ClpIrStreamReader.search).             *)
THEOREM ReaderSearchGivesMatches ==
  ASSUME CopyOrders = {"forward"}
  PROVE  ReaderSpec => []DeliveriesMatch
BY ReaderIsDecoderClient, SearchGivesMatches, PTL

-----------------------------------------------------------------------------
(* The inductive invariant of PreambleReadOnce: an old answer is not taken *)
(* for new metadata.                                                       *)
PreambleOps == {"encoding_type", "preamble"}
RInv ==
  /\ readerMeta <=> hasMetadata
  /\ call.op \in PreambleOps => ~hasMetadata
  /\ ret.kind = "metadata" => hasMetadata

(* What a step of the decoder does about the metadata.                     *)
LEMMA DecoderMetadata ==
  ASSUME call \in Calls, RInv,
         DecoderStep \/ ReadFails
  PROVE  /\ \/ hasMetadata' = hasMetadata
            \/ hasMetadata' /\ call' = Idle /\ ret'.kind = "metadata"
         /\ ret'.kind = "metadata" => hasMetadata'
         /\ call'.op \in PreambleOps => ~hasMetadata'
  <1> USE DEF RInv, PreambleOps
  <1>1. CASE DecodeEncodingType
    BY <1>1
    DEF DecodeEncodingType, RaiseDecodeError, TryRead, Continue, decVars,
        Return, Gave, Idle, Calls
  <1>2. CASE DecodePreamble
    BY <1>2
    DEF DecodePreamble, RaiseDecodeError, TryRead, Continue, decVars,
        Return, Gave, Idle, Calls
  <1>3. CASE DecodeLogEvent
    <2>1. call.op = "log_event" /\ hasMetadata' = hasMetadata
      BY <1>3
      DEF DecodeLogEvent, RaiseDecodeError, TryRead, Continue, decVars
    <2>2. ret' = ret \/ ret'.kind # "metadata"
      <3>1. ASSUME NEW event, NEW ts, FilterLogEvent(event, ts)
            PROVE  ret' = ret \/ ret'.kind # "metadata"
        BY <3>1 DEF FilterLogEvent, ReturnLogEvent, Return, Gave
      <3>2. CASE TryRead
        BY <3>2 DEF TryRead, Continue, decVars, Return, Gave
      <3>3. CASE RaiseDecodeError
        BY <3>3 DEF RaiseDecodeError, Return, Gave
      <3>4. CASE Return(Gave("none"))
        BY <3>4 DEF Return, Gave
      <3> QED BY <1>3, <3>1, <3>2, <3>3, <3>4 DEF DecodeLogEvent
    <2>3. call' = Idle \/ call'.op = "log_event"
      BY <1>3, <2>1
      DEF DecodeLogEvent, RaiseDecodeError, TryRead, Continue, decVars,
          Return, FilterLogEvent, ReturnLogEvent, Calls
    <2> QED BY <2>1, <2>2, <2>3 DEF Idle
  <1>4. CASE ReadReturns \/ ReadFails
    BY <1>4
    DEF ReadReturns, ReadFails, IncompleteAnswer, Continue, decVars, Return,
        Gave, Idle
  <1> QED BY <1>1, <1>2, <1>3, <1>4 DEF DecoderStep

(* The reader knows the metadata when, and only when, the buffer has it,   *)
(* and never decodes a preamble again, whichever of its generators came    *)
(* first and whenever they were created.                                   *)
THEOREM PreambleIsReadOnce == ReaderSpec => []PreambleReadOnce
  <1>1. ReaderInit => RInv
    BY DEF ReaderInit, Init, Gave, Idle, RInv, PreambleOps
  <1>2. ASSUME RInv, DecTypes, allowIncomplete \in BOOLEAN,
               [ReaderNext]_readVars
        PROVE  RInv'
    <2> USE DEF RInv
    <2>1. ASSUME NEW who, Answer(who),
                 \/ CallDecodePreamble /\ ~readerMeta
                 \/ \E query \in Queries \cup {NoQuery} :
                      CallDecodeNextLogEvent(query, allowIncomplete)
          PROVE  RInv'
      <3>1. /\ hasMetadata' = hasMetadata
            /\ ret' = ret \/ ret'.kind = "runtime_error"
            /\ call'.op \in PreambleOps => ~readerMeta
        BY <2>1
        DEF CallDecodePreamble, CallDecodeNextLogEvent, Idle, Return, Gave,
            PreambleOps
      <3>2. readerMeta' <=> readerMeta
                              \/ (call' = Idle /\ ret'.kind = "metadata")
        BY <2>1, Zenon DEF Answer
      <3> QED BY <1>2, <3>1, <3>2
    <2>2. CASE \/ ReadPreamble \/ ReadNextLogEvent \/ BeginLoop
               \/ \E query \in Queries : Advance(query)
      BY <1>2, <2>1, <2>2, ReaderCalls
      DEF ReadPreamble, ReadNextLogEvent, BeginLoop, Advance
    <2>3. CASE ReaderStep
      <3>1. /\ \/ hasMetadata' = hasMetadata
               \/ hasMetadata' /\ call' = Idle /\ ret'.kind = "metadata"
            /\ ret'.kind = "metadata" => hasMetadata'
            /\ call'.op \in PreambleOps => ~hasMetadata'
        BY <1>2, <2>3, DecoderMetadata DEF ReaderStep, DecTypes
      <3>2. readerMeta' <=> readerMeta
                              \/ (call' = Idle /\ ret'.kind = "metadata")
        BY <2>3, Zenon DEF ReaderStep, Answer
      <3> QED BY <1>2, <3>1, <3>2
    <2>4. CASE ReaderStreamGrows \/ UNCHANGED readVars
               \/ \E query \in Queries : Search(query)
      BY <1>2, <2>4
      DEF ReaderStreamGrows, StreamGrows, decVars, readVars, readerVars,
          vars, Search
    <2> QED BY <1>2, <2>2, <2>3, <2>4 DEF ReaderNext
  <1>3. RInv => PreambleReadOnce
    BY DEF RInv, PreambleReadOnce, PreambleOps
  <1> QED
    BY <1>1, <1>2, <1>3, AlwaysDecTypes, ReaderIsDecoderClient,
       AllowIncompleteType, PTL
    DEF ReaderSpec

-----------------------------------------------------------------------------
(* What a search reads, of a stream in the order of time.                  *)

(* The decoder has passed all that the query asks for.                     *)
Exhausted(query) ==
  \/ numDecoded = Index[Len(Units) + 1]
  \/ \E i \in EventUnits : /\ Index[i] < numDecoded
                           /\ TsSafelyOutside(query, Time[i + 1])

(* A query for which nothing is left never has anything left again.        *)
LEMMA StaysExhausted ==
  ASSUME DecTypes, LagInv, LagInv', [Next]_vars, NEW query, Exhausted(query)
  PROVE  Exhausted(query)'
  <1>1. numDecoded' = numDecoded \/ numDecoded' = numDecoded + 1
    BY DeliverySteps DEF Delivers
  <1>2. /\ Len(Units) + 1 \in 1 .. Len(Units) + 1
        /\ Index[Len(Units) + 1] \in Nat
        /\ \A i \in 1 .. Len(Units) + 1 :
             Index[i] \in Nat /\ Index[i] <= Index[Len(Units) + 1]
    BY UnitsAssumption, UnitsOrdered
  <1>3. numDecoded \in Nat /\ numDecoded' <= Index[Len(Units) + 1]
    BY <1>2 DEF LagInv, DecTypes
  <1>4. CASE numDecoded = Index[Len(Units) + 1]
    BY <1>1, <1>2, <1>3, <1>4 DEF Exhausted
  <1>5. ASSUME NEW i \in EventUnits, Index[i] < numDecoded,
               TsSafelyOutside(query, Time[i + 1])
        PROVE  Exhausted(query)'
    <2>1. Index[i] \in Nat
      BY UnitFacts DEF EventUnits
    <2>2. Index[i] < numDecoded'
      BY <1>1, <1>3, <1>5, <2>1
    <2> QED BY <1>5, <2>2 DEF Exhausted, TsSafelyOutside
  <1> QED BY <1>4, <1>5 DEF Exhausted

(* A call that answers None to a client that does not allow incomplete     *)
(* streams leaves nothing for its query.                                   *)
LEMMA NoneIsExhausted ==
  ASSUME InTimeOrder, EofIsLast, DecTypes, BufP!TypeInv, BufP!BytesIntact,
         LagInv, ReadingInCall, DecoderStep \/ ReadFails,
         call' = Idle, ret'.kind = "none", NEW query, query = call.query
  PROVE  /\ call.op = "log_event"
         /\ call.allowIncomplete \/ Exhausted(query)'
  <1>1. PICK j \in 1 .. Len(Units) + 1 :
          At(j) /\ Index[j] = numDecoded /\ LagAt(j)
    BY DEF LagInv
  <1>2. ASSUME call.op # "idle" PROVE ~UNCHANGED call
    BY <1>2 DEF Idle
  <1>3. ASSUME call.op # "idle" PROVE ~TryRead
    BY <1>2, <1>3 DEF TryRead, Continue, decVars, Return, Gave
  <1>4. ~RaiseDecodeError
    BY DEF RaiseDecodeError, Return, Gave
  <1>5. CASE ReadReturns
    <2>1. call.op # "idle"
      BY <1>5 DEF ReadReturns, Buf!ReadReturns, ReadingInCall
    <2>2. ret' = IncompleteAnswer
      BY <1>2, <1>5, <2>1 DEF ReadReturns, Continue, decVars, Return
    <2> QED BY <2>2 DEF IncompleteAnswer, Gave
  <1>6. CASE ReadFails
    BY <1>6 DEF ReadFails, Return, Gave
  <1>7. CASE DecodeEncodingType
    <2>1. call.op # "idle"
      BY <1>7 DEF DecodeEncodingType
    <2>2. \/ call' = [call EXCEPT !.op = "preamble"]
          \/ Return(Gave("not_implemented"))
      BY <1>3, <1>4, <1>7, <2>1 DEF DecodeEncodingType
    <2> QED BY <2>2 DEF Return, Gave, DecTypes, Calls, Idle
  <1>8. CASE DecodePreamble
    <2>1. call.op # "idle"
      BY <1>8 DEF DecodePreamble
    <2>2. \/ Return(Gave("metadata"))
          \/ Return(Gave("runtime_error"))
      BY <1>3, <1>4, <1>8, <2>1 DEF DecodePreamble
    <2> QED BY <2>2 DEF Return, Gave
  <1>9. CASE DecodeLogEvent
    <2>0. call.op = "log_event"
      BY <1>9 DEF DecodeLogEvent
    <2>1. ASSUME NEW i \in DOMAIN Units, Ready(i), Units[i].kind = "eof",
                 UNCHANGED numDecoded
          PROVE  Exhausted(query)'
      <3>1. i = j
        BY <1>1, <2>1, SameConsumedOffset
      <3> QED BY <1>1, <2>1, <3>1 DEF EofIsLast, Exhausted
    <2>2. ASSUME NEW i \in DOMAIN Units, Ready(i), Units[i].kind = "event",
                 ConsumeLogEvent(i),
                 FilterLogEvent(Units[i], call.ts + Units[i].delta)
          PROVE  Exhausted(query)'
      <3> DEFINE ts == call.ts + Units[i].delta
      <3>1. i = j
        BY <1>1, <2>2, SameConsumedOffset
      <3>2. i \in EventUnits /\ Index[i] < numDecoded'
        BY <1>1, <2>2, <3>1
        DEF EventUnits, ConsumeLogEvent, DecTypes
      <3>3. call.query \in Queries /\ TsSafelyOutside(call.query, ts)
        <4>1. call # Idle /\ call' # [call EXCEPT !.ts = ts]
          BY <2>0 DEF Idle, DecTypes, Calls
        <4>2. ~ReturnLogEvent(ts)
          BY DEF ReturnLogEvent, Return
        <4>3. ~Return(Gave("runtime_error"))
          BY DEF Return, Gave
        <4> HIDE DEF ts
        <4>4. call.query # NoQuery /\ TsSafelyOutside(call.query, ts)
          BY <2>2, <4>1, <4>2, <4>3 DEF FilterLogEvent, ts
        <4> QED BY <4>4 DEF DecTypes, Calls
      <3>4. ts <= Time[i + 1]
        <4>1. /\ call.ts <= Time[i] /\ Time[i + 1] = Time[i] + Units[i].delta
              /\ Time[i] \in Int /\ Units[i].delta \in Int
              /\ call.ts \in Int
          BY <1>1, <2>0, <2>2, <3>1, UnitSums, UnitFacts
          DEF LagAt, DecTypes, Calls
        <4> QED BY <4>1
      <3>5. TsSafelyOutside(query, Time[i + 1])
        <4>1. /\ call.query.termination \in Int /\ ts \in Int
              /\ Time[i + 1] \in Int
          BY <3>3, UnitFacts, UnitSums, <2>2, QueriesAssumption
          DEF DecTypes, Calls
        <4> HIDE DEF ts
        <4> QED BY <3>3, <3>4, <4>1 DEF TsSafelyOutside
      <3> QED BY <3>2, <3>5 DEF Exhausted, TsSafelyOutside
    <2> QED
      BY <1>3, <1>4, <1>9, <2>0, <2>1, <2>2 DEF DecodeLogEvent
  <1> QED BY <1>5, <1>6, <1>7, <1>8, <1>9 DEF DecoderStep

(* A call keeps its arguments while the decoder works on it.               *)
LEMMA CallKeepsArguments ==
  ASSUME DecTypes, DecoderStep \/ ReadFails, call'.op = "log_event"
  PROVE  /\ call.op = "log_event"
         /\ call'.query = call.query
         /\ call'.allowIncomplete = call.allowIncomplete
  <1>1. call' # Idle
    BY DEF Idle
  <1>2. \/ UNCHANGED call
        \/ call' = [call EXCEPT !.op = "preamble"]
        \/ /\ call.op = "log_event"
           /\ \E i \in DOMAIN Units :
                call' = [call EXCEPT !.ts = call.ts + Units[i].delta]
    BY <1>1
    DEF DecoderStep, DecodeEncodingType, DecodePreamble, DecodeLogEvent,
        FilterLogEvent, ReturnLogEvent, RaiseDecodeError, TryRead, Continue,
        decVars, ReadReturns, ReadFails, Return
  <1> QED BY <1>2 DEF DecTypes, Calls

(* The state of the searches.                                              *)
SearchInv ==
  /\ searches \in [Queries -> SearchStates]
  /\ caller \in Queries /\ call.op = "log_event"
       => call.query = caller /\ call.allowIncomplete = allowIncomplete
  /\ \A query \in Queries :
       searches[query] = "returned" /\ ~allowIncomplete => Exhausted(query)

(* A generator's call begins, or fails at once.                            *)
LEMMA CallKeepsSearchInv ==
  ASSUME DecTypes, LagInv, LagInv', [Next]_vars, SearchInv,
         NEW who \in Queries \cup {NoQuery}, Answer(who),
         CallDecodePreamble \/ CallDecodeNextLogEvent(who, allowIncomplete)
  PROVE  SearchInv'
  <1>1. /\ call' = Idle => ret'.kind = "runtime_error"
        /\ call'.op = "log_event"
             => call'.query = who /\ call'.allowIncomplete = allowIncomplete
    BY DEF CallDecodePreamble, CallDecodeNextLogEvent, Idle, Return, Gave
  <1>2. /\ searches' = [query \in Queries |->
                          IF query # who THEN searches[query]
                          ELSE IF call' = Idle THEN AfterAnswer(ret'.kind)
                          ELSE "running"]
        /\ allowIncomplete' = allowIncomplete
        /\ caller' \in {who, Nobody}
    BY DEF Answer
  <1>3. AfterAnswer("runtime_error") = "raised"
    BY DEF AfterAnswer, Errors
  <1>4. searches' \in [Queries -> SearchStates]
    BY <1>1, <1>2, <1>3 DEF SearchInv, SearchStates
  <1>5. ASSUME NEW query \in Queries, searches'[query] = "returned",
               ~allowIncomplete
        PROVE  Exhausted(query)'
    <2>1. searches[query] = "returned"
      BY <1>1, <1>2, <1>3, <1>5
    <2> QED BY <1>5, <2>1, StaysExhausted DEF SearchInv
  <1>6. caller' \in Queries => caller' = who
    BY <1>2, NobodyAssumption
  <1> QED BY <1>1, <1>2, <1>4, <1>5, <1>6 DEF SearchInv

(* A generator's call goes on, or returns to it.                           *)
LEMMA StepKeepsSearchInv ==
  ASSUME InTimeOrder, EofIsLast, DecTypes, BufP!TypeInv, BufP!BytesIntact,
         LagInv, LagInv', ReadingInCall, [Next]_vars, SearchInv, ReaderStep
  PROVE  SearchInv'
  <1>1. /\ searches' = [query \in Queries |->
                          IF query # caller THEN searches[query]
                          ELSE IF call' = Idle THEN AfterAnswer(ret'.kind)
                          ELSE "running"]
        /\ allowIncomplete' = allowIncomplete
        /\ caller' \in {caller, Nobody}
        /\ DecoderStep \/ ReadFails
    BY DEF ReaderStep, Answer
  <1>2. \A kind : /\ AfterAnswer(kind) \in SearchStates
                  /\ AfterAnswer(kind) = "returned" => kind = "none"
    BY DEF AfterAnswer, SearchStates, Errors
  <1>3. searches' \in [Queries -> SearchStates]
    BY <1>1, <1>2 DEF SearchInv, SearchStates
  <1>4. ASSUME NEW query \in Queries, searches'[query] = "returned",
               ~allowIncomplete
        PROVE  Exhausted(query)'
    <2>1. CASE searches[query] = "returned" /\ query # caller
      BY <1>4, <2>1, StaysExhausted DEF SearchInv
    <2>2. CASE query = caller
      <3>1. call' = Idle /\ ret'.kind = "none"
        BY <1>1, <1>2, <1>4, <2>2
      <3>2. call.op = "log_event"
        BY <1>1, <3>1, NoneIsExhausted
      <3>3. query = call.query /\ ~call.allowIncomplete
        BY <1>4, <2>2, <3>2 DEF SearchInv
      <3> QED BY <1>1, <3>1, <3>3, NoneIsExhausted
    <2> QED BY <1>1, <1>4, <2>1, <2>2
  <1>5. ASSUME caller' \in Queries, call'.op = "log_event"
        PROVE  /\ call'.query = caller'
               /\ call'.allowIncomplete = allowIncomplete'
    <2>1. caller' = caller
      BY <1>1, <1>5, NobodyAssumption
    <2>2. /\ call.op = "log_event"
          /\ call'.query = call.query
          /\ call'.allowIncomplete = call.allowIncomplete
      BY <1>1, <1>5, CallKeepsArguments
    <2> QED BY <1>1, <1>5, <2>1, <2>2 DEF SearchInv
  <1> QED BY <1>1, <1>3, <1>4, <1>5 DEF SearchInv

(* Every step of the reader keeps the state of the searches.               *)
LEMMA NextSearchInv ==
  ASSUME InTimeOrder, EofIsLast, DecTypes, BufP!TypeInv, BufP!BytesIntact,
         LagInv, LagInv', ReadingInCall, [Next]_vars, SearchInv,
         [ReaderNext]_readVars
  PROVE  SearchInv'
  <1>1. CASE ReadPreamble \/ ReadNextLogEvent
    BY <1>1, CallKeepsSearchInv DEF ReadPreamble, ReadNextLogEvent
  <1>2. CASE BeginLoop \/ \E query \in Queries : Advance(query)
    BY <1>2, CallKeepsSearchInv DEF BeginLoop, Advance
  <1>3. ASSUME NEW query \in Queries, Search(query) PROVE SearchInv'
    <2>1. /\ searches' = [searches EXCEPT ![query] = "created"]
          /\ UNCHANGED <<call, numDecoded, allowIncomplete, caller>>
      BY <1>3 DEF Search, vars
    <2> QED
      BY <2>1 DEF SearchInv, SearchStates, Exhausted, TsSafelyOutside
  <1>4. CASE ReaderStep
    BY <1>4, StepKeepsSearchInv
  <1>5. CASE ReaderStreamGrows \/ UNCHANGED readVars
    <2>1. UNCHANGED <<call, numDecoded, allowIncomplete, caller, searches>>
      BY <1>5
      DEF ReaderStreamGrows, StreamGrows, decVars, readVars, vars,
          readerVars
    <2> QED BY <2>1 DEF SearchInv, Exhausted, TsSafelyOutside
  <1> QED BY <1>1, <1>2, <1>3, <1>4, <1>5 DEF ReaderNext

(* A search that ends without an exception on a reader that does not allow *)
(* incomplete streams has read all there is for its query, on a stream     *)
(* written in the order of time (ClpIrStreamReader.search): whoever read   *)
(* from the buffer in between, and though timestamps may lag where deltas  *)
(* were lost.                                                              *)
THEOREM SearchesReadAll ==
  ASSUME CopyOrders = {"forward"}, EofIsLast
  PROVE  ReaderSpec => []SearchReadsAll
  <1> DEFINE SInv == LagInv /\ ReadingInCall /\ SearchInv
             Base == /\ DecTypes /\ BufP!TypeInv /\ BufP!BytesIntact
                     /\ allowIncomplete \in BOOLEAN
             Ordered == InTimeOrder => SInv
  <1>1. ReaderSpec => []BufP!BytesIntact
    BY AlwaysBytesIntact, ReaderIsDecoderClient, PTL
  <1>2. ReaderInit => Ordered
    <2> SUFFICES ASSUME ReaderInit PROVE SInv
      OBVIOUS
    <2>1. LagInv
      BY InitLagInv DEF ReaderInit
    <2>2. ReadingInCall
      BY DEF ReaderInit, Init, Buf!Init, ReadingInCall
    <2>3. SearchInv
      BY NobodyAssumption DEF ReaderInit, SearchInv, SearchStates
    <2> QED BY <2>1, <2>2, <2>3
  <1>3. Ordered /\ Base /\ [ReaderNext]_readVars => Ordered'
    <2> SUFFICES ASSUME SInv, Base, [ReaderNext]_readVars, InTimeOrder
                 PROVE  SInv'
      OBVIOUS
    <2>1. [Next]_vars
      BY ReaderStepIsDecoderStep
    <2>2. LagInv' /\ ReadingInCall'
      BY <2>1, NextLagInv, NextReadingInCall
    <2> QED BY <2>1, <2>2, NextSearchInv
  <1>4. Ordered => SearchReadsAll
    BY DEF SearchInv, SearchReadsAll, Exhausted
  <1>5. ReaderSpec => []Base
    BY <1>1, AlwaysDecTypes, AlwaysBufferInv, AllowIncompleteType,
       ReaderIsDecoderClient, PTL
  <1> QED BY <1>2, <1>3, <1>4, <1>5, PTL DEF ReaderSpec

-----------------------------------------------------------------------------
(* A client that searches, and resumes whatever failed but a search.       *)
CarefulClient == ResumesAfterSearch = FALSE \/ Queries = {}

NoneEnded == \A query \in Queries : searches[query] \notin Ended

(* Who is running: a call in progress is its caller's, and nobody runs     *)
(* once a search has ended.                                                *)
CallerInv ==
  /\ searches \in [Queries -> SearchStates]
  /\ caller = Nobody => call = Idle
  /\ call.op = "log_event" => call.query = caller
  /\ caller # Nobody => NoneEnded

(* A careful client uses the reader only while no search has ended.        *)
LEMMA CarefulUse ==
  ASSUME CarefulClient, MayUse
  PROVE  NoneEnded
BY DEF CarefulClient, MayUse, NoneEnded

(* Without a call in progress, the decoder's steps begin none.             *)
LEMMA IdleStays ==
  ASSUME call = Idle, DecoderStep \/ ReadFails
  PROVE  call' = Idle
BY DEF DecoderStep, DecodeEncodingType, DecodePreamble, DecodeLogEvent,
       ReadReturns, ReadFails, Continue, decVars, Return, Idle

(* What a call of who does to the searches.                                *)
LEMMA CallKeepsCallerInv ==
  ASSUME DecTypes, CallerInv, NoneEnded, NEW who \in Queries \cup {NoQuery},
         Answer(who),
         \/ CallDecodePreamble
         \/ \E allow : CallDecodeNextLogEvent(who, allow)
  PROVE  CallerInv'
  <1>1. \/ call'.op = "encoding_type" /\ call' # Idle
        \/ call'.op = "log_event" /\ call'.query = who /\ call' # Idle
        \/ call' = Idle /\ ret'.kind = "runtime_error"
    BY DEF CallDecodePreamble, CallDecodeNextLogEvent, Return, Gave, Idle
  <1>2. /\ call' # Idle => caller' = who
        /\ call' = Idle /\ ret'.kind = "runtime_error" => caller' = Nobody
        /\ searches' = [query \in Queries |->
                          IF query # who THEN searches[query]
                          ELSE IF call' = Idle THEN AfterAnswer(ret'.kind)
                          ELSE "running"]
    BY DEF Answer
  <1>3. \A kind : AfterAnswer(kind) \in SearchStates
    BY DEF AfterAnswer, SearchStates
  <1>4. searches' \in [Queries -> SearchStates]
    BY <1>2, <1>3 DEF CallerInv, SearchStates
  <1>5. who # Nobody
    BY NobodyAssumption
  <1>6. CASE call' # Idle
    <2>1. NoneEnded'
      BY <1>2, <1>6 DEF NoneEnded, Ended
    <2> QED BY <1>1, <1>2, <1>4, <1>5, <1>6, <2>1 DEF CallerInv
  <1>7. CASE call' = Idle /\ ret'.kind = "runtime_error"
    <2>1. call'.op # "log_event"
      BY <1>7 DEF Idle
    <2> QED BY <1>2, <1>4, <1>7, <2>1 DEF CallerInv
  <1> QED BY <1>1, <1>6, <1>7

(* What a step of the decoder does to them.                                *)
LEMMA StepKeepsCallerInv ==
  ASSUME DecTypes, CallerInv, ReaderStep
  PROVE  CallerInv'
  <1>1. /\ DecoderStep \/ ReadFails
        /\ searches' = [query \in Queries |->
                          IF query # caller THEN searches[query]
                          ELSE IF call' = Idle THEN AfterAnswer(ret'.kind)
                          ELSE "running"]
        /\ caller' = IF call' = Idle /\ ~(/\ ret'.kind = "metadata"
                                          /\ caller \in Queries)
                     THEN Nobody ELSE caller
    BY DEF ReaderStep, Answer
  <1>2. \A kind : AfterAnswer(kind) \in SearchStates
    BY DEF AfterAnswer, SearchStates
  <1>3. searches' \in [Queries -> SearchStates]
    BY <1>1, <1>2 DEF CallerInv, SearchStates
  <1>4. caller' = Nobody => call' = Idle
    BY <1>1, IdleStays DEF CallerInv
  <1>5. ASSUME call'.op = "log_event" PROVE call'.query = caller'
    <2>1. call' # Idle
      BY <1>5 DEF Idle
    <2>2. call.op = "log_event" /\ call'.query = call.query
      BY <1>1, <1>5, CallKeepsArguments
    <2> QED BY <1>1, <2>1, <2>2 DEF CallerInv
  <1>6. ASSUME caller' # Nobody PROVE NoneEnded'
    <2>1. caller' = caller /\ NoneEnded
      BY <1>1, <1>6 DEF CallerInv
    <2>2. \A query \in Queries : searches'[query] \in
            {searches[query], "running", AfterAnswer("metadata")}
      BY <1>1, <1>6
    <2> QED BY <2>1, <2>2 DEF NoneEnded, Ended, AfterAnswer, Errors
  <1> QED BY <1>3, <1>4, <1>5, <1>6 DEF CallerInv

LEMMA NextCallerInv ==
  ASSUME CarefulClient, DecTypes, CallerInv, [ReaderNext]_readVars
  PROVE  CallerInv'
  <1>1. CASE ReadPreamble \/ ReadNextLogEvent
    BY <1>1, CarefulUse, CallKeepsCallerInv
    DEF ReadPreamble, ReadNextLogEvent
  <1>2. ASSUME NEW query \in Queries, Advance(query) PROVE CallerInv'
    BY <1>2, CarefulUse, CallKeepsCallerInv DEF Advance
  <1>3. CASE BeginLoop
    <2>1. caller # Nobody
      BY <1>3, NobodyAssumption DEF BeginLoop
    <2> QED
      BY <1>3, <2>1, CallKeepsCallerInv DEF BeginLoop, CallerInv
  <1>4. ASSUME NEW query \in Queries, Search(query) PROVE CallerInv'
    <2>1. /\ searches' = [searches EXCEPT ![query] = "created"]
          /\ UNCHANGED <<call, caller>> /\ caller = Nobody
      BY <1>4 DEF Search, vars
    <2> QED BY <2>1 DEF CallerInv, SearchStates
  <1>5. CASE ReaderStep
    BY <1>5, StepKeepsCallerInv
  <1>6. CASE ReaderStreamGrows \/ UNCHANGED readVars
    <2>1. UNCHANGED <<call, caller, searches>>
      BY <1>6
      DEF ReaderStreamGrows, StreamGrows, decVars, readVars, vars,
          readerVars
    <2> QED BY <2>1 DEF CallerInv, NoneEnded
  <1> QED BY <1>1, <1>2, <1>3, <1>4, <1>5, <1>6 DEF ReaderNext

(* While no search has ended, the reference timestamp is right, but for    *)
(* the call of a search in progress.                                       *)
ReaderClock ==
  \E i \in 1 .. Len(Units) + 1 :
    /\ At(i) /\ Index[i] = numDecoded /\ CallClockAt(i)
    /\ (call.op # "log_event" \/ call.query = NoQuery) /\ NoneEnded
         => ClockAt(i)

(* A search that has ended stays so.                                       *)
LEMMA NoneEndedBefore ==
  ASSUME CarefulClient, CallerInv, [ReaderNext]_readVars, NoneEnded'
  PROVE  NoneEnded
  <1>1. CASE \/ ReadPreamble \/ ReadNextLogEvent
             \/ \E query \in Queries : Advance(query)
    BY <1>1, CarefulUse DEF ReadPreamble, ReadNextLogEvent, Advance
  <1>2. CASE caller # Nobody
    BY <1>2 DEF CallerInv
  <1>3. CASE BeginLoop
    BY <1>2, <1>3, NobodyAssumption DEF BeginLoop
  <1>4. CASE ReaderStep /\ caller = Nobody
    <2>1. \A query \in Queries : searches'[query] = searches[query]
      BY <1>4, NobodyAssumption DEF ReaderStep, Answer
    <2> QED BY <2>1 DEF NoneEnded
  <1>5. ASSUME NEW query \in Queries, Search(query) PROVE NoneEnded
    BY <1>5 DEF Search, NoneEnded, CallerInv, Ended
  <1>6. CASE ReaderStreamGrows \/ UNCHANGED readVars
    BY <1>6
    DEF ReaderStreamGrows, readVars, readerVars, NoneEnded
  <1> QED BY <1>1, <1>2, <1>3, <1>4, <1>5, <1>6 DEF ReaderNext

(* The timestamps of a careful client's reader move with the position.     *)
LEMMA NextReaderClock ==
  ASSUME CarefulClient, allowIncomplete \in BOOLEAN, DecTypes,
         BufP!TypeInv, BufP!BytesIntact, TimestampsExact, CallerInv,
         ReaderClock, [ReaderNext]_readVars
  PROVE  ReaderClock' /\ TimestampsExact'
  <1>1. PICK j \in 1 .. Len(Units) + 1 :
          /\ At(j) /\ Index[j] = numDecoded /\ CallClockAt(j)
          /\ (call.op # "log_event" \/ call.query = NoQuery) /\ NoneEnded
               => ClockAt(j)
    BY DEF ReaderClock
  <1>2. ASSUME MayCall, call' # Idle PROVE ClockAt(j)
    <2>1. call = Idle /\ call.op # "log_event"
      BY <1>2 DEF MayCall, Idle
    <2>2. ~ReaderStep
      BY <1>2, <2>1, IdleStays DEF ReaderStep
    <2>3. ~(ReaderStreamGrows \/ UNCHANGED readVars
              \/ \E query \in Queries : Search(query))
      BY <1>2, <2>1
      DEF ReaderStreamGrows, StreamGrows, decVars, readVars, vars, Search
    <2>4. NoneEnded
      <3>1. CASE \/ ReadPreamble \/ ReadNextLogEvent
                 \/ \E query \in Queries : Advance(query)
        BY <3>1, CarefulUse DEF ReadPreamble, ReadNextLogEvent, Advance
      <3>2. CASE BeginLoop
        BY <3>2, NobodyAssumption DEF BeginLoop, CallerInv
      <3> QED BY <2>2, <2>3, <3>1, <3>2 DEF ReaderNext
    <2> QED BY <1>1, <2>1, <2>4
  <1>3. PICK k : TimestampsExact' /\ ClockMoves(j, k)
    <2>1. [Next]_vars
      BY ReaderStepIsDecoderStep
    <2> QED BY <1>1, <1>2, <2>1, ClockStep
  <1>4. ASSUME call'.op # "log_event" \/ call'.query = NoQuery, NoneEnded'
        PROVE  ClockAt(k)'
    <2>1. NoneEnded
      BY <1>4, NoneEndedBefore
    <2>2. CASE call.op # "log_event" \/ call.query = NoQuery
      BY <1>1, <1>3, <2>1, <2>2 DEF ClockMoves
    <2>3. CASE call.op = "log_event" /\ call.query # NoQuery
      <3>1. caller \in Queries /\ caller = call.query
        BY <2>3 DEF CallerInv, DecTypes, Calls
      <3>2. ~MayCall
        BY <2>3 DEF MayCall, Idle
      <3>3. ReaderStep \/ UNCHANGED call
        BY <3>2
        DEF ReaderNext, ReadPreamble, ReadNextLogEvent, Advance, BeginLoop,
            CallDecodePreamble, CallDecodeNextLogEvent, Search,
            ReaderStreamGrows, StreamGrows, decVars, readVars, vars
      <3>4. call'.op # "log_event"
        <4>1. CASE ReaderStep
          BY <1>4, <2>3, <4>1, CallKeepsArguments DEF ReaderStep
        <4> QED BY <1>4, <2>3, <3>3, <4>1
      <3>5. ~Stops
        <4>1. SUFFICES ASSUME Stops PROVE FALSE
          OBVIOUS
        <4>2. call' = Idle /\ ret'.kind \in {"none"} \cup Errors
          BY <4>1, StopsFacts
        <4>3. ReaderStep
          BY <2>3, <3>3, <3>4
        <4>4. searches'[caller] = AfterAnswer(ret'.kind)
          BY <3>1, <4>2, <4>3 DEF ReaderStep, Answer
        <4>5. AfterAnswer(ret'.kind) \in Ended
          BY <4>2 DEF AfterAnswer, Ended, Errors
        <4>6. caller \in Queries /\ searches'[caller] \in Ended
          BY <3>1, <4>4, <4>5
        <4> QED BY <1>4, <4>6 DEF NoneEnded
      <3> QED BY <1>3, <2>3, <3>4, <3>5 DEF ClockMoves
    <2> QED BY <2>2, <2>3
  <1> QED BY <1>3, <1>4 DEF ClockMoves, ReaderClock

(* A careful client is always given right timestamps.                      *)
LEMMA AlwaysReaderClock ==
  ASSUME CopyOrders = {"forward"}, CarefulClient
  PROVE  ReaderSpec => [](ReaderClock /\ TimestampsExact)
  <1> DEFINE RCInv == ReaderClock /\ TimestampsExact /\ CallerInv
             Base == /\ DecTypes /\ BufP!TypeInv /\ BufP!BytesIntact
                     /\ allowIncomplete \in BOOLEAN
  <1>1. ReaderSpec => []BufP!BytesIntact
    BY AlwaysBytesIntact, ReaderIsDecoderClient, PTL
  <1>2. ReaderSpec => []Base
    BY <1>1, AlwaysDecTypes, AlwaysBufferInv, AllowIncompleteType,
       ReaderIsDecoderClient, PTL
  <1>3. ReaderInit => RCInv
    <2> SUFFICES ASSUME ReaderInit PROVE RCInv
      OBVIOUS
    <2>1. ReaderClock
      BY StartsAtFirst
      DEF ReaderInit, Init, ReaderClock, CallClockAt, ClockAt, Idle
    <2>2. TimestampsExact
      BY DEF ReaderInit, Init, TimestampsExact
    <2>3. CallerInv
      BY DEF ReaderInit, Init, Idle, CallerInv, SearchStates
    <2> QED BY <2>1, <2>2, <2>3
  <1>4. RCInv /\ Base /\ [ReaderNext]_readVars => RCInv'
    BY NextReaderClock, NextCallerInv
  <1> QED BY <1>2, <1>3, <1>4, PTL DEF ReaderSpec

(* A client that resumes its iteration after None or an error, and that    *)
(* uses the reader no more once a search has ended, is given every log     *)
(* event with the timestamp it was logged at (decode, set_ref_timestamp).  *)
THEOREM CarefulTimestampsExact ==
  ASSUME CopyOrders = {"forward"}, CarefulClient
  PROVE  ReaderSpec => []TimestampsExact
  <1>1. ReaderSpec => [](ReaderClock /\ TimestampsExact)
    BY AlwaysReaderClock
  <1> QED BY <1>1, PTL

(* For such a client the reader and its generators implement the stream of *)
(* log events, by turns and however often reading fails: a log event that  *)
(* was asked for is never skipped, and None is answered only when none is  *)
(* left, for queries whose margin is as large as the disorder.             *)
THEOREM ReaderImplementsStream ==
  ASSUME CopyOrders = {"forward"}, 0 < InitCap, CarefulClient, EofIsLast,
         NEW d \in Nat, Disorder(d), MarginsAtLeast(d), TimesFit
  PROVE  ReaderSpec => ImplementsLogEventStream
  <1>1. ReaderSpec => [](ReaderClock /\ TimestampsExact)
    BY AlwaysReaderClock
  <1>2. ReaderClock => CallClockInv
    BY DEF ReaderClock, CallClockInv
  <1>3. Spec /\ []CallClockInv => ImplementsLogEventStream
    BY MarginIsEnough, ExactCallsRefine
  <1> QED BY <1>1, <1>2, <1>3, ReaderIsDecoderClient, PTL

=============================================================================
