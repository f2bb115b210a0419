------------------------------- MODULE Reader -------------------------------
(***************************************************************************)
(* ClpIrStreamReader (readers.py): one reader over one DecoderBuffer, with *)
(* its own iteration and any number of search generators, all of them      *)
(* sharing the buffer and the reader's _metadata.                          *)
(*                                                                         *)
(* The body of a generator runs when it is advanced: it may be created     *)
(* before the preamble is read, by itself or by anyone else.  Generators   *)
(* are named by their queries, one for each.                               *)
(***************************************************************************)
EXTENDS Decoder

CONSTANTS
  Nobody,             \* no code of the reader is running
  ResumesAfterSearch  \* whether the client uses the reader after a search
                      \* that has ended

ASSUME NobodyAssumption == Nobody \notin Queries \cup {NoQuery}
ASSUME ResumesAssumption == ResumesAfterSearch \in BOOLEAN

VARIABLES
  readerMeta,       \* _metadata is set
  allowIncomplete,  \* _allow_incomplete_stream
  caller,           \* whose call of the decoder is in progress: NoQuery for
                    \* the reader's own, the query for a generator's
  searches          \* searches[query]: state of the generator

readerVars == <<readerMeta, allowIncomplete, caller, searches>>
readVars == <<vars, readerVars>>

SearchStates == {"none", "created", "running", "suspended", "returned",
                 "raised"}
Ended == {"returned", "raised"}

ReaderInit ==
  /\ Init
  /\ readerMeta = FALSE
  /\ allowIncomplete \in BOOLEAN
  /\ caller = Nobody
  /\ searches = [query \in Queries |-> "none"]

-----------------------------------------------------------------------------
(* What a generator does with the answer of decode_next_log_event: it      *)
(* yields the log event, returns at None, and lets an error through.  With *)
(* the metadata it goes on.                                                *)
AfterAnswerLooping(kind) ==  \* mutant: None does not end the loop
  CASE kind = "event" -> "suspended"
    [] kind \in Errors -> "raised"
    [] OTHER -> "running"
AfterAnswer(kind) ==
  CASE kind = "event" -> "suspended"
    [] kind = "none" -> "returned"
    [] kind \in Errors -> "raised"
    [] OTHER -> "running"

(* A step for who, in a call or between two calls: when the call returns,  *)
(* who gets the answer, and the metadata becomes the reader's.             *)
Answer(who) ==
  LET returns  == call' = Idle
      metadata == returns /\ ret'.kind = "metadata"
  IN  /\ readerMeta' = (readerMeta \/ metadata)
      /\ caller' = IF returns /\ ~(metadata /\ who \in Queries)
                   THEN Nobody ELSE who
      /\ searches' = [query \in Queries |->
                        IF query # who THEN searches[query]
                        ELSE IF returns THEN AfterAnswer(ret'.kind)
                        ELSE "running"]
      /\ UNCHANGED allowIncomplete

(* The client uses the reader, or a generator of it.                       *)
MayUse ==
  /\ caller = Nobody
  /\ ResumesAfterSearch \/ \A query \in Queries : searches[query] \notin Ended

(* read_preamble, from __iter__, __enter__ or by the client: it returns at *)
(* once if the reader has the metadata.                                    *)
ReadPreamble ==
  /\ MayUse
  /\ ~readerMeta
  /\ CallDecodePreamble
  /\ Answer(NoQuery)

(* read_next_log_event, which __next__ calls.                              *)
ReadNextLogEvent ==
  /\ MayUse
  /\ CallDecodeNextLogEvent(NoQuery, allowIncomplete)
  /\ Answer(NoQuery)

(* search creates a generator and runs nothing of it.                      *)
Search(query) ==
  /\ caller = Nobody
  /\ searches[query] = "none"
  /\ searches' = [searches EXCEPT ![query] = "created"]
  /\ UNCHANGED vars
  /\ UNCHANGED <<readerMeta, allowIncomplete, caller>>

(* The client advances a generator: it starts, or goes on after its yield. *)
AdvanceUnchecked(query) ==  \* mutant: it starts with the preamble anyway
  /\ MayUse
  /\ \/ searches[query] = "created" /\ CallDecodePreamble
     \/ /\ searches[query] = "suspended"
        /\ CallDecodeNextLogEvent(query, allowIncomplete)
  /\ Answer(query)
Advance(query) ==
  /\ MayUse
  /\ \/ searches[query] = "created" /\ ~readerMeta /\ CallDecodePreamble
     \/ /\ \/ searches[query] = "created" /\ readerMeta
           \/ searches[query] = "suspended"
        /\ CallDecodeNextLogEvent(query, allowIncomplete)
  /\ Answer(query)

(* The generator that read the preamble goes on to its loop.               *)
BeginLoop ==
  /\ caller \in Queries
  /\ CallDecodeNextLogEvent(caller, allowIncomplete)
  /\ Answer(caller)

(* The decoder works for its caller, or the stream grows.                  *)
ReaderStep == (DecoderStep \/ ReadFails) /\ Answer(caller)
ReaderStreamGrows == StreamGrows /\ UNCHANGED readerVars

ReaderNext ==
  \/ ReadPreamble \/ ReadNextLogEvent
  \/ \E query \in Queries : Search(query) \/ Advance(query)
  \/ BeginLoop \/ ReaderStep \/ ReaderStreamGrows

ReaderSpec == ReaderInit /\ [][ReaderNext]_readVars

(* The code of the reader runs to its next yield or return; its client     *)
(* keeps on asking for log events and advancing its generators; the writer *)
(* finishes the stream, and reading or allocating do not fail for ever.    *)
ReaderFairSpec ==
  /\ ReaderSpec
  /\ WF_vars(StreamGrows)
  /\ SF_vars(ReadNextLogEvent)
  /\ \A query \in Queries : SF_vars(Advance(query))
  /\ WF_vars(BeginLoop)
  /\ WF_vars(DecoderStep \/ ReadFails)
  /\ SF_vars(DecodeLogEvent /\ reading')
  /\ SF_vars(ReadReturns /\ status' = "ok")

-----------------------------------------------------------------------------
(* Properties.                                                             *)

(* Whoever reads the preamble first, the reader itself or a generator      *)
(* created before, the reader knows the metadata when, and only when, the  *)
(* buffer has it, and the preamble is never decoded again: a second        *)
(* decode_preamble would consume bytes and raise.                          *)
PreambleReadOnce ==
  /\ readerMeta <=> hasMetadata
  /\ call.op \in {"encoding_type", "preamble"} => ~hasMetadata

(* On a stream written in the order of time, a search that ends without an *)
(* exception, on a reader that does not allow incomplete streams, has      *)
(* reached the end of the stream or a log event safely past its range,     *)
(* whoever read the log events in between, however often reading failed    *)
(* and however many deltas were lost with the calls that failed: the       *)
(* timestamps a search sees may lag, and they never run ahead.             *)
SearchReadsAll ==
  InTimeOrder =>
    \A query \in Queries :
      searches[query] = "returned" /\ ~allowIncomplete =>
        \/ numDecoded = Index[Len(Units) + 1]
        \/ \E i \in EventUnits : /\ Index[i] < numDecoded
                                 /\ TsSafelyOutside(query, Time[i + 1])

(* A search that the client keeps advancing ends, also when others read    *)
(* from the same buffer in between.                                        *)
SearchEnds ==
  \A query \in Queries :
    searches[query] = "created" ~> searches[query] \in Ended

=============================================================================
