---------------------------- MODULE DecoderProofs ----------------------------
(***************************************************************************)
(* Theorems about Decoder for every stream, capacity, set of queries and   *)
(* schedule.  The decoder is first shown to be a client of its buffer, so  *)
(* that what DecoderBufferProofs proves of the buffer holds of it too.     *)
(***************************************************************************)
EXTENDS Decoder, FiniteSetTheorems, TLAPS

BufP == INSTANCE DecoderBufferProofs

-----------------------------------------------------------------------------
(* The layout of the stream.                                               *)
LEMMA StreamLenType == StreamLen \in Nat
  BY UnitsAssumption, LayoutAssumption DEF StreamLen

(* Where a unit begins and ends.                                           *)
LEMMA UnitFacts ==
  ASSUME NEW i \in DOMAIN Units
  PROVE  /\ i \in 1 .. Len(Units) + 1
         /\ i + 1 \in 1 .. Len(Units) + 1
         /\ Units[i].len \in Nat \ {0}
         /\ Units[i].delta \in Int
         /\ Start[i] \in Nat
         /\ Start[i + 1] = Start[i] + Units[i].len
         /\ Index[i] \in Nat
         /\ Time[i] \in Int
  BY UnitsAssumption, LayoutAssumption

(* What a unit adds to the log events and to the time.                     *)
LEMMA UnitSums ==
  ASSUME NEW i \in DOMAIN Units
  PROVE  /\ Units[i].kind = "event"
              => /\ Index[i + 1] = Index[i] + 1
                 /\ Time[i + 1] = Time[i] + Units[i].delta
         /\ Units[i].kind # "event"
              => Index[i + 1] = Index[i] /\ Time[i + 1] = Time[i]
  BY UnitsAssumption, LayoutAssumption DEF EventUnits

(* Every non-empty set of naturals has a least element: the intervals      *)
(* 0 .. n are ordered by strict inclusion, which is well-founded.          *)
LEMMA LeastNatural ==
  ASSUME NEW T, T \subseteq Nat, T # {}
  PROVE  \E n \in T : \A m \in T : n <= m
  <1> DEFINE R == StrictSubsetOrdering(Nat)
             I == {0 .. n : n \in T}
  <1>1. IsWellFoundedOn(R, FiniteSubsetsOf(Nat))
    BY FS_StrictSubsetOrderingWellFounded
  <1>2. I \subseteq FiniteSubsetsOf(Nat) /\ I # {}
    <2>1. ASSUME NEW n \in T PROVE 0 .. n \in FiniteSubsetsOf(Nat)
      BY FS_Interval DEF FiniteSubsetsOf
    <2> QED BY <2>1
  <1> HIDE DEF R, I
  <1>3. PICK s \in I : \A r \in I : <<r, s>> \notin R
    BY <1>1, <1>2, WFMin
  <1> USE DEF R, I
  <1>4. PICK n \in T : s = 0 .. n
    BY <1>3
  <1>5. ASSUME NEW m \in T, m < n PROVE FALSE
    <2>1. 0 .. m \in I /\ 0 .. m \subseteq Nat /\ s \subseteq Nat
      BY <1>4
    <2>2. 0 .. m \subseteq s /\ 0 .. m # s
      BY <1>4, <1>5
    <2> QED BY <1>3, <2>1, <2>2 DEF StrictSubsetOrdering
  <1> QED BY <1>5

(* Induction on the units of the stream: what holds of the first and is    *)
(* handed on by each holds of all, and of the end.                         *)
LEMMA UnitInduction ==
  ASSUME NEW S, 1 \in S, \A i \in DOMAIN Units : i \in S => i + 1 \in S
  PROVE  1 .. Len(Units) + 1 \subseteq S
  <1> DEFINE T == {i \in 1 .. Len(Units) + 1 : i \notin S}
  <1>1. Len(Units) \in Nat /\ DOMAIN Units = 1 .. Len(Units)
    BY UnitsAssumption
  <1>2. CASE T # {}
    <2>1. T \subseteq Nat
      BY <1>1
    <2>2. PICK n \in T : \A m \in T : n <= m
      BY <1>2, <2>1, LeastNatural
    <2>3. n # 1 /\ n - 1 \in DOMAIN Units /\ n - 1 \notin T
      BY <1>1, <2>2
    <2>4. n - 1 \in S /\ (n - 1) + 1 = n
      BY <1>1, <2>3
    <2> QED BY <2>3, <2>4
  <1> QED BY <1>2

(* Units are in the order of their offsets.                                *)
LEMMA StartsIncrease ==
  ASSUME NEW i \in 1 .. Len(Units) + 1, NEW j \in 1 .. Len(Units) + 1,
         i < j
  PROVE  Start[i] < Start[j]
  <1> DEFINE S == {k \in 1 .. Len(Units) + 1 : i < k => Start[i] < Start[k]}
  <1>1. i \in Nat /\ Start[i] \in Nat /\ Len(Units) \in Nat
    <2>1. i \in Nat /\ Len(Units) \in Nat
      BY UnitsAssumption
    <2>2. Start[i] \in Nat
      BY LayoutAssumption
    <2> QED BY <2>1, <2>2
  <1>2. 1 \in S
    BY <1>1
  <1>3. ASSUME NEW k \in DOMAIN Units, k \in S PROVE k + 1 \in S
    <2>1. /\ k + 1 \in 1 .. Len(Units) + 1 /\ k \in Nat
          /\ Units[k].len \in Nat \ {0} /\ Start[k] \in Nat
          /\ Start[k + 1] = Start[k] + Units[k].len
      BY UnitFacts
    <2>2. i < k + 1 => i < k \/ i = k
      BY <1>1, <2>1
    <2> QED BY <1>1, <1>3, <2>1, <2>2
  <1> HIDE DEF S
  <1>4. j \in S
    BY <1>2, <1>3, UnitInduction
  <1> QED BY <1>4 DEF S

(* Units begin at different offsets.                                       *)
LEMMA StartInjective ==
  ASSUME NEW i \in 1 .. Len(Units) + 1, NEW j \in 1 .. Len(Units) + 1,
         Start[i] = Start[j]
  PROVE  i = j
  <1>1. Start[i] \in Nat /\ Start[j] \in Nat
    BY UnitsAssumption, LayoutAssumption
  <1>2. ~(i < j) /\ ~(j < i)
    BY <1>1, StartsIncrease
  <1> QED BY <1>2, UnitsAssumption

-----------------------------------------------------------------------------
(* The definitions reached through the instance of the buffer are those of *)
(* the module its theorems are proved in.                                  *)
LEMMA SameTypeOK == Buf!TypeOK <=> BufP!TypeOK
  BY DEF BufP!TypeOK, Buf!TypeOK, BufP!Outcomes, Buf!Outcomes

(* populate_read_buffer before readinto.                                   *)
LEMMA SameBeginRead == Buf!BeginRead <=> BufP!BeginRead
  BY DEF Buf!BeginRead, BufP!BeginRead, Buf!MustGrow, BufP!MustGrow,
         Buf!Grown, BufP!Grown, Buf!Shifted, BufP!Shifted,
         Buf!NumUnconsumed, BufP!NumUnconsumed, Buf!Uninit, BufP!Uninit

(* populate_read_buffer without memory.                                    *)
LEMMA SameGrowFails == Buf!GrowFails <=> BufP!GrowFails
  BY DEF Buf!GrowFails, BufP!GrowFails, Buf!MustGrow, BufP!MustGrow,
         Buf!NumUnconsumed, BufP!NumUnconsumed

(* readinto returning.                                                     *)
LEMMA SameReadReturns ==
  ASSUME NEW n PROVE Buf!ReadReturns(n) <=> BufP!ReadReturns(n)
  BY DEF Buf!ReadReturns, BufP!ReadReturns, Buf!ReadSizes, BufP!ReadSizes,
         Buf!ViewSize, BufP!ViewSize

(* readinto failing.                                                       *)
LEMMA SameReadFails == Buf!ReadFails <=> BufP!ReadFails
  BY DEF Buf!ReadFails, BufP!ReadFails

(* commit_read_buffer_consumption.                                         *)
LEMMA SameCommit ==
  ASSUME NEW n PROVE Buf!Commit(n) <=> BufP!Commit(n)
  BY DEF Buf!Commit, BufP!Commit, Buf!NumUnconsumed, BufP!NumUnconsumed

(* The writer of the stream.                                               *)
LEMMA SameStreamGrows ==
  ASSUME NEW n PROVE Buf!StreamGrows(n) <=> BufP!StreamGrows(n)
  BY DEF Buf!StreamGrows, BufP!StreamGrows

-----------------------------------------------------------------------------
(* What the steps of a call do to the buffer: a unit is consumed whole, a  *)
(* read begins, or nothing.                                                *)
Consumes(i) == Ready(i) /\ Buf!Commit(Units[i].len)

(* The loops of decode_preamble and decode.                                *)
LEMMA CallSteps ==
  ASSUME DecodeEncodingType \/ DecodePreamble \/ DecodeLogEvent
  PROVE  \/ \E i \in DOMAIN Units : Consumes(i)
         \/ Incomplete /\ Buf!BeginRead
         \/ Buf!GrowFails
         \/ UNCHANGED bufVars
  BY DEF DecodeEncodingType, DecodePreamble, DecodeLogEvent, Consumes,
         ConsumeLogEvent, TryRead, RaiseDecodeError

(* Every step of the decoder, as the buffer sees it.                       *)
LEMMA BufferSteps ==
  ASSUME [Next]_vars
  PROVE  \/ \E i \in DOMAIN Units : Consumes(i)
         \/ Incomplete /\ Buf!BeginRead
         \/ Buf!GrowFails
         \/ \E n \in 0 .. StreamLen : Buf!ReadReturns(n)
         \/ Buf!ReadFails
         \/ \E n \in 1 .. StreamLen : Buf!StreamGrows(n)
         \/ UNCHANGED bufVars
  <1>1. CASE ClientStep
    BY <1>1 DEF ClientStep, CallDecodePreamble, CallDecodeNextLogEvent
  <1>2. CASE DecodeEncodingType \/ DecodePreamble \/ DecodeLogEvent
    BY <1>2, CallSteps
  <1>3. CASE ReadReturns
    BY <1>3 DEF ReadReturns
  <1>4. CASE ReadFails
    BY <1>4 DEF ReadFails
  <1>5. CASE StreamGrows
    BY <1>5 DEF StreamGrows
  <1>6. CASE UNCHANGED vars
    BY <1>6 DEF vars, bufVars
  <1> QED
    BY <1>1, <1>2, <1>3, <1>4, <1>5, <1>6 DEF Next, DecoderStep

(* Every step of the decoder is one the buffer allows its client.          *)
LEMMA StepOfBuffer ==
  ASSUME BufP!TypeInv, [Next]_vars
  PROVE  [BufP!Next]_bufVars
  <1>1. ASSUME NEW i \in DOMAIN Units, Consumes(i) PROVE BufP!Next
    <2>1. Units[i].len \in 1 .. BufP!NumUnconsumed + 1
      BY <1>1, UnitFacts
      DEF Consumes, Ready, Buf!NumUnconsumed, BufP!NumUnconsumed,
          BufP!TypeInv, BufP!TypeOK
    <2>2. BufP!Commit(Units[i].len)
      BY <1>1, SameCommit DEF Consumes
    <2> QED BY <2>1, <2>2 DEF BufP!Next
  <1>2. CASE Buf!BeginRead
    BY <1>2, SameBeginRead DEF BufP!Next
  <1>3. CASE Buf!GrowFails
    BY <1>3, SameGrowFails DEF BufP!Next
  <1>4. ASSUME NEW n \in 0 .. StreamLen, Buf!ReadReturns(n) PROVE BufP!Next
    <2>1. BufP!ReadReturns(n)
      BY <1>4, SameReadReturns
    <2>2. n \in 0 .. BufP!ViewSize
      BY <2>1, StreamLenType
      DEF BufP!ReadReturns, BufP!ReadSizes, BufP!ViewSize, BufP!TypeInv,
          BufP!TypeOK
    <2> QED BY <2>1, <2>2 DEF BufP!Next
  <1>5. CASE Buf!ReadFails
    BY <1>5, SameReadFails DEF BufP!Next
  <1>6. ASSUME NEW n \in 1 .. StreamLen, Buf!StreamGrows(n) PROVE BufP!Next
    BY <1>6, SameStreamGrows DEF BufP!Next
  <1>7. CASE UNCHANGED bufVars
    BY <1>7
  <1> QED
    BY <1>1, <1>2, <1>3, <1>4, <1>5, <1>6, <1>7, BufferSteps

(* A new decoder has a new buffer.                                         *)
LEMMA InitOfBuffer == Init => BufP!Init
  BY DEF Init, Buf!Init, BufP!Init, Buf!Uninit, BufP!Uninit

(* The decoder keeps the invariant of its buffer.                          *)
LEMMA NextBufferInv == BufP!TypeInv /\ [Next]_vars => BufP!TypeInv'
  <1>1. BufP!TypeInv /\ [BufP!Next]_bufVars => BufP!TypeInv'
    BY BufP!NextTypeInv, StreamLenType, BufferAssumption
    DEF bufVars, BufP!bufVars
  <1> QED BY <1>1, StepOfBuffer

(* The invariant of the buffer holds throughout.                           *)
LEMMA AlwaysBufferInv == Spec => []BufP!TypeInv
  <1>1. Init => BufP!TypeInv
    BY InitOfBuffer, BufP!InitTypeInv, StreamLenType, BufferAssumption
  <1> QED BY <1>1, NextBufferInv, PTL DEF Spec

(* The specifications of the buffer reached through the two instances are  *)
(* the same.                                                               *)
LEMMA SameSpec == Buf!Spec <=> BufP!Spec
  <1>1. Buf!Next <=> BufP!Next
    BY SameBeginRead, SameGrowFails, SameReadReturns, SameReadFails,
       SameCommit, SameStreamGrows
    DEF Buf!Next, BufP!Next, Buf!ViewSize, BufP!ViewSize,
        Buf!NumUnconsumed, BufP!NumUnconsumed
  <1>2. Buf!Init <=> BufP!Init
    BY DEF Buf!Init, BufP!Init, Buf!Uninit, BufP!Uninit
  <1> QED
    BY <1>1, <1>2, PTL DEF Buf!Spec, BufP!Spec, Buf!bufVars, BufP!bufVars

(* The decoding methods use their buffer as one of the clients it is       *)
(* verified under: what holds of the buffer with any client holds of the   *)
(* buffer of a decoder.                                                    *)
THEOREM DecoderIsBufferClient == Spec => Buf!Spec
  <1>1. Spec => [][BufP!Next]_bufVars
    BY StepOfBuffer, AlwaysBufferInv, PTL DEF Spec
  <1>2. Spec => BufP!Spec
    BY <1>1, InitOfBuffer, PTL DEF Spec, BufP!Spec, bufVars, BufP!bufVars
  <1> QED BY <1>2, SameSpec, PTL

-----------------------------------------------------------------------------
(* The decoder asks for more bytes only while a unit is incomplete, so a   *)
(* growth starts from fewer bytes than the unit has.                       *)
LEMMA GrowthBound ==
  ASSUME NEW c \in Nat, NEW u \in Nat, NEW len \in Nat,
         u > c \div 2, u < len
  PROVE  2 * c <= 4 * len - 6
  <1>1. c \div 2 \in Nat /\ c <= 2 * (c \div 2) + 1
    OBVIOUS
  <1> QED BY <1>1

(* A new buffer has its initial capacity.                                  *)
LEMMA InitMemoryBounded == Init => MemoryBounded
  BY BufferAssumption DEF Init, Buf!Init, MemoryBounded

(* A buffer grows only for a unit larger than a quarter of it.             *)
LEMMA NextMemoryBounded ==
  BufP!TypeInv /\ MemoryBounded /\ [Next]_vars => MemoryBounded'
  <1> SUFFICES ASSUME BufP!TypeInv, MemoryBounded, [Next]_vars
               PROVE  MemoryBounded'
    OBVIOUS
  <1>1. CASE Incomplete /\ Buf!BeginRead /\ Buf!MustGrow
    <2>1. cap \in Nat /\ Buf!NumUnconsumed \in Nat
      BY DEF BufP!TypeInv, BufP!TypeOK, Buf!NumUnconsumed
    <2>2. Buf!NumUnconsumed > cap \div 2 /\ cap' = 2 * cap
      BY <1>1 DEF Buf!MustGrow, Buf!BeginRead
    <2>3. Buf!NumUnconsumed # 0
      BY <2>1, <2>2
    <2>4. PICK i \in DOMAIN Units : Buf!NumUnconsumed < Units[i].len
      BY <1>1, <2>3 DEF Incomplete, FrontUnits
    <2>5. 2 * cap <= 4 * Units[i].len - 6
      BY <2>1, <2>2, <2>4, UnitFacts, GrowthBound
    <2> QED BY <2>2, <2>5 DEF MemoryBounded
  <1>2. CASE ~(Incomplete /\ Buf!BeginRead /\ Buf!MustGrow)
    <2>1. cap' = cap
      BY <1>2, BufferSteps
      DEF Consumes, Buf!Commit, Buf!BeginRead, Buf!GrowFails,
          Buf!ReadReturns, Buf!ReadFails, Buf!StreamGrows, bufVars
    <2> QED BY <2>1 DEF MemoryBounded
  <1> QED BY <1>1, <1>2

(* However long the stream is, its buffer stays within its initial         *)
(* capacity or four times its longest unit (decode's reads).               *)
THEOREM MemoryBound == Spec => []MemoryBounded
  BY InitMemoryBounded, NextMemoryBounded, AlwaysBufferInv, PTL DEF Spec

-----------------------------------------------------------------------------
(* The decoder's own fields, each with its type.                           *)
Calls == [op : {"idle", "encoding_type", "preamble", "log_event"},
          query : Queries \cup {NoQuery}, allowIncomplete : BOOLEAN,
          ts : Int]
Answered == [kind : {"nothing", "metadata", "event", "none"} \cup Errors,
             idx : Nat, ts : Int]
Deliveries == [idx : Nat, ts : Int, query : Queries \cup {NoQuery}]

DecTypes ==
  /\ hasMetadata \in BOOLEAN
  /\ refTs \in Int
  /\ numDecoded \in Nat
  /\ call \in Calls
  /\ ret \in Answered
  /\ delivered \in Seq(Deliveries)

(* No call in progress.                                                    *)
LEMMA IdleType == Idle \in Calls
  BY DEF Idle, Calls

(* An answer without a log event.                                          *)
LEMMA GaveType ==
  ASSUME NEW kind \in {"nothing", "metadata", "none"} \cup Errors
  PROVE  Gave(kind) \in Answered
  BY DEF Gave, Answered

(* The fields of a new decoder.                                            *)
LEMMA InitDecTypes == Init => DecTypes
  <1> SUFFICES ASSUME Init PROVE DecTypes
    OBVIOUS
  <1>0. hasMetadata \in BOOLEAN
    BY DEF Init
  <1>1. refTs \in Int /\ numDecoded \in Nat
    BY DEF Init
  <1>2. call \in Calls /\ ret \in Answered
    BY IdleType, GaveType DEF Init
  <1>3. delivered \in Seq(Deliveries)
    BY DEF Init
  <1> QED BY <1>0, <1>1, <1>2, <1>3 DEF DecTypes

(* The fields after a log event is returned.                               *)
LEMMA ReturnLogEventType ==
  ASSUME DecTypes, NEW ts \in Int, ReturnLogEvent(ts)
  PROVE  /\ refTs' \in Int /\ call' \in Calls /\ ret' \in Answered
         /\ delivered' \in Seq(Deliveries)
  <1>1. [idx |-> numDecoded, ts |-> ts, query |-> call.query] \in Deliveries
    BY DEF DecTypes, Calls, Deliveries
  <1>2. delivered' \in Seq(Deliveries)
    BY <1>1 DEF ReturnLogEvent, DecTypes
  <1>3. ret' \in Answered
    BY DEF ReturnLogEvent, Return, DecTypes, Answered
  <1> QED BY <1>2, <1>3, IdleType DEF ReturnLogEvent, Return

(* The fields after a log event is filtered.                               *)
LEMMA FilterLogEventType ==
  ASSUME DecTypes, NEW event, NEW ts \in Int, FilterLogEvent(event, ts)
  PROVE  /\ refTs' \in Int /\ call' \in Calls /\ ret' \in Answered
         /\ delivered' \in Seq(Deliveries)
  <1>1. CASE ReturnLogEvent(ts)
    BY <1>1, ReturnLogEventType
  <1>2. CASE call' = [call EXCEPT !.ts = ts]
             /\ UNCHANGED <<refTs, ret, delivered>>
    BY <1>2 DEF DecTypes, Calls
  <1>3. CASE /\ \/ Return(Gave("none"))
                \/ Return(Gave("runtime_error"))
             /\ UNCHANGED <<refTs, delivered>>
    BY <1>3, IdleType, GaveType DEF Return, DecTypes, Errors
  <1> QED BY <1>1, <1>2, <1>3 DEF FilterLogEvent

(* The fields after a read begins or fails to.                             *)
LEMMA TryReadType ==
  ASSUME DecTypes, TryRead PROVE DecTypes'
  BY IdleType, GaveType
  DEF TryRead, Continue, decVars, DecTypes, Return, Errors

(* The fields after a decoding error.                                      *)
LEMMA RaiseType ==
  ASSUME DecTypes, RaiseDecodeError PROVE DecTypes'
  BY IdleType, GaveType DEF RaiseDecodeError, DecTypes, Return, Errors

(* Every step of the decoder keeps the types of its fields.                *)
LEMMA NextDecTypes == DecTypes /\ [Next]_vars => DecTypes'
  <1> SUFFICES ASSUME DecTypes, [Next]_vars PROVE DecTypes'
    OBVIOUS
  <1>1. CASE CallDecodePreamble
    BY <1>1, IdleType DEF CallDecodePreamble, DecTypes, Calls
  <1>2. ASSUME NEW query \in Queries \cup {NoQuery},
               NEW allowIncomplete \in BOOLEAN,
               CallDecodeNextLogEvent(query, allowIncomplete)
        PROVE  DecTypes'
    <2>1. CASE hasMetadata
      BY <1>2, <2>1 DEF CallDecodeNextLogEvent, DecTypes, Calls
    <2>2. CASE ~hasMetadata
      BY <1>2, <2>2, IdleType, GaveType
      DEF CallDecodeNextLogEvent, DecTypes, Return, Errors
    <2> QED BY <2>1, <2>2
  <1>3. CASE DecodeEncodingType
    <2>1. CASE \/ call' = [call EXCEPT !.op = "preamble"] /\ UNCHANGED ret
               \/ Return(Gave("not_implemented"))
      <3>1. UNCHANGED <<hasMetadata, refTs, numDecoded, delivered>>
        BY <1>3, <2>1
        DEF DecodeEncodingType, RaiseDecodeError, TryRead, Continue, decVars
      <3> QED
        BY <2>1, <3>1, IdleType, GaveType
        DEF DecTypes, Calls, Return, Errors
    <2> QED
      BY <1>3, <2>1, TryReadType, RaiseType DEF DecodeEncodingType
  <1>4. CASE DecodePreamble
    <2>1. CASE /\ UNCHANGED <<numDecoded, delivered>>
               /\ \/ /\ hasMetadata' = TRUE /\ refTs' = RefTs
                     /\ Return(Gave("metadata"))
                  \/ /\ UNCHANGED <<hasMetadata, refTs>>
                     /\ Return(Gave("runtime_error"))
      <3>1. RefTs \in Int
        BY RefTsAssumption, MaxTsAssumption DEF Timestamps
      <3>2. hasMetadata' \in BOOLEAN
        BY <2>1 DEF DecTypes
      <3>3. refTs' \in Int
        BY <2>1, <3>1 DEF DecTypes
      <3>4. call' \in Calls /\ ret' \in Answered
        BY <2>1, IdleType, GaveType DEF Return, Errors
      <3> QED BY <2>1, <3>2, <3>3, <3>4 DEF DecTypes
    <2> QED
      BY <1>4, <2>1, TryReadType, RaiseType DEF DecodePreamble
  <1>5. CASE DecodeLogEvent
    <2>1. ASSUME NEW i \in DOMAIN Units, ConsumeLogEvent(i),
                 FilterLogEvent(Units[i], call.ts + Units[i].delta),
                 UNCHANGED hasMetadata
          PROVE  DecTypes'
      <3>1. call.ts + Units[i].delta \in Int
        BY UnitFacts DEF DecTypes, Calls
      <3>2. /\ refTs' \in Int /\ call' \in Calls /\ ret' \in Answered
            /\ delivered' \in Seq(Deliveries)
        BY <2>1, <3>1, FilterLogEventType
      <3> QED
        BY <2>1, <3>2 DEF ConsumeLogEvent, DecTypes
    <2>2. CASE /\ Return(Gave("none"))
               /\ UNCHANGED <<hasMetadata, refTs, numDecoded, delivered>>
      BY <2>2, IdleType, GaveType DEF DecTypes, Return
    <2> QED
      BY <1>5, <2>1, <2>2, TryReadType, RaiseType DEF DecodeLogEvent
  <1>6. CASE ReadReturns
    BY <1>6, IdleType, GaveType
    DEF ReadReturns, IncompleteAnswer, Continue, decVars, DecTypes, Return,
        Errors
  <1>7. CASE ReadFails
    BY <1>7, IdleType, GaveType DEF ReadFails, DecTypes, Return, Errors
  <1>8. CASE StreamGrows
    BY <1>8 DEF StreamGrows, decVars, DecTypes
  <1>9. CASE UNCHANGED vars
    BY <1>9 DEF vars, DecTypes
  <1> QED
    BY <1>1, <1>2, <1>3, <1>4, <1>5, <1>6, <1>7, <1>8, <1>9
    DEF Next, ClientStep, DecoderStep

(* The types hold throughout.                                              *)
LEMMA AlwaysDecTypes == Spec => []DecTypes
  BY InitDecTypes, NextDecTypes, PTL DEF Spec

(* Every field of the decoder and of its buffer keeps its type.            *)
THEOREM DecoderTypeCorrect == Spec => []TypeOK
  <1>1. BufP!TypeInv /\ DecTypes => TypeOK
    BY SameTypeOK
    DEF BufP!TypeInv, DecTypes, TypeOK, Calls, Answered, Deliveries
  <1> QED BY <1>1, AlwaysDecTypes, AlwaysBufferInv, PTL

-----------------------------------------------------------------------------
(* A step delivers at most one log event, and counts it.                   *)
Delivers ==
  /\ numDecoded' = numDecoded + 1
  /\ \/ delivered' = delivered
     \/ \E ts \in Int :
          delivered' = Append(delivered, [idx |-> numDecoded, ts |-> ts,
                                          query |-> call.query])

(* Every step delivers at most one log event.                              *)
LEMMA DeliverySteps ==
  ASSUME DecTypes, [Next]_vars
  PROVE  Delivers \/ UNCHANGED <<numDecoded, delivered>>
  <1>1. ASSUME NEW i \in DOMAIN Units, ConsumeLogEvent(i),
               FilterLogEvent(Units[i], call.ts + Units[i].delta)
        PROVE  Delivers
    <2>1. call.ts + Units[i].delta \in Int
      BY UnitFacts DEF DecTypes, Calls
    <2> QED
      BY <1>1, <2>1
      DEF ConsumeLogEvent, FilterLogEvent, ReturnLogEvent, Delivers
  <1>2. CASE DecodeLogEvent
    BY <1>1, <1>2
    DEF DecodeLogEvent, RaiseDecodeError, TryRead, Continue, decVars
  <1>3. CASE ~DecodeLogEvent
    BY <1>3
    DEF Next, ClientStep, DecoderStep, CallDecodePreamble,
        CallDecodeNextLogEvent, DecodeEncodingType, DecodePreamble,
        ReadReturns, ReadFails, StreamGrows, RaiseDecodeError, TryRead,
        Continue, decVars, vars
  <1> QED BY <1>2, <1>3

(* A log event delivered now comes after those delivered before.           *)
LEMMA NextInOrder ==
  DecTypes /\ DeliveredInOrder /\ [Next]_vars => DeliveredInOrder'
  <1> SUFFICES ASSUME DecTypes, DeliveredInOrder, [Next]_vars
               PROVE  DeliveredInOrder'
    OBVIOUS
  <1>1. numDecoded \in Nat /\ delivered \in Seq(Deliveries)
    BY DEF DecTypes
  <1>2. \A k \in DOMAIN delivered : delivered[k].idx \in Nat
    <2>1. \A k \in DOMAIN delivered : delivered[k] \in Deliveries
      BY <1>1
    <2>2. \A d \in Deliveries : d.idx \in Nat
      BY DEF Deliveries
    <2> QED BY <2>1, <2>2
  <1>3. ASSUME NEW ts \in Int, numDecoded' = numDecoded + 1,
               delivered' = Append(delivered,
                                   [idx |-> numDecoded, ts |-> ts,
                                    query |-> call.query])
        PROVE  DeliveredInOrder'
    <2>1. [idx |-> numDecoded, ts |-> ts, query |-> call.query]
             \in Deliveries
      BY <1>3 DEF DecTypes, Calls, Deliveries
    <2>2. /\ DOMAIN delivered' = DOMAIN delivered \cup {Len(delivered) + 1}
          /\ Len(delivered) \in Nat
          /\ DOMAIN delivered = 1 .. Len(delivered)
          /\ \A k \in DOMAIN delivered : delivered'[k] = delivered[k]
          /\ delivered'[Len(delivered) + 1].idx = numDecoded
      BY <1>1, <1>3, <2>1
    <2> QED
      BY <1>1, <1>2, <1>3, <2>2 DEF DeliveredInOrder
  <1>4. CASE numDecoded' = numDecoded + 1 /\ delivered' = delivered
    BY <1>1, <1>2, <1>4 DEF DeliveredInOrder
  <1>5. CASE UNCHANGED <<numDecoded, delivered>>
    BY <1>5 DEF DeliveredInOrder
  <1> QED
    BY <1>3, <1>4, <1>5, DeliverySteps DEF Delivers

(* Whatever calls, queries and failures came before, no log event is       *)
(* returned twice or out of order.                                         *)
THEOREM DeliveryInOrder == Spec => []DeliveredInOrder
  <1>1. Init => DeliveredInOrder
    BY DEF Init, DeliveredInOrder
  <1> QED BY <1>1, NextInOrder, AlwaysDecTypes, PTL DEF Spec

-----------------------------------------------------------------------------
(* With a memcpy that copies upwards, the bytes the decoder has yet to     *)
(* parse are those of the stream.                                          *)
LEMMA AlwaysBytesIntact ==
  ASSUME CopyOrders = {"forward"} PROVE Spec => []BufP!BytesIntact
  <1>1. BufP!Spec => []BufP!BytesIntact
    BY BufP!BytesStayIntact, StreamLenType, BufferAssumption
  <1> QED BY <1>1, SameSpec, DecoderIsBufferClient, PTL

(* The unconsumed bytes begin at the beginning of unit i.                  *)
At(i) == i \in 1 .. Len(Units) + 1 /\ Start[i] = Buf!ConsumedOffset

(* The unit that decodes is the one the decoder stands at.                 *)
LEMMA SameConsumedOffset ==
  ASSUME NEW i \in DOMAIN Units, NEW j, BufP!TypeInv, BufP!BytesIntact,
         Ready(i), At(j)
  PROVE  i = j
  <1>1. mem[numConsumed] = streamPos - bufSize + numConsumed
    BY DEF Ready, FrontUnits, Buf!NumUnconsumed, BufP!TypeInv, BufP!TypeOK,
           BufP!BytesIntact
  <1>2. Start[i] = Buf!ConsumedOffset
    BY <1>1
    DEF Ready, FrontUnits, Buf!ConsumedOffset, Buf!NumUnconsumed,
        BufP!TypeInv, BufP!TypeOK
  <1> QED BY <1>2, UnitFacts, StartInjective DEF At

(* A new decoder stands at the first unit.                                 *)
LEMMA StartsAtFirst ==
  /\ 1 \in 1 .. Len(Units) + 1
  /\ Index[1] = 0 /\ Time[1] = RefTs
  /\ Init => At(1)
  <1>1. 1 \in 1 .. Len(Units) + 1 /\ Start[1] = 0
    BY UnitsAssumption, LayoutAssumption
  <1>2. Init => Buf!ConsumedOffset = 0
    BY DEF Init, Buf!Init, Buf!ConsumedOffset, Buf!NumUnconsumed
  <1> QED BY <1>1, <1>2, LayoutAssumption DEF At

(* Consuming the unit at the front moves to the next one.                  *)
LEMMA ConsumeMoves ==
  ASSUME NEW i \in DOMAIN Units, BufP!TypeInv, BufP!BytesIntact,
         Consumes(i), At(i)
  PROVE  At(i + 1)'
  <1>1. Buf!ConsumedOffset' = Buf!ConsumedOffset + Units[i].len
    BY UnitFacts
    DEF Consumes, Ready, Buf!Commit, Buf!ConsumedOffset, Buf!NumUnconsumed,
        BufP!TypeInv, BufP!TypeOK
  <1> QED BY <1>1, UnitFacts DEF At

(* The other steps of the buffer do not move.                              *)
LEMMA OthersStay ==
  ASSUME BufP!TypeInv,
         \/ Buf!BeginRead
         \/ Buf!GrowFails
         \/ \E n \in 0 .. StreamLen : Buf!ReadReturns(n)
         \/ Buf!ReadFails
         \/ \E n \in 1 .. StreamLen : Buf!StreamGrows(n)
         \/ UNCHANGED bufVars
  PROVE  Buf!ConsumedOffset' = Buf!ConsumedOffset
  BY StreamLenType
  DEF Buf!BeginRead, Buf!GrowFails, Buf!ReadReturns, Buf!ReadFails,
      Buf!StreamGrows, bufVars, Buf!ConsumedOffset, Buf!NumUnconsumed,
      BufP!TypeInv, BufP!TypeOK

(* The call ends with an answer that ends a client's loop.                 *)
Stops ==
  /\ \E kind \in {"none"} \cup Errors : Return(Gave(kind))
  /\ UNCHANGED <<hasMetadata, refTs>>

(* A step consumes a log event and counts it, consumes another unit, or    *)
(* neither moves nor counts.                                               *)
ConsumesEvent(i) ==
  /\ call.op = "log_event"
  /\ Units[i].kind = "event"
  /\ Consumes(i)
  /\ numDecoded' = numDecoded + 1
  /\ FilterLogEvent(Units[i], call.ts + Units[i].delta)
  /\ UNCHANGED hasMetadata

ConsumesOther(i) ==
  /\ call.op \in {"encoding_type", "preamble"}
  /\ Units[i].kind # "event"
  /\ Consumes(i)
  /\ UNCHANGED <<numDecoded, delivered>>
  /\ \/ /\ call' = [call EXCEPT !.op = "preamble"]
        /\ UNCHANGED <<hasMetadata, refTs, ret>>
     \/ /\ ~hasMetadata
        /\ hasMetadata' = TRUE
        /\ refTs' = RefTs
        /\ Return(Gave("metadata"))
     \/ Stops

ConsumesNothing ==
  /\ Buf!ConsumedOffset' = Buf!ConsumedOffset
  /\ UNCHANGED <<numDecoded, delivered>>
  /\ \/ UNCHANGED <<hasMetadata, refTs, call, ret>>
     \/ Stops
     \/ /\ MayCall
        /\ call' = [Idle EXCEPT !.op = "encoding_type"]
        /\ UNCHANGED <<hasMetadata, refTs, ret>>
     \/ /\ MayCall
        /\ hasMetadata
        /\ call'.op = "log_event" /\ call'.ts = refTs
        /\ UNCHANGED <<hasMetadata, refTs, ret>>

(* Reads and decoding errors consume nothing.                              *)
LEMMA ReadingSteps ==
  ASSUME BufP!TypeInv, TryRead \/ RaiseDecodeError
  PROVE  ConsumesNothing
  <1>1. CASE Buf!BeginRead /\ Continue
    BY <1>1, OthersStay DEF Continue, decVars, ConsumesNothing
  <1>2. CASE /\ Buf!GrowFails \/ UNCHANGED bufVars
             /\ UNCHANGED <<numDecoded, delivered>>
             /\ Stops
    BY <1>2, OthersStay DEF ConsumesNothing
  <1> QED
    BY <1>1, <1>2 DEF TryRead, RaiseDecodeError, Stops, Errors

(* Every step of the decoder, as the stream sees it.                       *)
LEMMA ConsumingSteps ==
  ASSUME BufP!TypeInv, [Next]_vars
  PROVE  \/ \E i \in DOMAIN Units : ConsumesEvent(i) \/ ConsumesOther(i)
         \/ ConsumesNothing
  <1>1. CASE DecodeLogEvent
    <2>1. CASE \E i \in DOMAIN Units :
                 /\ Ready(i)
                 /\ Units[i].kind = "event"
                 /\ ConsumeLogEvent(i)
                 /\ FilterLogEvent(Units[i], call.ts + Units[i].delta)
                 /\ UNCHANGED hasMetadata
      BY <1>1, <2>1
      DEF DecodeLogEvent, ConsumeLogEvent, ConsumesEvent, Consumes
    <2>2. CASE /\ Return(Gave("none"))
               /\ UNCHANGED <<hasMetadata, refTs, numDecoded, delivered>>
               /\ UNCHANGED bufVars
      BY <2>2, OthersStay DEF ConsumesNothing, Stops
    <2> QED
      BY <1>1, <2>1, <2>2, ReadingSteps DEF DecodeLogEvent
  <1>2. CASE DecodeEncodingType
    <2>1. CASE \E i \in DOMAIN Units :
                 /\ Consumes(i)
                 /\ \/ /\ Units[i].kind = "magic4"
                       /\ call' = [call EXCEPT !.op = "preamble"]
                       /\ UNCHANGED ret
                    \/ /\ Units[i].kind = "magic8"
                       /\ Return(Gave("not_implemented"))
                 /\ UNCHANGED <<hasMetadata, refTs, numDecoded, delivered>>
      BY <1>2, <2>1
      DEF DecodeEncodingType, ConsumesOther, Stops, Errors
    <2> QED
      BY <1>2, <2>1, ReadingSteps DEF DecodeEncodingType, Consumes
  <1>3. CASE DecodePreamble
    <2>1. CASE \E i \in DOMAIN Units :
                 /\ Consumes(i)
                 /\ Units[i].kind \in {"preamble", "bad_preamble"}
                 /\ \/ /\ ~hasMetadata
                       /\ hasMetadata' = TRUE
                       /\ refTs' = RefTs
                       /\ Return(Gave("metadata"))
                    \/ /\ Return(Gave("runtime_error"))
                       /\ UNCHANGED <<hasMetadata, refTs>>
                 /\ UNCHANGED <<numDecoded, delivered>>
      BY <1>3, <2>1 DEF DecodePreamble, ConsumesOther, Stops, Errors
    <2> QED
      BY <1>3, <2>1, ReadingSteps DEF DecodePreamble, Consumes
  <1>4. CASE ClientStep
    <2>1. Buf!ConsumedOffset' = Buf!ConsumedOffset
      BY <1>4, OthersStay
      DEF ClientStep, CallDecodePreamble, CallDecodeNextLogEvent
    <2>2. CASE CallDecodePreamble
      BY <2>1, <2>2 DEF CallDecodePreamble, ConsumesNothing
    <2>3. ASSUME NEW query, NEW allowIncomplete,
                 CallDecodeNextLogEvent(query, allowIncomplete)
          PROVE  ConsumesNothing
      BY <2>1, <2>3
      DEF CallDecodeNextLogEvent, ConsumesNothing, Stops, Errors
    <2> QED BY <1>4, <2>2, <2>3 DEF ClientStep
  <1>5. CASE ReadReturns \/ ReadFails \/ StreamGrows \/ UNCHANGED vars
    <2>1. Buf!ConsumedOffset' = Buf!ConsumedOffset
      BY <1>5, OthersStay
      DEF ReadReturns, ReadFails, StreamGrows, vars, bufVars
    <2>2. CASE UNCHANGED <<hasMetadata, refTs, numDecoded, delivered, call,
                           ret>>
      BY <2>1, <2>2 DEF ConsumesNothing
    <2>3. CASE Stops /\ UNCHANGED <<numDecoded, delivered>>
      BY <2>1, <2>3 DEF ConsumesNothing
    <2> QED
      BY <1>5, <2>2, <2>3
      DEF ReadReturns, IncompleteAnswer, ReadFails, StreamGrows, Continue,
          decVars, vars, Stops, Errors
  <1> QED
    BY <1>1, <1>2, <1>3, <1>4, <1>5 DEF Next, DecoderStep

(* The index moves with the position.                                      *)
LEMMA NextPosition ==
  BufP!TypeInv /\ BufP!BytesIntact /\ IndexIsPosition /\ [Next]_vars
    => IndexIsPosition'
  <1> SUFFICES ASSUME BufP!TypeInv, BufP!BytesIntact, IndexIsPosition,
                      [Next]_vars
               PROVE  IndexIsPosition'
    OBVIOUS
  <1>1. PICK j \in 1 .. Len(Units) + 1 : At(j) /\ Index[j] = numDecoded
    BY DEF IndexIsPosition, At
  <1>2. ASSUME NEW i \in DOMAIN Units, ConsumesEvent(i) \/ ConsumesOther(i)
        PROVE  IndexIsPosition'
    <2>1. i = j /\ At(i + 1)'
      BY <1>1, <1>2, SameConsumedOffset, ConsumeMoves
      DEF ConsumesEvent, ConsumesOther, Consumes
    <2>2. Index[i + 1] = numDecoded'
      BY <1>1, <1>2, <2>1, UnitSums DEF ConsumesEvent, ConsumesOther
    <2> QED BY <2>1, <2>2 DEF IndexIsPosition, At
  <1>3. CASE ConsumesNothing
    BY <1>1, <1>3 DEF ConsumesNothing, IndexIsPosition, At
  <1> QED BY <1>2, <1>3, ConsumingSteps

(* Whatever mixture of reads, failures, None answers and further calls     *)
(* came before, the index of the next log event is its position in the     *)
(* stream (get_and_increment_decoded_message_count).                       *)
THEOREM IndexStaysPosition ==
  ASSUME CopyOrders = {"forward"} PROVE Spec => []IndexIsPosition
  <1>1. Spec => []BufP!BytesIntact
    BY AlwaysBytesIntact
  <1>2. Init => IndexIsPosition
    BY StartsAtFirst DEF Init, IndexIsPosition, At
  <1> QED
    BY <1>1, <1>2, NextPosition, AlwaysBufferInv, PTL DEF Spec

(* The one way out of decode's loop that gives a log event.                *)
LEMMA FilterGives ==
  ASSUME NEW event, NEW ts, DecTypes, FilterLogEvent(event, ts)
  PROVE  \/ /\ ReturnLogEvent(ts)
            /\ call.query # NoQuery => Matches(call.query, ts, event)
         \/ UNCHANGED delivered
  BY DEF FilterLogEvent, Matches

(* What a search is given is appended only if it matches.                  *)
LEMMA NextDeliveriesMatch ==
  ASSUME DecTypes, BufP!TypeInv, BufP!BytesIntact, IndexIsPosition,
         DeliveriesMatch, [Next]_vars
  PROVE  DeliveriesMatch'
  <1>1. PICK j \in 1 .. Len(Units) + 1 : At(j) /\ Index[j] = numDecoded
    BY DEF IndexIsPosition, At
  <1>2. ASSUME NEW i \in DOMAIN Units, ConsumesEvent(i)
        PROVE  DeliveriesMatch'
    <2> DEFINE ts == call.ts + Units[i].delta
               e == [idx |-> numDecoded, ts |-> ts, query |-> call.query]
    <2>1. i \in EventUnits /\ Index[i] = numDecoded
      <3>1. i = j
        BY <1>1, <1>2, SameConsumedOffset DEF ConsumesEvent, Consumes
      <3> QED BY <1>1, <1>2, <3>1 DEF ConsumesEvent, EventUnits
    <2>2. ts \in Int
      BY UnitFacts DEF DecTypes, Calls
    <2>3. FilterLogEvent(Units[i], ts)
      BY <1>2 DEF ConsumesEvent
    <2> HIDE DEF ts
    <2>4. CASE /\ ReturnLogEvent(ts)
               /\ call.query # NoQuery => Matches(call.query, ts, Units[i])
      <3>2. e \in Deliveries /\ delivered' = Append(delivered, e)
        BY <2>2, <2>4 DEF ReturnLogEvent, DecTypes, Calls, Deliveries
      <3>3. delivered \in Seq(Deliveries)
        BY DEF DecTypes
      <3>4. e.idx = numDecoded /\ e.ts = ts /\ e.query = call.query
        OBVIOUS
      <3> HIDE DEF e
      <3>5. ASSUME NEW k \in DOMAIN delivered'
            PROVE  \/ k \in DOMAIN delivered /\ delivered'[k] = delivered[k]
                   \/ delivered'[k] = e
        BY <3>2, <3>3, <3>5
      <3> QED BY <2>1, <2>4, <3>4, <3>5 DEF DeliveriesMatch
    <2>5. CASE UNCHANGED delivered
      BY <2>5 DEF DeliveriesMatch
    <2> QED BY <2>3, <2>4, <2>5, FilterGives
  <1>3. CASE UNCHANGED delivered
    BY <1>3 DEF DeliveriesMatch
  <1> QED
    BY <1>2, <1>3, ConsumingSteps DEF ConsumesOther, ConsumesNothing

(* Any client, also one that went on after a search ended and lost deltas  *)
(* by it, is given by a search only log events of the stream that match    *)
(* the query (decode's filter, against the unit whose bytes it consumed).  *)
THEOREM SearchGivesMatches ==
  ASSUME CopyOrders = {"forward"} PROVE Spec => []DeliveriesMatch
  <1>1. Init => DeliveriesMatch
    BY DEF Init, DeliveriesMatch
  <1>2. Spec => []BufP!BytesIntact
    BY AlwaysBytesIntact
  <1> QED
    BY <1>1, <1>2, NextDeliveriesMatch, IndexStaysPosition, AlwaysDecTypes,
       AlwaysBufferInv, PTL
    DEF Spec

-----------------------------------------------------------------------------
(* Deltas are lost only if a search that did not return a log event is     *)
(* followed by another call: a client that stops there loses none, nor     *)
(* does one that never searches.                                           *)
LosesNoDelta == ClientResumes = FALSE \/ Queries = {}

(* The timestamps decode works on are those of the last log event before   *)
(* the position: the local copy of a call, and the reference timestamp.    *)
CallClockAt(i) == call.op = "log_event" => hasMetadata /\ call.ts = Time[i]
ClockAt(i) == Time[i] = IF hasMetadata THEN refTs ELSE RefTs

(* Such an answer ends the call.                                           *)
LEMMA StopsFacts ==
  ASSUME Stops
  PROVE  /\ call' = Idle /\ call'.op # "log_event"
         /\ ret'.kind \in {"none"} \cup Errors
  BY DEF Stops, Return, Gave, Errors, Idle

(* How the timestamps move with the position, from position j where a call *)
(* that begins finds the right one.  The reference timestamp falls behind  *)
(* only in a search, and a search that gives a log event corrects it.      *)
ClockMoves(j, k) ==
  /\ k \in 1 .. Len(Units) + 1
  /\ At(k)' /\ Index[k] = numDecoded' /\ CallClockAt(k)'
  /\ ClockAt(j) => \/ ClockAt(k)'
                   \/ call.op = "log_event" /\ call.query # NoQuery
  /\ call.op = "log_event"
       => call'.op = "log_event" \/ ClockAt(k)' \/ Stops

LEMMA ClockStep ==
  ASSUME DecTypes, BufP!TypeInv, BufP!BytesIntact, TimestampsExact,
         [Next]_vars,
         NEW j \in 1 .. Len(Units) + 1,
         At(j), Index[j] = numDecoded, CallClockAt(j),
         MayCall /\ call' # Idle => ClockAt(j)
  PROVE  TimestampsExact' /\ \E k : ClockMoves(j, k)
  <1>2. ASSUME NEW i \in DOMAIN Units, ConsumesEvent(i)
        PROVE  TimestampsExact' /\ ClockMoves(j, i + 1)
    <2> DEFINE ts == call.ts + Units[i].delta
    <2>1. i = j /\ At(i + 1)'
      BY <1>2, SameConsumedOffset, ConsumeMoves
      DEF ConsumesEvent, Consumes
    <2>2. Index[i + 1] = numDecoded' /\ ts = Time[i + 1] /\ hasMetadata
      BY <1>2, <2>1, UnitSums DEF ConsumesEvent, CallClockAt
    <2>3. i \in EventUnits /\ Index[i] = numDecoded
      BY <1>2, <2>1 DEF ConsumesEvent, EventUnits
    <2>p. hasMetadata' = hasMetadata /\ call.op = "log_event"
      BY <1>2 DEF ConsumesEvent
    <2>k. i + 1 \in 1 .. Len(Units) + 1
      BY UnitFacts
    <2> HIDE DEF ts
    <2>4. CASE ReturnLogEvent(ts)
      <3>1. call'.op # "log_event" /\ ClockAt(i + 1)'
        BY <2>2, <2>4, <2>p DEF ReturnLogEvent, Return, Idle, ClockAt
      <3>2. TimestampsExact'
        <4> DEFINE e == [idx |-> numDecoded, ts |-> ts,
                         query |-> call.query]
        <4>0. ts \in Int
          BY UnitFacts DEF ts, DecTypes, Calls
        <4>1. e \in Deliveries /\ delivered' = Append(delivered, e)
          BY <2>4, <4>0 DEF ReturnLogEvent, DecTypes, Calls, Deliveries
        <4>2. e.idx = Index[i] /\ e.ts = Time[i + 1]
          BY <2>2, <2>3
        <4>3. delivered \in Seq(Deliveries)
          BY DEF DecTypes
        <4> HIDE DEF e
        <4>4. ASSUME NEW k \in DOMAIN delivered'
              PROVE  \/ k \in DOMAIN delivered /\ delivered'[k] = delivered[k]
                     \/ delivered'[k] = e
          BY <4>1, <4>3, <4>4
        <4> QED BY <2>3, <4>2, <4>4 DEF TimestampsExact
      <3> QED
        BY <2>1, <2>2, <2>k, <3>1, <3>2 DEF ClockMoves, CallClockAt
    <2>5. CASE Stops /\ UNCHANGED delivered /\ call.query # NoQuery
      BY <2>1, <2>2, <2>5, <2>k, <2>p, StopsFacts
      DEF ClockMoves, CallClockAt, TimestampsExact
    <2>6. CASE /\ call' = [call EXCEPT !.ts = ts]
               /\ UNCHANGED <<refTs, ret, delivered>>
               /\ call.query # NoQuery
      <3>1. call'.op = "log_event" /\ call'.ts = ts
        BY <2>6, <2>p DEF DecTypes, Calls
      <3> QED
        BY <2>1, <2>2, <2>6, <2>k, <2>p, <3>1
        DEF ClockMoves, CallClockAt, TimestampsExact
    <2> QED
      BY <1>2, <2>4, <2>5, <2>6
      DEF ConsumesEvent, FilterLogEvent, Stops, Errors, ts
  <1>3. ASSUME NEW i \in DOMAIN Units, ConsumesOther(i)
        PROVE  TimestampsExact' /\ ClockMoves(j, i + 1)
    <2>1. i = j /\ At(i + 1)' /\ i + 1 \in 1 .. Len(Units) + 1
      BY <1>3, SameConsumedOffset, ConsumeMoves, UnitFacts
      DEF ConsumesOther, Consumes
    <2>2. Index[i + 1] = numDecoded' /\ Time[i + 1] = Time[j]
      BY <1>3, <2>1, UnitSums DEF ConsumesOther
    <2>3. call.op # "log_event" /\ UNCHANGED delivered
      BY <1>3 DEF ConsumesOther
    <2>4. call'.op # "log_event" /\ (ClockAt(j) => ClockAt(i + 1)')
      <3>1. CASE /\ call' = [call EXCEPT !.op = "preamble"]
                 /\ UNCHANGED <<hasMetadata, refTs, ret>>
        <4>1. call'.op = "preamble"
          BY <3>1 DEF DecTypes, Calls
        <4> QED BY <2>2, <3>1, <4>1 DEF ClockAt
      <3>2. CASE /\ ~hasMetadata /\ hasMetadata' = TRUE /\ refTs' = RefTs
                 /\ Return(Gave("metadata"))
        BY <2>2, <3>2 DEF ClockAt, Return, Idle
      <3>3. CASE Stops
        BY <2>2, <3>3, StopsFacts DEF ClockAt, Stops
      <3> QED BY <1>3, <3>1, <3>2, <3>3 DEF ConsumesOther
    <2> QED
      BY <2>1, <2>2, <2>3, <2>4
      DEF ClockMoves, CallClockAt, TimestampsExact
  <1>4. CASE ConsumesNothing
    <2>1. /\ At(j)' /\ Index[j] = numDecoded' /\ TimestampsExact'
          /\ UNCHANGED <<hasMetadata, refTs>>
      BY <1>4 DEF ConsumesNothing, Stops, At, TimestampsExact
    <2>2. ClockAt(j) => ClockAt(j)'
      BY <2>1 DEF ClockAt
    <2>3. CallClockAt(j)'
          /\ (call.op = "log_event" => call'.op = "log_event" \/ Stops)
      <3>1. CASE UNCHANGED call
        BY <2>1, <3>1 DEF CallClockAt
      <3>2. CASE Stops
        BY <3>2, StopsFacts DEF CallClockAt
      <3>3. CASE MayCall /\ call' = [Idle EXCEPT !.op = "encoding_type"]
        BY <3>3 DEF CallClockAt, Idle, MayCall
      <3>4. CASE /\ MayCall /\ hasMetadata
                 /\ call'.op = "log_event" /\ call'.ts = refTs
        <4>1. call' # Idle
          BY <3>4 DEF Idle
        <4> QED BY <2>1, <3>4, <4>1 DEF CallClockAt, ClockAt
      <3> QED
        BY <1>4, <3>1, <3>2, <3>3, <3>4 DEF ConsumesNothing
    <2>4. ClockMoves(j, j)
      BY <2>1, <2>2, <2>3 DEF ClockMoves
    <2> QED BY <2>1, <2>4
  <1> QED BY <1>2, <1>3, <1>4, ConsumingSteps

(* The reference timestamp is right between the calls of a client that has *)
(* not been given None or an error, and without searches at all times.     *)
GoesOn == call # Idle \/ ret.kind \in {"nothing", "metadata", "event"}
KeepsClock == (call.op # "log_event" /\ GoesOn) \/ Queries = {}

ClockInv ==
  \E i \in 1 .. Len(Units) + 1 :
    /\ At(i) /\ Index[i] = numDecoded
    /\ CallClockAt(i) /\ (KeepsClock => ClockAt(i))

(* Between calls, a client that may call has lost no delta.                *)
LEMMA CallerGoesOn ==
  ASSUME LosesNoDelta, MayCall
  PROVE  KeepsClock
  BY DEF LosesNoDelta, MayCall, GoesOn, KeepsClock, Idle

(* Between calls, nothing is answered but an error.                        *)
LEMMA IdleSteps ==
  ASSUME BufP!TypeInv, DecTypes, [Next]_vars, call = Idle
  PROVE  \/ UNCHANGED <<call, ret>> \/ Stops \/ MayCall
  <1>1. \A i : ~ConsumesEvent(i) /\ ~ConsumesOther(i)
    BY DEF ConsumesEvent, ConsumesOther, Idle
  <1> QED BY <1>1, ConsumingSteps DEF ConsumesNothing

(* The timestamp decode works on moves with the position.                  *)
LEMMA NextClockInv ==
  ASSUME LosesNoDelta, DecTypes, BufP!TypeInv, BufP!BytesIntact,
         ClockInv, TimestampsExact, [Next]_vars
  PROVE  ClockInv' /\ TimestampsExact'
  <1>1. PICK j \in 1 .. Len(Units) + 1 :
          /\ At(j) /\ Index[j] = numDecoded
          /\ CallClockAt(j) /\ (KeepsClock => ClockAt(j))
    BY DEF ClockInv
  <1>2. PICK k : TimestampsExact' /\ ClockMoves(j, k)
    BY <1>1, CallerGoesOn, ClockStep
  <1>3. ASSUME KeepsClock' PROVE ClockAt(k)'
    <2>1. CASE Queries = {}
      <3>1. call.query = NoQuery
        BY <2>1 DEF DecTypes, Calls
      <3> QED BY <1>1, <1>2, <2>1, <3>1 DEF KeepsClock, ClockMoves
    <2>2. CASE call'.op # "log_event" /\ GoesOn'
      <3>1. ~Stops
        BY <2>2, StopsFacts DEF GoesOn, Errors
      <3>2. CASE call.op = "log_event"
        BY <1>2, <2>2, <3>1, <3>2 DEF ClockMoves
      <3>3. CASE call.op # "log_event"
        <4>1. KeepsClock
          <5>1. CASE call # Idle
            BY <3>3, <5>1 DEF KeepsClock, GoesOn
          <5>2. CASE MayCall
            BY <5>2, CallerGoesOn
          <5>3. CASE call = Idle /\ UNCHANGED <<call, ret>>
            BY <2>2, <5>3 DEF KeepsClock, GoesOn
          <5> QED BY <3>1, <5>1, <5>2, <5>3, IdleSteps
        <4> QED BY <1>1, <1>2, <3>3, <4>1 DEF ClockMoves
      <3> QED BY <3>2, <3>3
    <2> QED BY <1>3, <2>1, <2>2 DEF KeepsClock
  <1> QED BY <1>2, <1>3 DEF ClockMoves, ClockInv

(* A client that stops at the first None or error, and one that resumes    *)
(* but never searches, keeps the clock.                                    *)
LEMMA AlwaysClockInv ==
  ASSUME CopyOrders = {"forward"}, LosesNoDelta
  PROVE  Spec => [](ClockInv /\ TimestampsExact)
  <1>1. Spec => []BufP!BytesIntact
    BY AlwaysBytesIntact
  <1>2. Init => ClockInv /\ TimestampsExact
    BY StartsAtFirst
    DEF Init, ClockInv, CallClockAt, ClockAt, Idle, TimestampsExact
  <1>3. ASSUME DecTypes, BufP!TypeInv, BufP!BytesIntact, ClockInv,
               TimestampsExact, [Next]_vars
        PROVE  ClockInv' /\ TimestampsExact'
    BY <1>3, NextClockInv
  <1> QED
    BY <1>1, <1>2, <1>3, AlwaysDecTypes, AlwaysBufferInv, PTL DEF Spec

(* Such a client is given every log event with the timestamp it was logged *)
(* at (decode, set_ref_timestamp).                                         *)
THEOREM TimestampsStayExact ==
  ASSUME CopyOrders = {"forward"}, LosesNoDelta
  PROVE  Spec => []TimestampsExact
  <1>1. Spec => [](ClockInv /\ TimestampsExact)
    BY AlwaysClockInv
  <1> QED BY <1>1, PTL

-----------------------------------------------------------------------------
(* Any client, on a stream that was written in the order of time.          *)

(* The timestamp decode works on is never ahead of the last log event      *)
(* before the position, even where deltas were lost.                       *)
LagAt(i) ==
  /\ IF hasMetadata THEN refTs <= Time[i] ELSE RefTs <= Time[i]
  /\ call.op = "log_event" => hasMetadata /\ call.ts <= Time[i]
LagInv ==
  \E i \in 1 .. Len(Units) + 1 : At(i) /\ Index[i] = numDecoded /\ LagAt(i)

(* The timestamps stay behind the position.                                *)
LEMMA NextLagInv ==
  ASSUME InTimeOrder, DecTypes, BufP!TypeInv, BufP!BytesIntact, LagInv,
         [Next]_vars
  PROVE  LagInv'
  <1>1. PICK j \in 1 .. Len(Units) + 1 :
          At(j) /\ Index[j] = numDecoded /\ LagAt(j)
    BY DEF LagInv
  <1>t. /\ refTs \in Int /\ RefTs \in Int /\ Time[j] \in Int
        /\ call.ts \in Int
    <2>1. RefTs \in Int
      BY RefTsAssumption, MaxTsAssumption DEF Timestamps
    <2>2. Time[j] \in Int
      BY LayoutAssumption
    <2> QED BY <2>1, <2>2 DEF DecTypes, Calls
  <1>2. ASSUME NEW i \in DOMAIN Units, ConsumesEvent(i)
        PROVE  LagInv'
    <2> DEFINE ts == call.ts + Units[i].delta
    <2>1. i = j /\ At(i + 1)'
      BY <1>1, <1>2, SameConsumedOffset, ConsumeMoves
      DEF ConsumesEvent, Consumes
    <2>2. /\ Index[i + 1] = numDecoded'
          /\ Time[i + 1] = Time[j] + Units[i].delta
          /\ Units[i].delta \in Int /\ Units[i].delta >= 0
      BY <1>1, <1>2, <2>1, UnitSums, UnitFacts
      DEF ConsumesEvent, InTimeOrder, EventUnits
    <2>3. /\ hasMetadata /\ hasMetadata'
          /\ ts <= Time[i + 1] /\ refTs <= Time[i + 1]
      BY <1>1, <1>2, <1>t, <2>2 DEF ConsumesEvent, LagAt
    <2>4. \/ ReturnLogEvent(ts)
          \/ Stops
          \/ call' = [call EXCEPT !.ts = ts] /\ UNCHANGED refTs
      BY <1>2 DEF ConsumesEvent, FilterLogEvent, Stops, Errors
    <2> HIDE DEF ts
    <2>5. LagAt(i + 1)'
      <3>1. CASE ReturnLogEvent(ts)
        BY <2>3, <3>1 DEF ReturnLogEvent, Return, Idle, LagAt
      <3>2. CASE Stops
        BY <2>3, <3>2, StopsFacts DEF Stops, LagAt
      <3>3. CASE call' = [call EXCEPT !.ts = ts] /\ UNCHANGED refTs
        <4>1. call'.ts = ts
          BY <3>3 DEF DecTypes, Calls
        <4> QED BY <2>3, <3>3, <4>1 DEF LagAt
      <3> QED BY <2>4, <3>1, <3>2, <3>3
    <2> QED BY <2>1, <2>2, <2>5, UnitFacts DEF LagInv
  <1>3. ASSUME NEW i \in DOMAIN Units, ConsumesOther(i)
        PROVE  LagInv'
    <2>1. i = j /\ At(i + 1)'
      BY <1>1, <1>3, SameConsumedOffset, ConsumeMoves
      DEF ConsumesOther, Consumes
    <2>2. Index[i + 1] = numDecoded' /\ Time[i + 1] = Time[j]
      BY <1>1, <1>3, <2>1, UnitSums DEF ConsumesOther
    <2>3. LagAt(i + 1)'
      <3>1. CASE /\ call' = [call EXCEPT !.op = "preamble"]
                 /\ UNCHANGED <<hasMetadata, refTs, ret>>
        <4>1. call'.op = "preamble"
          BY <3>1 DEF DecTypes, Calls
        <4> QED BY <1>1, <2>2, <3>1, <4>1 DEF LagAt
      <3>2. CASE /\ ~hasMetadata /\ hasMetadata' = TRUE /\ refTs' = RefTs
                 /\ Return(Gave("metadata"))
        BY <1>1, <2>2, <3>2 DEF LagAt, Return, Idle
      <3>3. CASE Stops
        BY <1>1, <2>2, <3>3, StopsFacts DEF Stops, LagAt
      <3> QED BY <1>3, <3>1, <3>2, <3>3 DEF ConsumesOther
    <2> QED BY <2>1, <2>2, <2>3, UnitFacts DEF LagInv
  <1>4. CASE ConsumesNothing
    <2>1. LagAt(j)'
      <3>1. CASE UNCHANGED <<hasMetadata, refTs, call, ret>>
        BY <1>1, <3>1 DEF LagAt
      <3>2. CASE Stops
        BY <1>1, <3>2, StopsFacts DEF Stops, LagAt
      <3>3. CASE /\ call' = [Idle EXCEPT !.op = "encoding_type"]
                 /\ UNCHANGED <<hasMetadata, refTs, ret>>
        BY <1>1, <3>3 DEF Idle, LagAt
      <3>4. CASE /\ hasMetadata
                 /\ call'.op = "log_event" /\ call'.ts = refTs
                 /\ UNCHANGED <<hasMetadata, refTs, ret>>
        BY <1>1, <3>4 DEF LagAt
      <3> QED
        BY <1>4, <3>1, <3>2, <3>3, <3>4 DEF ConsumesNothing
    <2> QED BY <1>1, <1>4, <2>1 DEF ConsumesNothing, LagInv, At
  <1> QED BY <1>2, <1>3, <1>4, ConsumingSteps

(* A new decoder has no timestamp ahead of the stream's.                   *)
LEMMA InitLagInv == ASSUME Init PROVE LagInv
  <1>1. RefTs \in Int
    BY RefTsAssumption, MaxTsAssumption DEF Timestamps
  <1> QED BY <1>1, StartsAtFirst DEF Init, LagInv, LagAt, Idle

(* Log events are returned with timestamps that may lag behind those they  *)
(* were logged at, but are never ahead of them and never go back.          *)
TimestampsLag ==
  /\ \A k \in DOMAIN delivered :
       \E i \in EventUnits :
         Index[i] = delivered[k].idx /\ delivered[k].ts <= Time[i + 1]
  /\ \A j, k \in DOMAIN delivered :
       j < k => delivered[j].ts <= delivered[k].ts

(* The reference timestamp is that of the last log event returned, and a   *)
(* call starts from there.                                                 *)
BehindRefTs ==
  /\ \A k \in DOMAIN delivered : hasMetadata /\ delivered[k].ts <= refTs
  /\ call.op = "log_event" => refTs <= call.ts

(* A step keeps what was returned behind the reference timestamp.          *)
LEMMA NextTimestampsLag ==
  ASSUME InTimeOrder, DecTypes, BufP!TypeInv, BufP!BytesIntact, LagInv,
         BehindRefTs, TimestampsLag, [Next]_vars
  PROVE  BehindRefTs' /\ TimestampsLag'
  <1>1. PICK j \in 1 .. Len(Units) + 1 :
          At(j) /\ Index[j] = numDecoded /\ LagAt(j)
    BY DEF LagInv
  <1>t. /\ refTs \in Int /\ call.ts \in Int /\ delivered \in Seq(Deliveries)
        /\ \A k \in DOMAIN delivered : delivered[k].ts \in Int
    <2>1. delivered \in Seq(Deliveries)
      BY DEF DecTypes
    <2>2. \A k \in DOMAIN delivered : delivered[k] \in Deliveries
      BY <2>1
    <2> QED BY <2>1, <2>2 DEF DecTypes, Calls, Deliveries
  <1>2. ASSUME NEW i \in DOMAIN Units, ConsumesEvent(i)
        PROVE  BehindRefTs' /\ TimestampsLag'
    <2> DEFINE ts == call.ts + Units[i].delta
               e == [idx |-> numDecoded, ts |-> ts, query |-> call.query]
    <2>1. i = j
      BY <1>1, <1>2, SameConsumedOffset DEF ConsumesEvent, Consumes
    <2>2. /\ i \in EventUnits /\ Index[i] = numDecoded
          /\ Time[i + 1] = Time[i] + Units[i].delta /\ Time[i] \in Int
          /\ Units[i].delta \in Int /\ Units[i].delta >= 0
      BY <1>1, <1>2, <2>1, UnitSums, UnitFacts
      DEF ConsumesEvent, InTimeOrder, EventUnits
    <2>3. /\ hasMetadata /\ hasMetadata' /\ ts \in Int
          /\ call.op = "log_event"
          /\ ts <= Time[i + 1] /\ refTs <= ts
      BY <1>1, <1>2, <1>t, <2>1, <2>2 DEF ConsumesEvent, LagAt, BehindRefTs
    <2>4. FilterLogEvent(Units[i], ts)
      BY <1>2 DEF ConsumesEvent
    <2> HIDE DEF ts
    <2>5. CASE ReturnLogEvent(ts)
      <3>1. e \in Deliveries /\ delivered' = Append(delivered, e)
        BY <2>3, <2>5 DEF ReturnLogEvent, DecTypes, Calls, Deliveries
      <3>2. e.idx = numDecoded /\ e.ts = ts
        OBVIOUS
      <3>3. refTs' = ts /\ call'.op # "log_event"
        BY <2>5 DEF ReturnLogEvent, Return, Idle
      <3> HIDE DEF e
      <3>4. /\ DOMAIN delivered = 1 .. Len(delivered)
            /\ DOMAIN delivered' = 1 .. Len(delivered) + 1
            /\ Len(delivered) \in Nat
            /\ \A k \in DOMAIN delivered : delivered'[k] = delivered[k]
            /\ delivered'[Len(delivered) + 1] = e
        BY <1>t, <3>1
      <3>5. \A k \in DOMAIN delivered : delivered[k].ts <= ts
        BY <1>t, <2>3 DEF BehindRefTs
      <3>6. BehindRefTs'
        BY <2>3, <3>2, <3>3, <3>4, <3>5 DEF BehindRefTs
      <3>7. TimestampsLag'
        <4>1. ASSUME NEW k \in DOMAIN delivered'
              PROVE  \E n \in EventUnits :
                       /\ Index[n] = delivered'[k].idx
                       /\ delivered'[k].ts <= Time[n + 1]
          <5>1. CASE k \in DOMAIN delivered
            BY <3>4, <5>1 DEF TimestampsLag
          <5>2. CASE k \notin DOMAIN delivered
            <6>1. delivered'[k] = e
              BY <3>4, <5>2
            <6> QED BY <2>2, <2>3, <3>2, <6>1
          <5> QED BY <5>1, <5>2
        <4>2. ASSUME NEW m \in DOMAIN delivered', NEW k \in DOMAIN delivered',
                     m < k
              PROVE  delivered'[m].ts <= delivered'[k].ts
          <5>1. m \in DOMAIN delivered
            BY <3>4, <4>2
          <5>2. CASE k \in DOMAIN delivered
            BY <3>4, <4>2, <5>1, <5>2 DEF TimestampsLag
          <5>3. CASE k \notin DOMAIN delivered
            <6>1. delivered'[k] = e
              BY <3>4, <5>3
            <6> QED BY <3>2, <3>4, <3>5, <5>1, <6>1
          <5> QED BY <5>2, <5>3
        <4> QED BY <4>1, <4>2 DEF TimestampsLag
      <3> QED BY <3>6, <3>7
    <2>6. CASE /\ UNCHANGED <<refTs, delivered>>
               /\ call' = Idle \/ call' = [call EXCEPT !.ts = ts]
      <3>1. call'.op = "log_event" => refTs' <= call'.ts
        BY <2>3, <2>6 DEF DecTypes, Calls, Idle
      <3> QED BY <2>3, <2>6, <3>1 DEF BehindRefTs, TimestampsLag
    <2> QED BY <2>4, <2>5, <2>6 DEF FilterLogEvent, Return
  <1>3. ASSUME UNCHANGED delivered,
               \/ hasMetadata => UNCHANGED <<hasMetadata, refTs>>
               \/ ~hasMetadata /\ hasMetadata',
               call'.op = "log_event" => refTs' <= call'.ts
        PROVE  BehindRefTs' /\ TimestampsLag'
    BY <1>3 DEF BehindRefTs, TimestampsLag
  <1>4. ASSUME NEW i \in DOMAIN Units, ConsumesOther(i)
        PROVE  BehindRefTs' /\ TimestampsLag'
    <2>1. call'.op # "log_event"
      BY <1>4
      DEF ConsumesOther, DecTypes, Calls, Stops, Return, Idle
    <2> QED BY <1>3, <1>4, <2>1 DEF ConsumesOther, Stops
  <1>5. CASE ConsumesNothing
    <2>1. UNCHANGED <<delivered, hasMetadata, refTs>>
      BY <1>5 DEF ConsumesNothing, Stops
    <2>2. call'.op = "log_event" => refTs' <= call'.ts
      BY <1>5, <1>t, <2>1
      DEF ConsumesNothing, Stops, Return, Idle, BehindRefTs
    <2> QED BY <1>3, <2>1, <2>2
  <1> QED BY <1>2, <1>4, <1>5, ConsumingSteps

(* Whichever searches ended in between, and whatever deltas they lost, no  *)
(* client is given a timestamp later than the one the log event was logged *)
(* at, nor one before a timestamp it was given earlier (decode's local     *)
(* copy and set_ref_timestamp).                                            *)
THEOREM TimestampsOnlyLag ==
  ASSUME CopyOrders = {"forward"}, InTimeOrder
  PROVE  Spec => []TimestampsLag
  <1> DEFINE LInv == LagInv /\ BehindRefTs /\ TimestampsLag
  <1>1. Init => LInv
    <2> SUFFICES ASSUME Init PROVE LInv
      OBVIOUS
    <2>1. LagInv
      BY InitLagInv
    <2> QED
      BY <2>1 DEF Init, Idle, BehindRefTs, TimestampsLag
  <1>2. LInv /\ DecTypes /\ BufP!TypeInv /\ BufP!BytesIntact /\ [Next]_vars
          => LInv'
    BY NextLagInv, NextTimestampsLag
  <1>3. Spec => []BufP!BytesIntact
    BY AlwaysBytesIntact
  <1> QED
    BY <1>1, <1>2, <1>3, AlwaysDecTypes, AlwaysBufferInv, PTL DEF Spec

-----------------------------------------------------------------------------
(* What the calls have left to use up.                                     *)
LEMMA BudgetType == BufP!TypeInv => CallBudget \in Nat
  <1> SUFFICES ASSUME BufP!TypeInv PROVE CallBudget \in Nat
    OBVIOUS
  <1>1. Buf!ConsumedOffset \in 0 .. streamPos /\ streamPos \in 0 .. StreamLen
    BY StreamLenType
    DEF Buf!ConsumedOffset, Buf!NumUnconsumed, BufP!TypeInv, BufP!TypeOK,
        BufP!NoPhantomBytes
  <1> QED BY <1>1, StreamLenType DEF CallBudget

(* Consuming a unit, beginning a read and bringing bytes use it up.        *)
LEMMA BudgetSpent ==
  ASSUME BufP!TypeInv, BufP!TypeInv',
         \/ \E i \in DOMAIN Units : Consumes(i)
         \/ Buf!BeginRead
         \/ \E n \in 1 .. StreamLen : Buf!ReadReturns(n)
  PROVE  CallBudget' \in 0 .. CallBudget - 1
  <1>1. CallBudget \in Nat /\ CallBudget' \in Nat
    <2>1. (BufP!TypeInv => CallBudget \in Nat)'
      BY BudgetType, PTL
    <2> QED BY <2>1, BudgetType
  <1>2. /\ streamPos \in Int /\ StreamLen \in Int
        /\ Buf!ConsumedOffset \in Int
    BY StreamLenType
    DEF BufP!TypeInv, BufP!TypeOK, Buf!ConsumedOffset, Buf!NumUnconsumed
  <1>3. ASSUME NEW i \in DOMAIN Units, Consumes(i)
        PROVE  CallBudget' < CallBudget
    <2>1. /\ streamPos' = streamPos /\ ~reading /\ ~reading'
          /\ Buf!ConsumedOffset' = Buf!ConsumedOffset + Units[i].len
          /\ Units[i].len \in Nat \ {0}
      <3>1. Units[i].len \in Nat \ {0}
        BY UnitFacts
      <3>2. /\ streamPos \in Int /\ bufSize \in Int /\ numConsumed \in Int
        BY DEF BufP!TypeInv, BufP!TypeOK
      <3>3. /\ ~reading /\ numConsumed' = numConsumed + Units[i].len
            /\ streamPos' = streamPos /\ bufSize' = bufSize
            /\ reading' = reading
        <4>1. Buf!Commit(Units[i].len) /\ Units[i].len <= Buf!NumUnconsumed
          BY <1>3 DEF Consumes, Ready
        <4>2. ~(Buf!NumUnconsumed < Units[i].len)
          BY <3>1, <3>2, <4>1 DEF Buf!NumUnconsumed
        <4> QED BY <4>1, <4>2 DEF Buf!Commit
      <3> QED
        BY <3>1, <3>2, <3>3 DEF Buf!ConsumedOffset, Buf!NumUnconsumed
    <2> QED BY <1>2, <2>1 DEF CallBudget
  <1>4. CASE Buf!BeginRead
    <2>1. /\ streamPos' = streamPos /\ ~reading /\ reading'
          /\ Buf!ConsumedOffset' = Buf!ConsumedOffset
      BY <1>4, OthersStay DEF Buf!BeginRead
    <2> QED BY <1>1, <1>2, <2>1 DEF CallBudget
  <1>5. ASSUME NEW n \in 1 .. StreamLen, Buf!ReadReturns(n)
        PROVE  CallBudget' < CallBudget
    <2>1. n \in 0 .. StreamLen /\ n \in Int /\ 1 <= n
      BY <1>2
    <2>2. /\ streamPos' = streamPos + n /\ reading /\ ~reading'
          /\ Buf!ConsumedOffset' = Buf!ConsumedOffset
      BY <1>5, <2>1, OthersStay DEF Buf!ReadReturns
    <2> QED BY <1>2, <2>1, <2>2 DEF CallBudget
  <1> QED BY <1>1, <1>3, <1>4, <1>5

(* A step of a call spends it or ends the call.                            *)
LEMMA StepSpends ==
  ASSUME BufP!TypeInv, BufP!TypeInv', DecoderStep \/ ReadFails
  PROVE  call' = Idle \/ CallBudget' \in 0 .. CallBudget - 1
  <1>1. CASE DecodeEncodingType \/ DecodePreamble \/ DecodeLogEvent
    <2>1. \/ \E i \in DOMAIN Units : Consumes(i)
          \/ Buf!BeginRead
          \/ call' = Idle
      BY <1>1
      DEF DecodeEncodingType, DecodePreamble, DecodeLogEvent, Consumes,
          ConsumeLogEvent, TryRead, RaiseDecodeError, Return
    <2> QED BY <2>1, BudgetSpent
  <1>2. CASE ReadReturns
    <2>1. PICK n \in 0 .. StreamLen : Buf!ReadReturns(n)
      BY <1>2 DEF ReadReturns
    <2>2. CASE n = 0
      BY <1>2, <2>1, <2>2 DEF ReadReturns, Buf!ReadReturns, Return
    <2>3. CASE n # 0
      <3>1. n \in 1 .. StreamLen
        BY <2>3, StreamLenType
      <3> QED BY <2>1, <3>1, BudgetSpent
    <2> QED BY <2>2, <2>3
  <1>3. CASE ReadFails
    BY <1>3 DEF ReadFails, Return
  <1> QED BY <1>1, <1>2, <1>3 DEF DecoderStep

(* The other steps do not give any back.                                   *)
LEMMA OthersKeepBudget ==
  ASSUME BufP!TypeInv, ClientStep \/ StreamGrows \/ UNCHANGED vars
  PROVE  CallBudget' = CallBudget
  <1>1. UNCHANGED <<streamPos, reading>>
    BY DEF ClientStep, CallDecodePreamble, CallDecodeNextLogEvent,
           StreamGrows, Buf!StreamGrows, vars, bufVars
  <1>2. Buf!ConsumedOffset' = Buf!ConsumedOffset
    BY OthersStay
    DEF ClientStep, CallDecodePreamble, CallDecodeNextLogEvent,
        StreamGrows, vars, bufVars
  <1> QED BY <1>1, <1>2 DEF CallBudget

(* Whatever the stream's reads return, and however it grows meanwhile, no  *)
(* call of a decoding method takes more steps than the budget: each step   *)
(* consumes a unit, brings bytes, begins a read or ends the call.          *)
THEOREM CallsMakeProgress == Spec => CallsProgress
  <1>1. ASSUME BufP!TypeInv, BufP!TypeInv', [Next]_vars
        PROVE  /\ DecoderStep \/ ReadFails
                    => call' = Idle \/ CallBudget' \in 0 .. CallBudget - 1
               /\ CallBudget' > CallBudget => call' = Idle
    <2>1. CallBudget \in Int
      BY <1>1, BudgetType
    <2>2. CASE DecoderStep \/ ReadFails
      BY <1>1, <2>1, <2>2, StepSpends
    <2>3. CASE ~(DecoderStep \/ ReadFails)
      BY <1>1, <2>1, <2>3, OthersKeepBudget DEF Next
    <2> QED BY <2>2, <2>3
  <1> QED BY <1>1, AlwaysBufferInv, PTL DEF Spec, CallsProgress

-----------------------------------------------------------------------------
(* The decoder implements a stream of log events.  First, how the log      *)
(* events are counted.                                                     *)
NumEvents == Cardinality(EventUnits)

(* The unit of a log event.                                                *)
LEMMA UnitOfEvent ==
  ASSUME NEW i \in EventUnits
  PROVE  /\ i \in DOMAIN Units /\ Units[i].kind = "event"
         /\ i \in 1 .. Len(Units) /\ Len(Units) \in Nat
         /\ Index[i + 1] = Index[i] + 1
         /\ Index[i] \in Nat
  BY UnitsAssumption, UnitFacts, UnitSums DEF EventUnits

(* The log events are a finite set.                                        *)
LEMMA EventsFinite ==
  /\ EventUnits \subseteq 1 .. Len(Units) /\ Len(Units) \in Nat
  /\ IsFiniteSet(EventUnits)
  <1>1. EventUnits \subseteq 1 .. Len(Units) /\ Len(Units) \in Nat
    BY UnitsAssumption DEF EventUnits
  <1>2. IsFiniteSet(1 .. Len(Units))
    BY <1>1, FS_Interval
  <1> QED BY <1>1, <1>2, FS_Subset

(* The log events before a unit.                                           *)
Before(k) == {i \in EventUnits : i < k}

LEMMA BeforeFacts ==
  /\ Before(1) = {}
  /\ \A k \in 1 .. Len(Units) :
       Before(k + 1) = Before(k) \cup (IF k \in EventUnits THEN {k} ELSE {})
  /\ \A k \in Int : k \notin Before(k) /\ IsFiniteSet(Before(k))
  /\ \A k, l \in Int : k <= l => Before(k) \subseteq Before(l)
  <1>1. Len(Units) \in Nat
    BY EventsFinite
  <1>2. ASSUME NEW i \in EventUnits PROVE i \in Int /\ 1 <= i
    BY EventsFinite
  <1>3. Before(1) = {}
    BY <1>2 DEF Before
  <1>4. ASSUME NEW k \in 1 .. Len(Units)
        PROVE  Before(k + 1)
                 = Before(k) \cup (IF k \in EventUnits THEN {k} ELSE {})
    <2>1. \A i \in EventUnits : i < k + 1 <=> i < k \/ i = k
      BY <1>1, <1>2
    <2>2. k < k + 1
      BY <1>1
    <2> QED BY <2>1, <2>2 DEF Before
  <1>5. ASSUME NEW k \in Int, NEW l \in Int, k <= l
        PROVE  Before(k) \subseteq Before(l)
    BY <1>2, <1>5 DEF Before
  <1>6. ASSUME NEW k \in Int
        PROVE  k \notin Before(k) /\ IsFiniteSet(Before(k))
    <2>1. Before(k) \subseteq EventUnits
      BY DEF Before
    <2> QED BY <2>1, EventsFinite, FS_Subset DEF Before
  <1> QED BY <1>3, <1>4, <1>5, <1>6

(* Index, the running sum of the log events, counts those before a unit.   *)
LEMMA IndexCounts ==
  ASSUME NEW i \in 1 .. Len(Units) + 1
  PROVE  Index[i] = Cardinality(Before(i))
  <1> DEFINE S == {k \in 1 .. Len(Units) + 1 :
                     Index[k] = Cardinality(Before(k))}
  <1>1. 1 \in S
    BY BeforeFacts, FS_EmptySet, StartsAtFirst
  <1>2. ASSUME NEW k \in DOMAIN Units, k \in S PROVE k + 1 \in S
    <2>1. /\ k \in 1 .. Len(Units) /\ k \in Int
          /\ k + 1 \in 1 .. Len(Units) + 1
      BY UnitFacts, UnitsAssumption
    <2>2. /\ IsFiniteSet(Before(k)) /\ k \notin Before(k)
          /\ Index[k] = Cardinality(Before(k))
      BY <1>2, <2>1, BeforeFacts
    <2>3. CASE k \in EventUnits
      <3>1. Before(k + 1) = Before(k) \cup {k}
        BY <2>1, <2>3, BeforeFacts
      <3>2. Index[k + 1] = Index[k] + 1
        BY <2>3, UnitSums DEF EventUnits
      <3> QED BY <2>1, <2>2, <3>1, <3>2, FS_AddElement
    <2>4. CASE k \notin EventUnits
      <3>1. Before(k + 1) = Before(k)
        <4>1. Before(k + 1)
                = Before(k) \cup (IF k \in EventUnits THEN {k} ELSE {})
          BY <2>1, BeforeFacts
        <4> QED BY <2>4, <4>1
      <3>2. Index[k + 1] = Index[k]
        BY <2>4, UnitSums DEF EventUnits
      <3> QED BY <2>1, <2>2, <3>1, <3>2
    <2> QED BY <2>3, <2>4
  <1> HIDE DEF S
  <1>3. i \in S
    BY <1>1, <1>2, UnitInduction
  <1> QED BY <1>3 DEF S

(* Units are in the order of their offsets and of their log events.        *)
LEMMA UnitsOrdered ==
  ASSUME NEW i \in 1 .. Len(Units) + 1, NEW j \in 1 .. Len(Units) + 1,
         i <= j
  PROVE  /\ Start[i] \in Nat /\ Start[j] \in Nat /\ Start[i] <= Start[j]
         /\ Index[i] \in Nat /\ Index[j] \in Nat /\ Index[i] <= Index[j]
  <1>1. /\ Start[i] \in Nat /\ Start[j] \in Nat
        /\ Index[i] \in Nat /\ Index[j] \in Nat
    BY LayoutAssumption
  <1>2. i \in Int /\ j \in Int
    BY EventsFinite
  <1>3. Start[i] <= Start[j]
    <2>1. i < j => Start[i] < Start[j]
      BY StartsIncrease
    <2> QED BY <1>1, <1>2, <2>1
  <1>4. Index[i] <= Index[j]
    <2>1. Before(i) \subseteq Before(j) /\ IsFiniteSet(Before(j))
      BY <1>2, BeforeFacts
    <2>2. Cardinality(Before(i)) <= Cardinality(Before(j))
      BY <2>1, FS_Subset
    <2> QED BY <2>2, IndexCounts
  <1> QED BY <1>1, <1>3, <1>4

(* The log events before a unit, and those of a part of the stream.        *)
LEMMA CountFacts ==
  /\ IsFiniteSet(EventUnits) /\ NumEvents \in Nat
  /\ Index[Len(Units) + 1] = NumEvents
  /\ \A S \in SUBSET EventUnits :
       IsFiniteSet(S) /\ Cardinality(S) \in 0 .. NumEvents
  <1>1. EventUnits \subseteq 1 .. Len(Units) /\ Len(Units) \in Nat
    BY EventsFinite
  <1>2. IsFiniteSet(EventUnits)
    BY EventsFinite
  <1>3. NumEvents \in Nat
    BY <1>2, FS_CardinalityType DEF NumEvents
  <1>4. Before(Len(Units) + 1) = EventUnits
    <2>1. \A j \in EventUnits : j < Len(Units) + 1
      BY UnitOfEvent
    <2> QED BY <2>1 DEF Before
  <1>5. Index[Len(Units) + 1] = NumEvents
    BY <1>1, <1>4, IndexCounts DEF NumEvents
  <1>6. ASSUME NEW S \in SUBSET EventUnits
        PROVE  IsFiniteSet(S) /\ Cardinality(S) \in 0 .. NumEvents
    BY <1>2, <1>3, FS_Subset, FS_CardinalityType DEF NumEvents
  <1> QED BY <1>2, <1>3, <1>5, <1>6

(* The log events within an offset in unit j are those before j.           *)
LEMMA EventsBefore ==
  ASSUME NEW j \in 1 .. Len(Units) + 1, NEW o \in Int, Start[j] <= o,
         j = Len(Units) + 1 \/ o < Start[j + 1]
  PROVE  EventsWithin(o) = Index[j]
  <1>1. ASSUME NEW i \in EventUnits
        PROVE  Start[i + 1] <= o <=> i < j
    <2>1. i \in 1 .. Len(Units) /\ Len(Units) \in Nat
      BY UnitOfEvent
    <2>2. CASE i < j
      <3>1. i + 1 \in 1 .. Len(Units) + 1 /\ i + 1 <= j
        BY <2>1, <2>2
      <3>2. Start[i + 1] <= Start[j] /\ Start[i + 1] \in Nat
            /\ Start[j] \in Nat
        BY <3>1, UnitsOrdered
      <3> QED BY <2>2, <3>2
    <2>3. CASE ~(i < j)
      <3>1. /\ j + 1 \in 1 .. Len(Units) + 1 /\ i + 1 \in 1 .. Len(Units) + 1
            /\ j + 1 <= i + 1
        BY <2>1, <2>3
      <3>2. Start[j + 1] <= Start[i + 1] /\ Start[i + 1] \in Nat
            /\ Start[j + 1] \in Nat
        BY <3>1, UnitsOrdered
      <3>3. o < Start[j + 1]
        BY <2>1, <2>3
      <3> QED BY <2>3, <3>2, <3>3
    <2> QED BY <2>2, <2>3
  <1>2. {i \in EventUnits : Start[i + 1] <= o} = Before(j)
    BY <1>1 DEF Before
  <1> QED BY <1>2, IndexCounts DEF EventsWithin

(* A unit that ends within an offset has its log event there.              *)
LEMMA EventsUpTo ==
  ASSUME NEW j \in DOMAIN Units, NEW o \in Int, Start[j + 1] <= o
  PROVE  Index[j + 1] <= EventsWithin(o)
  <1> DEFINE S == Before(j + 1)
             T == {i \in EventUnits : Start[i + 1] <= o}
  <1>1. ASSUME NEW i \in EventUnits, i < j + 1
        PROVE  Start[i + 1] <= o
    <2>1. i \in 1 .. Len(Units) /\ j \in 1 .. Len(Units)
          /\ Len(Units) \in Nat
      BY UnitOfEvent, UnitsAssumption
    <2>2. /\ Start[i + 1] <= Start[j + 1]
          /\ Start[i + 1] \in Nat /\ Start[j + 1] \in Nat
      BY <1>1, <2>1, UnitsOrdered
    <2> QED BY <2>2
  <1>2. S \subseteq T /\ T \subseteq EventUnits
    BY <1>1 DEF Before
  <1>3. Cardinality(S) <= Cardinality(T)
    BY <1>2, CountFacts, FS_Subset
  <1> QED BY <1>3, UnitFacts, IndexCounts DEF EventsWithin

(* More of the stream has no fewer log events.                             *)
LEMMA EventsGrow ==
  ASSUME NEW o \in Int, NEW p \in Int, o <= p
  PROVE  /\ EventsWithin(o) \in 0 .. NumEvents
         /\ EventsWithin(p) \in EventsWithin(o) .. NumEvents
  <1> DEFINE S == {i \in EventUnits : Start[i + 1] <= o}
             T == {i \in EventUnits : Start[i + 1] <= p}
  <1>1. \A i \in EventUnits : Start[i + 1] \in Nat
    BY UnitOfEvent, UnitFacts
  <1>2. S \subseteq T /\ T \subseteq EventUnits /\ S \subseteq EventUnits
    BY <1>1
  <1>3. Cardinality(S) <= Cardinality(T)
    BY <1>2, CountFacts, FS_Subset
  <1> QED BY <1>2, <1>3, CountFacts DEF EventsWithin

(* An index is less than the number of log events.                         *)
LEMMA IndexRange ==
  ASSUME NEW i \in EventUnits
  PROVE  Index[i] \in 0 .. NumEvents - 1
  <1>1. /\ i \in 1 .. Len(Units) /\ Len(Units) \in Nat
        /\ Index[i + 1] = Index[i] + 1 /\ Index[i] \in Nat
    BY UnitOfEvent
  <1>2. Index[i + 1] <= Index[Len(Units) + 1]
    BY <1>1, UnitsOrdered
  <1> QED BY <1>1, <1>2, CountFacts

(* Each index is that of one log event.                                    *)
LEMMA EventOfIndex ==
  /\ \A i, j \in EventUnits : Index[i] = Index[j] => i = j
  /\ \A k \in 0 .. NumEvents - 1 : \E i \in EventUnits : Index[i] = k
  <1>1. ASSUME NEW i \in EventUnits, NEW j \in EventUnits, i < j
        PROVE  Index[i] < Index[j]
    <2>1. /\ i \in 1 .. Len(Units) /\ j \in 1 .. Len(Units)
          /\ Len(Units) \in Nat
          /\ Index[i + 1] = Index[i] + 1 /\ Index[i] \in Nat
      BY UnitOfEvent
    <2>2. Index[i + 1] <= Index[j] /\ Index[j] \in Nat
      BY <1>1, <2>1, UnitsOrdered
    <2> QED BY <2>1, <2>2
  <1>2. ASSUME NEW i \in EventUnits, NEW j \in EventUnits,
               Index[i] = Index[j]
        PROVE  i = j
    <2>1. i \in Int /\ j \in Int /\ Index[i] \in Nat /\ Index[j] \in Nat
      BY UnitOfEvent
    <2> QED BY <1>1, <1>2, <2>1
  <1> DEFINE T == 0 .. NumEvents - 1
             f == [i \in EventUnits |-> Index[i]]
  <1>3. \A i \in EventUnits : Index[i] \in T
    BY IndexRange
  <1>4. f \in Injection(EventUnits, T)
    BY <1>2, <1>3 DEF Injection, IsInjective
  <1>5. IsFiniteSet(T) /\ Cardinality(T) = NumEvents
    <2>1. 0 \in Int /\ NumEvents - 1 \in Int /\ NumEvents \in Nat
      BY CountFacts
    <2>2. /\ IsFiniteSet(T)
          /\ Cardinality(T) = IF 0 > NumEvents - 1 THEN 0
                              ELSE NumEvents - 1 - 0 + 1
      BY <2>1, FS_Interval
    <2> QED BY <2>1, <2>2
  <1>6. f \in Surjection(EventUnits, T)
    BY <1>4, <1>5, FS_Injection DEF NumEvents
  <1>7. \A k \in T : \E i \in EventUnits : f[i] = k
    BY <1>6 DEF Surjection
  <1> QED BY <1>2, <1>7

(* The log event of unit i in the list of log events.                      *)
LEMMA EventFacts ==
  /\ Len(Events) = NumEvents
  /\ \A i \in EventUnits :
       /\ Index[i] \in 0 .. NumEvents - 1
       /\ Events[Index[i] + 1] =
            [ts |-> Time[i + 1], message |-> Units[i].message,
             attributes |-> Units[i].attributes]
  <1>1. Len(Events) = NumEvents
    BY CountFacts DEF Events, NumEvents
  <1>2. \A i \in EventUnits : Index[i] \in 0 .. NumEvents - 1
    BY IndexRange
  <1>3. ASSUME NEW i \in EventUnits
        PROVE  Events[Index[i] + 1] =
                 [ts |-> Time[i + 1], message |-> Units[i].message,
                  attributes |-> Units[i].attributes]
    <2> DEFINE unit(k) == CHOOSE j \in EventUnits : Index[j] = k - 1
               event(j) == [ts |-> Time[j + 1], message |-> Units[j].message,
                            attributes |-> Units[j].attributes]
               k == Index[i] + 1
    <2>1. k - 1 = Index[i] /\ k \in 1 .. NumEvents
      BY <1>2, CountFacts
    <2>2. unit(k) = i
      BY <2>1, EventOfIndex
    <2>3. Events = [n \in 1 .. NumEvents |-> event(unit(n))]
      BY DEF Events, NumEvents
    <2> HIDE DEF unit, event, k
    <2>4. Events[k] = event(i)
      BY <2>1, <2>2, <2>3
    <2> QED BY <2>4 DEF event, k
  <1> QED BY <1>1, <1>2, <1>3

-----------------------------------------------------------------------------
(* What is known while a call waits for bytes.                             *)

(* readinto runs only within a call.                                       *)
ReadingInCall == reading => call.op # "idle"

(* No read begins or goes on between two calls.                            *)
LEMMA NextReadingInCall ==
  ASSUME DecTypes, ReadingInCall, [Next]_vars
  PROVE  ReadingInCall'
  <1> USE DEF ReadingInCall
  <1>1. CASE ClientStep
    <2>1. call = Idle /\ UNCHANGED bufVars
      BY <1>1
      DEF ClientStep, CallDecodePreamble, CallDecodeNextLogEvent, MayCall
    <2>2. ~reading
      BY <2>1 DEF Idle
    <2>3. reading' = reading
      BY <2>1 DEF bufVars
    <2> QED BY <2>2, <2>3
  <1>2. ASSUME TryRead, call.op # "idle" PROVE ReadingInCall'
    BY <1>2 DEF TryRead, Continue, decVars, Buf!GrowFails
  <1>3. ASSUME RaiseDecodeError, ~reading PROVE ReadingInCall'
    BY <1>3 DEF RaiseDecodeError, bufVars
  <1>4. ASSUME NEW n, Buf!Commit(n), ~reading PROVE ReadingInCall'
    BY <1>4 DEF Buf!Commit
  <1>5. CASE DecodeEncodingType
    BY <1>2, <1>3, <1>4, <1>5 DEF DecodeEncodingType
  <1>6. CASE DecodePreamble
    BY <1>2, <1>3, <1>4, <1>6 DEF DecodePreamble
  <1>7. CASE DecodeLogEvent
    BY <1>2, <1>3, <1>4, <1>7
    DEF DecodeLogEvent, ConsumeLogEvent, bufVars
  <1>8. CASE ReadReturns \/ ReadFails
    BY <1>8 DEF ReadReturns, ReadFails, Buf!ReadReturns, Buf!ReadFails
  <1>9. CASE StreamGrows \/ UNCHANGED vars
    BY <1>9 DEF StreamGrows, Buf!StreamGrows, decVars, vars
  <1> QED
    BY <1>1, <1>5, <1>6, <1>7, <1>8, <1>9 DEF Next, DecoderStep

(* The unit that decode waits for is not there yet.                        *)
AwaitsUnit ==
  reading /\ call.op = "log_event" =>
    \A j \in DOMAIN Units : At(j) => Buf!NumUnconsumed < Units[j].len

(* The bytes at the front are those of the unit the decoder stands at.     *)
LEMMA FrontIsHere ==
  ASSUME NEW i \in FrontUnits, NEW j, BufP!TypeInv, BufP!BytesIntact, At(j)
  PROVE  i = j
  <1>1. /\ i \in DOMAIN Units
        /\ mem[numConsumed] = streamPos - bufSize + numConsumed
    BY DEF FrontUnits, Buf!NumUnconsumed, BufP!TypeInv, BufP!TypeOK,
           BufP!BytesIntact
  <1>2. Start[i] = Buf!ConsumedOffset
    BY <1>1
    DEF FrontUnits, Buf!ConsumedOffset, Buf!NumUnconsumed, BufP!TypeInv,
        BufP!TypeOK
  <1> QED BY <1>1, <1>2, UnitFacts, StartInjective DEF At

(* decode reads only while its unit is incomplete.                         *)
LEMMA NextAwaitsUnit ==
  ASSUME BufP!TypeInv, BufP!BytesIntact, DecTypes, ReadingInCall, AwaitsUnit,
         [Next]_vars
  PROVE  AwaitsUnit'
  <1>1. ASSUME Incomplete, Buf!BeginRead PROVE AwaitsUnit'
    <2>1. /\ Buf!NumUnconsumed' = Buf!NumUnconsumed
          /\ Buf!ConsumedOffset' = Buf!ConsumedOffset
      BY <1>1, OthersStay
      DEF Buf!BeginRead, Buf!NumUnconsumed, BufP!TypeInv, BufP!TypeOK
    <2>2. ASSUME NEW j \in DOMAIN Units, At(j)
          PROVE  Buf!NumUnconsumed < Units[j].len
      BY <1>1, <2>2, FrontIsHere, UnitFacts DEF Incomplete
    <2> QED BY <2>1, <2>2 DEF AwaitsUnit, At
  <1>2. CASE ~(Incomplete /\ Buf!BeginRead)
    <2>1. CASE UNCHANGED bufVars /\ UNCHANGED call
      BY <2>1
      DEF AwaitsUnit, At, bufVars, Buf!ConsumedOffset, Buf!NumUnconsumed
    <2>2. CASE StreamGrows
      BY <2>2
      DEF AwaitsUnit, At, StreamGrows, Buf!StreamGrows, decVars,
          Buf!ConsumedOffset, Buf!NumUnconsumed
    <2>3. ASSUME ~reading' PROVE AwaitsUnit'
      BY <2>3 DEF AwaitsUnit
    <2>4. CASE ClientStep
      <3>1. call = Idle /\ UNCHANGED bufVars
        BY <2>4
        DEF ClientStep, CallDecodePreamble, CallDecodeNextLogEvent, MayCall
      <3>2. ~reading /\ reading' = reading
        BY <3>1 DEF Idle, ReadingInCall, bufVars
      <3> QED BY <2>3, <3>2
    <2>5. CASE DecodeEncodingType \/ DecodePreamble \/ DecodeLogEvent
      <3>1. ~reading
        BY <2>5 DEF DecodeEncodingType, DecodePreamble, DecodeLogEvent
      <3>2. reading' = reading
        BY <1>2, <2>5
        DEF DecodeEncodingType, DecodePreamble, DecodeLogEvent,
            ConsumeLogEvent, TryRead, RaiseDecodeError, Buf!Commit,
            Buf!GrowFails, bufVars
      <3> QED BY <2>3, <3>1, <3>2
    <2>6. CASE ReadReturns \/ ReadFails
      BY <2>3, <2>6
      DEF ReadReturns, ReadFails, Buf!ReadReturns, Buf!ReadFails
    <2>7. CASE UNCHANGED vars
      BY <2>1, <2>7 DEF vars, bufVars
    <2> QED
      BY <2>2, <2>4, <2>5, <2>6, <2>7 DEF Next, DecoderStep
  <1> QED BY <1>1, <1>2

(* A read that brings nothing finds every published log event read.        *)
LEMMA NothingIsLeft ==
  ASSUME BufP!TypeInv, BufP!RoomInv, AwaitsUnit, call.op = "log_event",
         NEW n, Buf!ReadReturns(n), status' = "incomplete",
         NEW j \in 1 .. Len(Units) + 1, At(j)
  PROVE  EventsWithin(avail) = Index[j]
  <1>1. n = 0 /\ reading
    BY DEF Buf!ReadReturns
  <1>2. 0 < cap - bufSize
    BY <1>1 DEF BufP!RoomInv, BufP!ViewNeverEmpty, BufP!ViewSize
  <1>3. streamPos = avail
    BY <1>1, <1>2
    DEF Buf!ReadReturns, Buf!ReadSizes, Buf!ViewSize, BufP!TypeInv,
        BufP!TypeOK
  <1>4. /\ Start[j] <= avail /\ avail \in Int
        /\ avail = Start[j] + Buf!NumUnconsumed
    BY <1>3
    DEF At, Buf!ConsumedOffset, Buf!NumUnconsumed, BufP!TypeInv, BufP!TypeOK
  <1>5. CASE j = Len(Units) + 1
    BY <1>4, <1>5, EventsBefore
  <1>6. CASE j # Len(Units) + 1
    <2>1. j \in DOMAIN Units
      BY <1>6, UnitsAssumption
    <2>2. Buf!NumUnconsumed < Units[j].len
      BY <1>1, <2>1 DEF AwaitsUnit
    <2>3. Start[j + 1] = Start[j] + Units[j].len
          /\ Start[j] \in Nat /\ Units[j].len \in Nat
      BY <2>1, UnitFacts
    <2>4. avail < Start[j + 1]
      BY <1>4, <2>2, <2>3
      DEF Buf!NumUnconsumed, BufP!TypeInv, BufP!TypeOK
    <2> QED BY <1>4, <2>4, EventsBefore
  <1> QED BY <1>5, <1>6

-----------------------------------------------------------------------------
(* The refinement.                                                         *)

(* No log event follows the end-of-stream tag.                             *)
EofIsLast ==
  \A i \in DOMAIN Units :
    Units[i].kind = "eof" => Index[i] = Index[Len(Units) + 1]

(* The margin of each query covers the disorder of the stream: after a log *)
(* event safely past the query's range there is none in it.                *)
MarginCoversDisorder ==
  \A query \in Queries : \A i, j \in EventUnits :
    i <= j /\ TsSafelyOutside(query, Time[i + 1])
      => ~MatchesTimeRange(query, Time[j + 1])

(* Matching the attributes answers "match", or else something different.   *)
LEMMA AnswersExclude ==
  ASSUME NEW q, NEW ts, NEW event
  PROVE  "match" \in Answers(q, ts, event)
           => /\ MatchesTimeRange(q, ts)
              /\ "mismatch" \notin Answers(q, ts, event)
              /\ "unknown_name" \notin Answers(q, ts, event)
  BY DEF Answers, AttributeAnswers

(* The log event of a unit is wanted when its match answers so.            *)
LEMMA WantedUnit ==
  ASSUME NEW q, NEW i \in EventUnits
  PROVE  Stream!Wanted(q, Index[i]) <=>
           q = NoQuery \/ "match" \in Answers(q, Time[i + 1], Units[i])
  <1> DEFINE e == [ts |-> Time[i + 1], message |-> Units[i].message,
                   attributes |-> Units[i].attributes]
  <1>1. Events[Index[i] + 1] = e
    BY EventFacts
  <1>2. Stream!Wanted(q, Index[i]) <=>
          q = NoQuery \/ "match" \in Stream!Answers(q, e.ts, e)
    BY <1>1 DEF Stream!Wanted, Stream!Matches
  <1>3. Stream!Answers(q, e.ts, e) = Answers(q, Time[i + 1], Units[i])
    BY DEF Stream!Answers, Answers, Stream!MatchesTimeRange,
           MatchesTimeRange, Stream!MatchesWildcards, MatchesWildcards,
           Stream!AttributeAnswers, AttributeAnswers
  <1> QED BY <1>2, <1>3

(* After a log event safely past the range, none is wanted.                *)
LEMMA NoneWantedAfter ==
  ASSUME MarginCoversDisorder, NEW q \in Queries, NEW i \in EventUnits,
         TsSafelyOutside(q, Time[i + 1]),
         NEW k \in Index[i] .. NumEvents - 1
  PROVE  ~Stream!Wanted(q, k)
  <1>1. k \in 0 .. NumEvents - 1 /\ Index[i] \in Nat /\ k \in Nat
    BY UnitOfEvent, CountFacts
  <1>2. PICK j \in EventUnits : Index[j] = k
    BY <1>1, EventOfIndex
  <1>3. i <= j
    <2>1. /\ i \in 1 .. Len(Units) /\ j \in 1 .. Len(Units)
          /\ Len(Units) \in Nat /\ Index[j + 1] = Index[j] + 1
      BY UnitOfEvent
    <2>2. ASSUME j < i PROVE FALSE
      <3>1. Index[j + 1] <= Index[i]
        BY <2>1, <2>2, UnitsOrdered
      <3> QED BY <1>1, <1>2, <2>1, <3>1
    <2> QED BY <2>1, <2>2
  <1>4. ~MatchesTimeRange(q, Time[j + 1])
    BY <1>3 DEF MarginCoversDisorder
  <1>5. q # NoQuery
    BY NoQueryAssumption
  <1> QED BY <1>2, <1>4, <1>5, WantedUnit, AnswersExclude

(* A step that answers something else, or nothing that concerns the        *)
(* stream.                                                                 *)
LEMMA OtherAnswer ==
  ASSUME UNCHANGED <<avail, numDecoded>>,
         NEW kind \in {"metadata"} \cup Errors, Return(Gave(kind))
  PROVE  Stream!Other
  <1>1. EventsWithin(avail)' = EventsWithin(avail)
    BY DEF EventsWithin
  <1>2. call'.op # "log_event" /\ ret'.kind \notin {"event", "none"}
    BY DEF Return, Gave, Idle, Errors
  <1> QED BY <1>1, <1>2 DEF Stream!Other

LEMMA NoAnswer ==
  ASSUME UNCHANGED <<avail, numDecoded, ret>>,
         \/ UNCHANGED call
         \/ call.op # "log_event" /\ call'.op # "log_event"
         \/ /\ call.op = "log_event" /\ call'.op = "log_event"
            /\ call'.query = call.query
  PROVE  UNCHANGED Stream!streamVars
  <1>1. EventsWithin(avail)' = EventsWithin(avail)
    BY DEF EventsWithin
  <1> QED BY <1>1 DEF Stream!streamVars

(* A log event that decode takes is one that has been written.             *)
LEMMA TakenIsPublished ==
  ASSUME BufP!TypeInv, NEW i \in EventUnits, Ready(i), At(i)
  PROVE  /\ Index[i] < EventsWithin(avail)
         /\ EventsWithin(avail) \in 0 .. NumEvents
  <1>1. i \in DOMAIN Units /\ Index[i + 1] = Index[i] + 1
    BY UnitOfEvent
  <1>2. /\ Start[i + 1] = Start[i] + Units[i].len
        /\ Units[i].len \in Nat /\ Start[i] \in Nat /\ Index[i] \in Nat
    BY <1>1, UnitFacts
  <1>3. Start[i + 1] <= avail /\ avail \in Int
    BY <1>2
    DEF Ready, At, Buf!ConsumedOffset, Buf!NumUnconsumed, BufP!TypeInv,
        BufP!TypeOK
  <1>4. EventsWithin(avail) \in 0 .. NumEvents
    BY <1>3, EventsGrow
  <1>5. Index[i + 1] <= EventsWithin(avail)
    BY <1>1, <1>3, EventsUpTo
  <1> QED BY <1>1, <1>2, <1>4, <1>5, CountFacts

(* Filtering a log event gives it, skips it, ends or fails the request.    *)
LEMMA FilterRefines ==
  ASSUME MarginCoversDisorder, DecTypes, BufP!TypeInv,
         NEW i \in EventUnits, Ready(i), At(i), Index[i] = numDecoded,
         call.op = "log_event", call.ts = Time[i],
         ConsumeLogEvent(i),
         FilterLogEvent(Units[i], call.ts + Units[i].delta)
  PROVE  [Stream!SNext]_(Stream!streamVars)
  <1> DEFINE q == call.query
             ts == Time[i + 1]
             answers == Answers(q, ts, Units[i])
  <1>1. call.ts + Units[i].delta = ts
    BY UnitOfEvent, UnitSums
  <1>2. /\ q \in Queries \cup {NoQuery}
        /\ call' = Idle => call'.op # "log_event"
    BY DEF DecTypes, Calls, Idle
  <1>3. /\ numDecoded < EventsWithin(avail)
        /\ numDecoded' = numDecoded + 1
        /\ EventsWithin(avail)' = EventsWithin(avail)
        /\ numDecoded \in Nat
    BY TakenIsPublished
    DEF ConsumeLogEvent, Buf!Commit, EventsWithin, DecTypes
  <1>4. Stream!Wanted(q, numDecoded) <=> q = NoQuery \/ "match" \in answers
    BY WantedUnit
  <1>5. Events[numDecoded + 1].ts = ts
    <2>1. Events[Index[i] + 1] =
            [ts |-> Time[i + 1], message |-> Units[i].message,
             attributes |-> Units[i].attributes]
      BY EventFacts
    <2> QED BY <2>1
  <1> HIDE DEF ts, answers, q
  <1>6. FilterLogEvent(Units[i], ts)
    BY <1>1
  <1>7. CASE ReturnLogEvent(ts) /\ (q = NoQuery \/ "match" \in answers)
    <2>1. /\ ret' = [kind |-> "event", idx |-> numDecoded, ts |-> ts]
          /\ call'.op # "log_event"
      BY <1>2, <1>7 DEF ReturnLogEvent, Return
    <2>2. Stream!Give
      BY <1>3, <1>4, <1>5, <1>7, <2>1 DEF Stream!Give, q
    <2> QED BY <2>2 DEF Stream!SNext
  <1>8. CASE /\ q # NoQuery /\ TsSafelyOutside(q, ts)
             /\ Return(Gave("none"))
    <2>1. \A k \in numDecoded .. NumEvents - 1 : ~Stream!Wanted(q, k)
      BY <1>2, <1>8, NoneWantedAfter DEF ts
    <2>2. numDecoded \in numDecoded .. NumEvents - 1
      BY <1>3, CountFacts, IndexRange
    <2>3. /\ ret' = [kind |-> "none", idx |-> 0, ts |-> 0]
          /\ call'.op # "log_event"
      BY <1>2, <1>8 DEF Return, Gave
    <2>4. Stream!Skip
      BY <1>3, <2>1, <2>2 DEF Stream!Skip, q
    <2>5. Stream!End
      BY <1>3, <2>1, <2>3, <2>4, EventFacts DEF Stream!End, q
    <2> QED BY <2>5 DEF Stream!SNext
  <1>9. CASE /\ q # NoQuery /\ "mismatch" \in answers
             /\ call' = [call EXCEPT !.ts = ts] /\ UNCHANGED ret
    <2>1. ~Stream!Wanted(q, numDecoded)
      BY <1>4, <1>9, AnswersExclude DEF answers
    <2>2. call'.op = "log_event" /\ call'.query = call.query
      BY <1>9 DEF DecTypes, Calls
    <2>3. Stream!Skip
      BY <1>3, <2>1 DEF Stream!Skip, q
    <2> QED BY <1>3, <1>9, <2>2, <2>3 DEF Stream!SNext
  <1>10. CASE /\ q # NoQuery /\ "unknown_name" \in answers
              /\ Return(Gave("runtime_error"))
    <2>1. ~Stream!Wanted(q, numDecoded)
      BY <1>4, <1>10, AnswersExclude DEF answers
    <2>2. ret'.kind = "runtime_error" /\ call'.op # "log_event"
      BY <1>2, <1>10 DEF Return, Gave
    <2>3. Stream!Skip
      BY <1>3, <2>1 DEF Stream!Skip, q
    <2>4. Stream!Other
      BY <1>3, <2>2, <2>3 DEF Stream!Other
    <2> QED BY <2>4 DEF Stream!SNext
  <1> QED
    BY <1>6, <1>7, <1>8, <1>9, <1>10 DEF FilterLogEvent, answers, q

(* Reading and decoding errors, whatever the call.                         *)
LEMMA ReadingRefines ==
  ASSUME TryRead \/ RaiseDecodeError \/ ReadFails
  PROVE  [Stream!SNext]_(Stream!streamVars)
  <1>1. CASE \E kind \in Errors : Return(Gave(kind))
    <2>1. UNCHANGED <<avail, numDecoded>>
      BY <1>1
      DEF TryRead, RaiseDecodeError, ReadFails, Buf!GrowFails,
          Buf!BeginRead, Buf!ReadFails, bufVars, Continue, decVars
    <2> QED BY <1>1, <2>1, OtherAnswer DEF Stream!SNext
  <1>2. CASE Buf!BeginRead /\ Continue
    <2>1. UNCHANGED <<avail, numDecoded, ret, call>>
      BY <1>2 DEF Buf!BeginRead, Continue, decVars
    <2> QED BY <2>1, NoAnswer
  <1> QED BY <1>1, <1>2 DEF TryRead, RaiseDecodeError, ReadFails, Errors

(* The timestamp a call works on is right.                                 *)
CallClockInv ==
  \E i \in 1 .. Len(Units) + 1 :
    At(i) /\ Index[i] = numDecoded /\ CallClockAt(i)

(* Each step of the decoder is one of the stream of log events, or none.   *)
LEMMA StepRefinesStream ==
  ASSUME EofIsLast, MarginCoversDisorder, DecTypes, BufP!TypeInv,
         BufP!BytesIntact, BufP!RoomInv, CallClockInv, AwaitsUnit, [Next]_vars
  PROVE  [Stream!SNext]_(Stream!streamVars)
  <1>1. PICK j \in 1 .. Len(Units) + 1 :
          At(j) /\ Index[j] = numDecoded /\ CallClockAt(j)
    BY DEF CallClockInv
  <1>2. CASE CallDecodePreamble
    <2>1. /\ UNCHANGED <<avail, numDecoded, ret>>
          /\ call.op # "log_event" /\ call'.op # "log_event"
      BY <1>2 DEF CallDecodePreamble, MayCall, Idle, bufVars
    <2> QED BY <2>1, NoAnswer
  <1>3. ASSUME NEW query \in Queries \cup {NoQuery}, NEW allowIncomplete,
               CallDecodeNextLogEvent(query, allowIncomplete)
        PROVE  [Stream!SNext]_(Stream!streamVars)
    <2>1. UNCHANGED <<avail, numDecoded>> /\ call.op # "log_event"
      BY <1>3 DEF CallDecodeNextLogEvent, MayCall, Idle, bufVars
    <2>2. CASE hasMetadata
      <3>1. call'.op = "log_event" /\ call'.query = query /\ ret' = ret
        BY <1>3, <2>2 DEF CallDecodeNextLogEvent
      <3>2. EventsWithin(avail)' = EventsWithin(avail)
        BY <2>1 DEF EventsWithin
      <3>3. Stream!Ask(query)
        BY <2>1, <3>1, <3>2 DEF Stream!Ask
      <3> QED BY <3>3 DEF Stream!SNext
    <2>3. CASE Return(Gave("runtime_error"))
      BY <2>1, <2>3, OtherAnswer DEF Errors, Stream!SNext
    <2> QED BY <1>3, <2>2, <2>3 DEF CallDecodeNextLogEvent
  <1>4. CASE DecodeEncodingType
    <2>1. ASSUME NEW n, Buf!Commit(n), UNCHANGED numDecoded,
                 \/ call' = [call EXCEPT !.op = "preamble"] /\ UNCHANGED ret
                 \/ Return(Gave("not_implemented"))
          PROVE  [Stream!SNext]_(Stream!streamVars)
      <3>1. UNCHANGED <<avail, numDecoded>>
        BY <2>1 DEF Buf!Commit
      <3>2. CASE call' = [call EXCEPT !.op = "preamble"] /\ UNCHANGED ret
        <4>1. call.op # "log_event" /\ call'.op # "log_event"
          BY <1>4, <3>2 DEF DecodeEncodingType, DecTypes, Calls
        <4> QED BY <3>1, <3>2, <4>1, NoAnswer
      <3>3. CASE Return(Gave("not_implemented"))
        BY <3>1, <3>3, OtherAnswer DEF Errors, Stream!SNext
      <3> QED BY <2>1, <3>2, <3>3
    <2> QED BY <1>4, <2>1, ReadingRefines DEF DecodeEncodingType
  <1>5. CASE DecodePreamble
    <2>1. ASSUME NEW n, Buf!Commit(n), UNCHANGED numDecoded,
                 \/ Return(Gave("metadata"))
                 \/ Return(Gave("runtime_error"))
          PROVE  [Stream!SNext]_(Stream!streamVars)
      <3>1. UNCHANGED <<avail, numDecoded>>
        BY <2>1 DEF Buf!Commit
      <3> QED BY <2>1, <3>1, OtherAnswer DEF Errors, Stream!SNext
    <2> QED BY <1>5, <2>1, ReadingRefines DEF DecodePreamble
  <1>6. CASE DecodeLogEvent
    <2>0. call.op = "log_event"
      BY <1>6 DEF DecodeLogEvent
    <2>1. ASSUME NEW i \in DOMAIN Units, Ready(i), Units[i].kind = "event",
                 ConsumeLogEvent(i),
                 FilterLogEvent(Units[i], call.ts + Units[i].delta)
          PROVE  [Stream!SNext]_(Stream!streamVars)
      <3>1. i = j
        BY <1>1, <2>1, SameConsumedOffset
      <3>2. call.ts = Time[i] /\ i \in EventUnits
        BY <1>1, <2>0, <2>1, <3>1 DEF CallClockAt, EventUnits
      <3> QED BY <1>1, <2>0, <2>1, <3>1, <3>2, FilterRefines
    <2>2. ASSUME NEW i \in DOMAIN Units, Ready(i), Units[i].kind = "eof",
                 Return(Gave("none")), UNCHANGED numDecoded,
                 UNCHANGED bufVars
          PROVE  [Stream!SNext]_(Stream!streamVars)
      <3>1. i = j
        BY <1>1, <2>2, SameConsumedOffset
      <3>2. numDecoded = Len(Events) /\ numDecoded \in Nat
        BY <1>1, <2>2, <3>1, CountFacts, EventFacts DEF EofIsLast
      <3>3. \A k \in numDecoded .. Len(Events) - 1 : FALSE
        BY <3>2
      <3>4. EventsWithin(avail)' = EventsWithin(avail)
        BY <2>2 DEF EventsWithin, bufVars
      <3>5. ret' = [kind |-> "none", idx |-> 0, ts |-> 0]
            /\ call'.op # "log_event"
        BY <2>2 DEF Return, Gave, Idle
      <3>6. Stream!End
        BY <2>0, <2>2, <3>3, <3>4, <3>5 DEF Stream!End
      <3> QED BY <3>6 DEF Stream!SNext
    <2> QED BY <1>6, <2>1, <2>2, ReadingRefines DEF DecodeLogEvent
  <1>7. CASE ReadReturns
    <2>1. PICK n \in 0 .. StreamLen : Buf!ReadReturns(n)
      BY <1>7 DEF ReadReturns
    <2>2. UNCHANGED <<avail, numDecoded>>
      BY <1>7, <2>1
      DEF ReadReturns, Buf!ReadReturns, Continue, decVars
    <2>3. CASE Continue
      BY <2>2, <2>3, NoAnswer DEF Continue, decVars
    <2>4. CASE Return(Gave("incomplete_error"))
      BY <2>2, <2>4, OtherAnswer DEF Errors, Stream!SNext
    <2>5. CASE /\ status' = "incomplete" /\ call.op = "log_event"
               /\ Return(Gave("none"))
      <3>1. EventsWithin(avail) = numDecoded
        BY <1>1, <2>1, <2>5, NothingIsLeft
      <3>2. EventsWithin(avail)' = EventsWithin(avail)
        BY <2>2 DEF EventsWithin
      <3>3. ret' = [kind |-> "none", idx |-> 0, ts |-> 0]
            /\ call'.op # "log_event"
        BY <2>5 DEF Return, Gave, Idle
      <3>4. Stream!End
        BY <2>2, <2>5, <3>1, <3>2, <3>3 DEF Stream!End
      <3> QED BY <3>4 DEF Stream!SNext
    <2> QED
      BY <1>7, <2>3, <2>4, <2>5 DEF ReadReturns, IncompleteAnswer
  <1>8. CASE ReadFails
    BY <1>8, ReadingRefines
  <1>9. CASE StreamGrows
    <2>1. avail \in Int /\ avail' \in Int /\ avail <= avail'
      BY <1>9, StreamLenType
      DEF StreamGrows, Buf!StreamGrows, BufP!TypeInv, BufP!TypeOK
    <2>2. /\ EventsWithin(avail) \in 0 .. NumEvents
          /\ EventsWithin(avail') \in EventsWithin(avail) .. NumEvents
      BY <2>1, EventsGrow
    <2>3. EventsWithin(avail)' = EventsWithin(avail')
      BY DEF EventsWithin
    <2>4. UNCHANGED <<numDecoded, ret, call>>
      BY <1>9 DEF StreamGrows, decVars
    <2>5. CASE EventsWithin(avail') = EventsWithin(avail)
      BY <2>3, <2>4, <2>5 DEF Stream!streamVars
    <2>6. CASE EventsWithin(avail') # EventsWithin(avail)
      <3>1. EventsWithin(avail') \in EventsWithin(avail) + 1 .. Len(Events)
        BY <2>2, <2>6, CountFacts, EventFacts
      <3>2. Stream!Publish
        BY <2>3, <2>4, <3>1 DEF Stream!Publish
      <3> QED BY <3>2 DEF Stream!SNext
    <2> QED BY <2>5, <2>6
  <1>10. CASE UNCHANGED vars
    BY <1>10, NoAnswer DEF vars
  <1> QED
    BY <1>2, <1>3, <1>4, <1>5, <1>6, <1>7, <1>8, <1>9, <1>10
    DEF Next, ClientStep, DecoderStep

(* A new decoder is a new stream of log events.                            *)
LEMMA InitRefinesStream == ASSUME Init PROVE Stream!SInit
  <1>1. avail \in 0 .. StreamLen /\ 0 \in Int
    BY DEF Init, Buf!Init
  <1>2. EventsWithin(avail) \in 0 .. NumEvents
    BY <1>1, StreamLenType, EventsGrow
  <1>3. call.op # "log_event" /\ ret.kind \notin {"event", "none"}
    BY DEF Init, Idle, Gave
  <1> QED
    BY <1>2, <1>3, EventFacts DEF Init, Stream!SInit

(* A decoder whose calls work on the right timestamp implements the stream *)
(* of log events.                                                          *)
LEMMA ExactCallsRefine ==
  ASSUME CopyOrders = {"forward"}, 0 < InitCap, EofIsLast,
         MarginCoversDisorder
  PROVE  Spec /\ []CallClockInv => ImplementsLogEventStream
  <1> DEFINE DInv == /\ DecTypes /\ BufP!TypeInv /\ BufP!BytesIntact
                     /\ BufP!RoomInv
             WInv == ReadingInCall /\ AwaitsUnit
  <1>1. Spec => []BufP!BytesIntact
    BY AlwaysBytesIntact
  <1>2. Spec => []BufP!RoomInv
    <2>1. Init => BufP!RoomInv
      BY InitOfBuffer, BufP!InitRoomInv, StreamLenType, BufferAssumption
    <2>2. BufP!TypeInv /\ BufP!RoomInv /\ [BufP!Next]_(BufP!bufVars)
            => BufP!RoomInv'
      BY BufP!NextRoomInv, StreamLenType, BufferAssumption
    <2>3. BufP!TypeInv /\ BufP!RoomInv /\ [Next]_vars => BufP!RoomInv'
      BY <2>2, StepOfBuffer DEF bufVars, BufP!bufVars
    <2> QED BY <2>1, <2>3, AlwaysBufferInv, PTL DEF Spec
  <1>3. Spec => []DInv
    BY <1>1, <1>2, AlwaysDecTypes, AlwaysBufferInv, PTL
  <1>4. Init => WInv
    BY DEF Init, Buf!Init, Idle, ReadingInCall, AwaitsUnit
  <1>5. DInv /\ WInv /\ [Next]_vars => WInv'
    BY NextReadingInCall, NextAwaitsUnit
  <1>6. DInv /\ WInv /\ CallClockInv /\ [Next]_vars
          => [Stream!SNext]_(Stream!streamVars)
    BY StepRefinesStream
  <1>7. Init => Stream!SInit
    BY InitRefinesStream
  <1> QED
    BY <1>3, <1>4, <1>5, <1>6, <1>7, PTL
    DEF Spec, ImplementsLogEventStream, Stream!SSpec

(* decode_next_log_event, over its buffer and for any schedule of reads,   *)
(* implements the stream of log events: it gives the next log event asked  *)
(* for, and None only when nothing that was asked for is left.  For a      *)
(* client that stops at None or an error, or never searches, and queries   *)
(* whose margin covers the disorder of the stream.                         *)
THEOREM DecoderImplementsStream ==
  ASSUME CopyOrders = {"forward"}, 0 < InitCap, LosesNoDelta,
         EofIsLast, MarginCoversDisorder
  PROVE  Spec => ImplementsLogEventStream
  <1>1. Spec => [](ClockInv /\ TimestampsExact)
    BY AlwaysClockInv
  <1>2. ClockInv => CallClockInv
    BY DEF ClockInv, CallClockInv
  <1>3. Spec /\ []CallClockInv => ImplementsLogEventStream
    BY ExactCallsRefine
  <1> QED BY <1>1, <1>2, <1>3, PTL

-----------------------------------------------------------------------------
(* The hypothesis on the margins, from what the constructor of Query does  *)
(* with the margin it is given.                                            *)

(* No log event is logged d earlier than one written before it.            *)
Disorder(d) ==
  \A i, j \in EventUnits : i < j => Time[i + 1] - d <= Time[j + 1]

(* The queries were made with a margin of at least d.                      *)
MarginsAtLeast(d) ==
  \A q \in Queries :
    /\ q.upper \in MinTs .. MaxTs
    /\ \E margin \in d .. MaxTs :
         q.termination = TerminationTs(q.upper, margin)

(* No log event is later than the largest timestamp.                       *)
TimesFit == \A i \in EventUnits : Time[i + 1] <= MaxTs

(* A timestamp above the termination timestamp is above the upper bound by *)
(* more than the margin: the sum saturates, so it does not overflow.       *)
LEMMA MarginKept ==
  ASSUME NEW upper \in MinTs .. MaxTs, NEW margin \in 0 .. MaxTs,
         NEW ts \in Int, ts <= MaxTs, TerminationTs(upper, margin) < ts
  PROVE  upper + margin < ts
  BY MaxTsAssumption DEF TerminationTs, Wrapped, MinTs

(* A margin as large as the disorder covers it.                            *)
LEMMA MarginIsEnough ==
  ASSUME NEW d \in Nat, Disorder(d), MarginsAtLeast(d), TimesFit
  PROVE  MarginCoversDisorder
  <1> SUFFICES ASSUME NEW q \in Queries,
                      NEW i \in EventUnits, NEW j \in EventUnits,
                      i <= j, TsSafelyOutside(q, Time[i + 1])
               PROVE  ~MatchesTimeRange(q, Time[j + 1])
    BY DEF MarginCoversDisorder
  <1>1. /\ i \in Int /\ j \in Int
        /\ Time[i + 1] \in Int /\ Time[j + 1] \in Int
    <2>1. i \in DOMAIN Units /\ j \in DOMAIN Units
      BY DEF EventUnits
    <2>2. i \in 1 .. Len(Units) + 1 /\ j \in 1 .. Len(Units) + 1
      BY <2>1, UnitFacts
    <2>3. i + 1 \in 1 .. Len(Units) + 1 /\ j + 1 \in 1 .. Len(Units) + 1
      BY <2>1, UnitFacts
    <2>4. \A k \in 1 .. Len(Units) + 1 : Time[k] \in Int
      BY LayoutAssumption
    <2> QED BY <2>2, <2>3, <2>4
  <1>2. PICK margin \in d .. MaxTs :
          q.termination = TerminationTs(q.upper, margin)
    BY DEF MarginsAtLeast
  <1>3. q.upper \in MinTs .. MaxTs /\ margin \in 0 .. MaxTs
    BY MaxTsAssumption DEF MarginsAtLeast
  <1>4. q.upper + margin < Time[i + 1]
    BY <1>1, <1>2, <1>3, MarginKept DEF TsSafelyOutside, TimesFit
  <1>5. Time[i + 1] - d <= Time[j + 1]
    BY <1>1 DEF Disorder
  <1> QED
    BY <1>1, <1>2, <1>3, <1>4, <1>5, MaxTsAssumption
    DEF MatchesTimeRange, MinTs

(* A stream written in the order of time has no disorder.                  *)
LEMMA OrderedHasNoDisorder == ASSUME InTimeOrder PROVE Disorder(0)
  <1> SUFFICES ASSUME NEW i \in EventUnits, NEW j \in EventUnits, i < j
               PROVE  Time[i + 1] - 0 <= Time[j + 1]
    BY DEF Disorder
  <1> DEFINE S == {k \in 1 .. Len(Units) + 1 :
                     i + 1 <= k => Time[i + 1] <= Time[k]}
  <1>1. /\ i \in DOMAIN Units /\ j \in DOMAIN Units
        /\ i \in Nat /\ j \in Nat /\ Len(Units) \in Nat /\ 0 < i
        /\ i + 1 \in 1 .. Len(Units) + 1 /\ j + 1 \in 1 .. Len(Units) + 1
    BY UnitsAssumption DEF EventUnits
  <1>2. \A k \in 1 .. Len(Units) + 1 : Time[k] \in Int
    BY LayoutAssumption
  <1>3. 1 \in S
    BY <1>1, <1>2
  <1>4. ASSUME NEW k \in DOMAIN Units, k \in S PROVE k + 1 \in S
    <2>1. /\ k + 1 \in 1 .. Len(Units) + 1 /\ k \in Nat
          /\ Time[k] \in Int /\ Time[k + 1] \in Int
      BY <1>2, <1>4, UnitFacts
    <2>2. Time[k] <= Time[k + 1]
      <3>1. CASE Units[k].kind = "event"
        <4>1. Units[k].delta \in Int /\ Units[k].delta >= 0
          BY <1>4, <3>1, UnitFacts DEF InTimeOrder, EventUnits
        <4>2. Time[k + 1] = Time[k] + Units[k].delta
          BY <1>4, <3>1, UnitSums
        <4> QED BY <2>1, <4>1, <4>2
      <3>2. CASE Units[k].kind # "event"
        BY <1>4, <2>1, <3>2, UnitSums
      <3> QED BY <3>1, <3>2
    <2>3. i + 1 <= k + 1 => i + 1 <= k \/ i = k
      BY <1>1, <2>1
    <2> QED BY <1>1, <1>2, <1>4, <2>1, <2>2, <2>3
  <1> HIDE DEF S
  <1>5. j + 1 \in S
    BY <1>1, <1>3, <1>4, UnitInduction
  <1> QED BY <1>1, <1>2, <1>5 DEF S

(* The same refinement with no hypothesis on what the queries would find.  *)
(* A search made with a margin as large as the disorder of the stream      *)
(* misses nothing, whatever its range, also where the range and the margin *)
(* add up to more than the largest timestamp (Query's constructor).        *)
THEOREM MarginSearchesStream ==
  ASSUME CopyOrders = {"forward"}, 0 < InitCap, LosesNoDelta, EofIsLast,
         NEW d \in Nat, Disorder(d), MarginsAtLeast(d), TimesFit
  PROVE  Spec => ImplementsLogEventStream
  BY MarginIsEnough, DecoderImplementsStream

(* On a stream written in the order of time every margin will do, none     *)
(* included.                                                               *)
THEOREM OrderedStreamIsSearched ==
  ASSUME CopyOrders = {"forward"}, 0 < InitCap, LosesNoDelta, EofIsLast,
         InTimeOrder, MarginsAtLeast(0), TimesFit
  PROVE  Spec => ImplementsLogEventStream
  BY OrderedHasNoDisorder, MarginSearchesStream

=============================================================================
