--------------------------- MODULE ByteQueueProofs ---------------------------
(***************************************************************************)
(* DecoderBuffer implements ByteQueue: the refinement, step by step.  And  *)
(* what its client test_streaming reads from it is the stream.             *)
(***************************************************************************)
EXTENDS DecoderBufferProofs, StreamingTest, SequenceTheorems

-----------------------------------------------------------------------------
(* The n bytes of the stream from an offset on.                            *)
Span(offset, n) == [i \in 1 .. n |-> offset + i - 1]

(* Consecutive bytes are a sequence of bytes.                              *)
LEMMA SpanType ==
  ASSUME NEW o \in Int, NEW n \in Nat
  PROVE  /\ Span(o, n) \in Seq(Int)
         /\ Len(Span(o, n)) = n
         /\ \A i \in 1 .. n : Span(o, n)[i] = o + i - 1
  BY DEF Span

(* Two spans that follow each other make one.                              *)
LEMMA SpanConcat ==
  ASSUME NEW o \in Int, NEW m \in Nat, NEW n \in Nat
  PROVE  Span(o, m) \o Span(o + m, n) = Span(o, m + n)
  <1> DEFINE s == Span(o, m)
             t == Span(o + m, n)
             u == Span(o, m + n)
  <1>1. /\ s \in Seq(Int) /\ t \in Seq(Int) /\ u \in Seq(Int)
        /\ Len(s) = m /\ Len(t) = n /\ Len(u) = m + n
    BY SpanType
  <1>2. /\ s \o t \in Seq(Int)
        /\ Len(s \o t) = m + n
        /\ \A i \in 1 .. m + n :
             (s \o t)[i] = IF i <= m THEN s[i] ELSE t[i - m]
    <2> HIDE DEF s, t
    <2> QED BY <1>1, ConcatProperties
  <1>3. ASSUME NEW i \in 1 .. m + n PROVE (s \o t)[i] = u[i]
    <2>1. u[i] = o + i - 1
      <3>1. m + n \in Nat
        OBVIOUS
      <3> QED BY <3>1, SpanType
    <2>2. CASE i <= m
      <3>1. s[i] = o + i - 1
        BY <2>2, SpanType
      <3> HIDE DEF s, t, u
      <3> QED BY <1>2, <2>1, <2>2, <3>1
    <2>3. CASE ~(i <= m)
      <3>1. i - m \in 1 .. n
        BY <2>3
      <3>2. t[i - m] = (o + m) + (i - m) - 1
        BY <3>1, SpanType
      <3> HIDE DEF s, t, u
      <3> QED BY <1>2, <2>1, <2>3, <3>2
    <2> QED BY <2>2, <2>3
  <1> HIDE DEF s, t, u
  <1>4. s \o t = u
    BY <1>1, <1>2, <1>3, SeqEqual
  <1> QED BY <1>4 DEF s, t, u

(* Dropping the first bytes of a span leaves a span.                       *)
LEMMA SpanSuffix ==
  ASSUME NEW o \in Int, NEW m \in Nat, NEW n \in 0 .. m
  PROVE  SubSeq(Span(o, m), n + 1, Len(Span(o, m))) = Span(o + n, m - n)
  <1> DEFINE s == Span(o, m)
             t == SubSeq(s, n + 1, m)
             u == Span(o + n, m - n)
  <1>1. /\ Len(s) = m
        /\ u \in Seq(Int) /\ Len(u) = m - n
        /\ \A i \in 1 .. m : s[i] = o + i - 1
        /\ \A i \in 1 .. m - n : u[i] = (o + n) + i - 1
    BY SpanType
  <1>2. \A i \in n + 1 .. m : s[i] \in Int
    BY <1>1
  <1> HIDE DEF s, u
  <1>3. /\ t \in Seq(Int)
        /\ Len(t) = IF n + 1 <= m THEN m - (n + 1) + 1 ELSE 0
        /\ \A i \in 1 .. m - (n + 1) + 1 : t[i] = s[(n + 1) + i - 1]
    BY <1>2, SubSeqProperties
  <1> HIDE DEF t
  <1>4. Len(t) = m - n
    BY <1>3
  <1>5. ASSUME NEW i \in 1 .. m - n PROVE t[i] = u[i]
    <2>1. i \in 1 .. m - (n + 1) + 1 /\ (n + 1) + i - 1 \in 1 .. m
      OBVIOUS
    <2> QED BY <1>1, <1>3, <2>1
  <1>6. t = u
    BY <1>1, <1>3, <1>4, <1>5, SeqEqual
  <1> QED BY <1>1, <1>6 DEF s, t, u

-----------------------------------------------------------------------------
(* Intact bytes are the last span the stream handed out.                   *)
LEMMA UnconsumedIsSpan ==
  ASSUME TypeOK, BytesIntact
  PROVE  Unconsumed = Span(ConsumedOffset, NumUnconsumed)
  <1> SUFFICES ASSUME NEW i \in 1 .. NumUnconsumed
               PROVE  mem[numConsumed + i - 1] = ConsumedOffset + i - 1
    BY DEF Unconsumed, Span
  <1>1. /\ numConsumed + i - 1 \in 0 .. cap - 1
        /\ numConsumed <= numConsumed + i - 1
        /\ numConsumed + i - 1 < bufSize
    BY DEF TypeOK, NumUnconsumed
  <1>2. mem[numConsumed + i - 1] = streamPos - bufSize + (numConsumed + i - 1)
    BY <1>1 DEF BytesIntact
  <1> QED
    BY <1>2 DEF TypeOK, NumUnconsumed, ConsumedOffset

(* Every step of the buffer is a step of the queue or leaves it alone.     *)
LEMMA StepRefinesQueue ==
  ASSUME TypeInv, BytesIntact, TypeInv', BytesIntact', [Next]_bufVars
  PROVE  [Queue!QNext]_(Queue!queueVars)
  <1>1. /\ Unconsumed = Span(ConsumedOffset, NumUnconsumed)
        /\ ConsumedOffset \in Int /\ NumUnconsumed \in Nat
        /\ ConsumedOffset + NumUnconsumed = streamPos
        /\ Len(Unconsumed) = NumUnconsumed
    <2>1. Unconsumed = Span(ConsumedOffset, NumUnconsumed)
      BY UnconsumedIsSpan DEF TypeInv
    <2>2. /\ ConsumedOffset \in Int /\ NumUnconsumed \in Nat
          /\ ConsumedOffset + NumUnconsumed = streamPos
      BY DEF TypeInv, TypeOK, NumUnconsumed, ConsumedOffset
    <2> QED BY <2>1, <2>2, SpanType
  <1>2. Unconsumed' = Span(ConsumedOffset', NumUnconsumed')
    <2>1. /\ TypeOK /\ BytesIntact
              => Unconsumed = Span(ConsumedOffset, NumUnconsumed)
          /\ TypeOK' /\ BytesIntact'
              => (Unconsumed = Span(ConsumedOffset, NumUnconsumed))'
      BY UnconsumedIsSpan, PTL
    <2> QED BY <2>1 DEF TypeInv, Span
  <1>3. CASE BeginRead
    <2>1. NumUnconsumed' = NumUnconsumed /\ ConsumedOffset' = ConsumedOffset
      BY <1>3 DEF BeginRead, NumUnconsumed, ConsumedOffset, TypeInv, TypeOK
    <2>2. UNCHANGED Queue!queueVars
      BY <1>1, <1>2, <1>3, <2>1 DEF BeginRead, Queue!queueVars
    <2> QED BY <2>2
  <1>4. ASSUME NEW n \in 0 .. ViewSize, ReadReturns(n)
        PROVE  [Queue!QNext]_(Queue!queueVars)
    <2>1. /\ n \in Nat /\ streamPos + n <= avail
          /\ NumUnconsumed' = NumUnconsumed + n
          /\ ConsumedOffset' = ConsumedOffset
          /\ streamPos' = streamPos + n /\ avail' = avail
      BY <1>4
      DEF ReadReturns, ReadSizes, ViewSize, NumUnconsumed, ConsumedOffset,
          TypeInv, TypeOK
    <2>2. Unconsumed' = Unconsumed \o Span(streamPos, n)
      BY <1>1, <1>2, <2>1, SpanConcat
    <2>3. CASE n = 0
      <3>1. UNCHANGED <<Unconsumed, streamPos, avail>>
        BY <1>1, <1>2, <2>1, <2>3 DEF TypeInv, TypeOK
      <3> QED BY <3>1 DEF Queue!queueVars
    <2>4. CASE n # 0
      <3>1. n \in 1 .. StreamLen
        BY <2>1, <2>4, StreamLenAssumption DEF TypeInv, TypeOK
      <3>2. Queue!Read(n)
        BY <2>1, <2>2 DEF Queue!Read, Span
      <3> QED BY <3>1, <3>2 DEF Queue!QNext
    <2> QED BY <2>3, <2>4
  <1>5. ASSUME NEW n \in 1 .. NumUnconsumed + 1, Commit(n)
        PROVE  [Queue!QNext]_(Queue!queueVars)
    <2>1. CASE NumUnconsumed < n
      <3>1. UNCHANGED <<Unconsumed, streamPos, avail>>
        BY <1>5, <2>1 DEF Commit, Unconsumed, NumUnconsumed
      <3> QED BY <3>1 DEF Queue!queueVars
    <2>2. CASE ~(NumUnconsumed < n)
      <3>1. /\ NumUnconsumed' = NumUnconsumed - n
            /\ ConsumedOffset' = ConsumedOffset + n
            /\ n \in 0 .. NumUnconsumed
            /\ UNCHANGED <<streamPos, avail>>
        BY <1>5, <2>2, StreamLenAssumption
        DEF Commit, NumUnconsumed, ConsumedOffset, TypeInv, TypeOK
      <3>2. Unconsumed' = SubSeq(Unconsumed, n + 1, Len(Unconsumed))
        BY <1>1, <1>2, <3>1, SpanSuffix
      <3>3. n \in 1 .. StreamLen
        BY <1>1, <3>1, StreamLenAssumption
        DEF NumUnconsumed, TypeInv, TypeOK, NoPhantomBytes
      <3>4. Queue!Consume(n)
        BY <1>1, <3>1, <3>2 DEF Queue!Consume
      <3> QED BY <3>3, <3>4 DEF Queue!QNext
    <2> QED BY <2>1, <2>2
  <1>6. ASSUME NEW n \in 1 .. StreamLen, StreamGrows(n)
        PROVE  [Queue!QNext]_(Queue!queueVars)
    <2>1. Queue!Write(n)
      BY <1>6 DEF StreamGrows, Queue!Write, Unconsumed, NumUnconsumed
    <2> QED BY <1>6, <2>1 DEF Queue!QNext
  <1>7. CASE GrowFails \/ ReadFails \/ UNCHANGED bufVars
    <2>1. UNCHANGED <<mem, bufSize, numConsumed, streamPos, avail>>
      BY <1>7 DEF GrowFails, ReadFails, bufVars
    <2> QED BY <2>1 DEF Queue!queueVars, Unconsumed, NumUnconsumed
  <1> QED
    BY <1>3, <1>4, <1>5, <1>6, <1>7 DEF Next

(* The decoder buffer implements a first-in first-out queue of the bytes   *)
(* of its stream, for every capacity, stream and schedule, when memcpy     *)
(* moves overlapping bytes as memmove does.                                *)
THEOREM BufferImplementsByteQueue ==
  ASSUME CopyOrders = {"forward"} PROVE Spec => ImplementsByteQueue
  <1>1. Init => Queue!QInit
    <2> SUFFICES ASSUME Init PROVE Queue!QInit
      OBVIOUS
    <2>1. Unconsumed = <<>>
      BY DEF Init, Unconsumed, NumUnconsumed
    <2> QED BY <2>1 DEF Init, Queue!QInit
  <1>2. TypeInv /\ BytesIntact /\ TypeInv' /\ BytesIntact' /\ [Next]_bufVars
          => [Queue!QNext]_(Queue!queueVars)
    BY StepRefinesQueue
  <1> QED
    BY <1>1, <1>2, AlwaysTypeInv, BytesStayIntact, PTL
    DEF Spec, ImplementsByteQueue, Queue!QSpec

-----------------------------------------------------------------------------
(* test_streaming.                                                         *)

(* Taking the first bytes of a span takes a span.                          *)
LEMMA SpanPrefix ==
  ASSUME NEW o \in Int, NEW m \in Nat, NEW n \in 0 .. m
  PROVE  SubSeq(Span(o, m), 1, n) = Span(o, n)
  <1> DEFINE s == Span(o, m)
             t == SubSeq(s, 1, n)
             u == Span(o, n)
  <1>1. /\ u \in Seq(Int) /\ Len(u) = n
        /\ \A i \in 1 .. m : s[i] = o + i - 1
        /\ \A i \in 1 .. n : u[i] = o + i - 1
    BY SpanType
  <1>2. \A i \in 1 .. n : s[i] \in Int
    BY <1>1
  <1> HIDE DEF s, u
  <1>3. /\ t \in Seq(Int)
        /\ Len(t) = IF 1 <= n THEN n - 1 + 1 ELSE 0
        /\ \A i \in 1 .. n - 1 + 1 : t[i] = s[1 + i - 1]
    BY <1>2, SubSeqProperties
  <1> HIDE DEF t
  <1>4. Len(t) = n /\ \A i \in 1 .. n : t[i] = u[i]
    BY <1>1, <1>3
  <1>5. t = u
    BY <1>1, <1>3, <1>4, SeqEqual
  <1> QED BY <1>5 DEF s, t, u

(* The invariants of the buffer hold for its client test_streaming too,    *)
(* which may consume no byte at all.                                       *)
LEMMA CommitNothing ==
  ASSUME TypeInv, BytesIntact, Commit(0)
  PROVE  TypeInv' /\ BytesIntact'
  BY DEF Commit, TypeInv, TypeOK, NoPhantomBytes, NumUnconsumed, Outcomes,
         BytesIntact

LEMMA TestStepOfBuffer ==
  ASSUME TypeInv, [TestNext]_streamVars, request \in Nat,
         loop = "consume" => request <= NumUnconsumed
  PROVE  [Next]_bufVars \/ Commit(0)
  <1>1. CASE Consume
    <2>1. request = 0 \/ request \in 1 .. NumUnconsumed + 1
      BY <1>1 DEF Consume, TypeInv, TypeOK, NumUnconsumed
    <2> QED BY <1>1, <2>1 DEF Consume, Next
  <1>2. CASE Refill \/ Refilled \/ RefillFails
    BY <1>2 DEF Refill, Refilled, RefillFails, Next
  <1>3. CASE TestStreaming \/ Draw \/ Returned \/ OtherClient \/ Grows
    BY <1>3 DEF TestStreaming, Draw, Returned, OtherClient, Grows, Next
  <1>4. CASE UNCHANGED streamVars
    BY <1>4 DEF streamVars
  <1> QED BY <1>1, <1>2, <1>3, <1>4 DEF TestNext

(* What the test has read ends where the buffer's unconsumed bytes begin;  *)
(* it consumes what is there, and all of it at the end of the stream.      *)
ReadIsSpan == loop # "off" => readBytes = Span(0, ConsumedOffset)
LoopInv ==
  /\ loop \in {"off", "draw", "refill", "consume", "returned", "aborted"}
  /\ request \in Nat
  /\ loop = "off" => readBytes = <<>>
  /\ loop \in {"off", "draw", "refill"} => atEnd = FALSE
  /\ loop \notin {"off", "refill"} => ~reading
  /\ loop = "refill" /\ reading => numConsumed = 0 /\ NumUnconsumed < request
  /\ loop = "consume" => /\ request <= NumUnconsumed
                         /\ atEnd => request = NumUnconsumed
  /\ loop = "returned" => NumUnconsumed = 0

LEMMA InitLoopInv == TestInit => LoopInv /\ ReadIsSpan
  BY DEF TestInit, NotTesting, LoopInv, ReadIsSpan

LEMMA NextLoopInv ==
  ASSUME TypeInv, LoopInv, [TestNext]_streamVars
  PROVE  LoopInv'
  <1> USE DEF LoopInv, NumUnconsumed
  <1>1. CASE TestStreaming
    BY <1>1 DEF TestStreaming, bufVars
  <1>2. CASE Draw
    <2>1. request' \in Nat
      BY <1>2, MaxRequestAssumption DEF Draw, TypeInv, TypeOK
    <2> QED BY <1>2, <2>1 DEF Draw, bufVars
  <1>3. CASE Refill
    <2>1. CASE NumUnconsumed < request /\ BeginRead /\ UNCHANGED testVars
      BY <1>3, <2>1 DEF Refill, BeginRead, testVars, TypeInv, TypeOK
    <2>2. CASE NumUnconsumed < request /\ GrowFails /\ StopTesting
      BY <2>2 DEF StopTesting
    <2>3. CASE /\ request <= NumUnconsumed
               /\ loop' = "consume"
               /\ UNCHANGED <<request, atEnd, readBytes>>
               /\ UNCHANGED bufVars
      BY <1>3, <2>3 DEF Refill, bufVars
    <2> QED BY <1>3, <2>1, <2>2, <2>3 DEF Refill
  <1>4. CASE Refilled
    <2>1. PICK n \in 0 .. ViewSize : ReadReturns(n)
      BY <1>4 DEF Refilled
    <2>2. /\ numConsumed = 0 /\ bufSize < request
          /\ numConsumed' = 0 /\ bufSize' = bufSize + n
          /\ n \in Nat /\ bufSize \in Nat /\ ~reading'
      <3>1. bufSize \in Nat /\ cap \in Nat /\ n \in Nat
        BY <2>1 DEF ViewSize, TypeInv, TypeOK
      <3>2. reading /\ ~reading' /\ bufSize' = bufSize + n
            /\ numConsumed' = numConsumed
        BY <2>1 DEF ReadReturns
      <3>3. numConsumed = 0 /\ bufSize - numConsumed < request
        BY <1>4, <3>2 DEF Refilled
      <3> QED BY <3>1, <3>2, <3>3
    <2>4. atEnd' => n = 0
      <3>1. atEnd' = (status' = "incomplete")
        BY <1>4 DEF Refilled
      <3>2. n # 0 => status' = "ok"
        BY <2>1 DEF ReadReturns
      <3> QED BY <3>1, <3>2
    <2>3. /\ request' \in Nat /\ request' <= bufSize'
          /\ n = 0 => request' = bufSize'
          /\ loop' = "consume"
      BY <1>4, <2>2 DEF Refilled
    <2> QED BY <2>2, <2>3, <2>4
  <1>5. CASE RefillFails \/ Returned
    BY <1>5 DEF RefillFails, Returned, StopTesting
  <1>6. CASE Consume
    BY <1>6 DEF Consume, Commit, TypeInv, TypeOK
  <1>7. CASE OtherClient
    BY <1>7 DEF OtherClient, testVars
  <1>8. CASE Grows
    BY <1>8 DEF Grows, StreamGrows, testVars
  <1>9. CASE UNCHANGED streamVars
    BY <1>9 DEF streamVars, testVars, bufVars
  <1> QED
    BY <1>1, <1>2, <1>3, <1>4, <1>5, <1>6, <1>7, <1>8, <1>9 DEF TestNext

LEMMA NextReadIsSpan ==
  ASSUME TypeInv, BytesIntact, LoopInv, ReadIsSpan, [TestNext]_streamVars
  PROVE  ReadIsSpan'
  <1>1. /\ ConsumedOffset \in Nat /\ NumUnconsumed \in Nat
        /\ streamPos = 0 => ConsumedOffset = 0
    BY DEF TypeInv, TypeOK, NoPhantomBytes, ConsumedOffset, NumUnconsumed
  <1>2. CASE TestStreaming
    <2>1. readBytes' = <<>> /\ ConsumedOffset' = 0
      BY <1>1, <1>2
      DEF TestStreaming, LoopInv, bufVars, ConsumedOffset, NumUnconsumed
    <2>2. Span(0, 0) = <<>>
      BY DEF Span
    <2> QED BY <2>1, <2>2 DEF ReadIsSpan, Span
  <1>3. CASE Consume
    <2>1. Unconsumed = Span(ConsumedOffset, NumUnconsumed)
      BY UnconsumedIsSpan DEF TypeInv
    <2>2. request \in 0 .. NumUnconsumed
      BY <1>1, <1>3 DEF Consume, LoopInv
    <2>3. SubSeq(Unconsumed, 1, request) = Span(ConsumedOffset, request)
      <3>1. \A o \in Int, m \in Nat : \A n \in 0 .. m :
              SubSeq(Span(o, m), 1, n) = Span(o, n)
        BY SpanPrefix
      <3>2. ConsumedOffset \in Int /\ NumUnconsumed \in Nat
        BY <1>1
      <3> QED BY <2>1, <2>2, <3>1, <3>2, Zenon
    <2>4. readBytes' = Span(0, ConsumedOffset) \o Span(ConsumedOffset, request)
      BY <1>3, <2>3 DEF Consume, ReadIsSpan
    <2>5. readBytes' = Span(0, ConsumedOffset + request)
      <3>1. \A o \in Int, m \in Nat, n \in Nat :
              Span(o, m) \o Span(o + m, n) = Span(o, m + n)
        BY SpanConcat
      <3>2. /\ request \in Nat /\ ConsumedOffset \in Nat /\ 0 \in Int
            /\ 0 + ConsumedOffset = ConsumedOffset
        BY <1>1, <2>2
      <3>3. Span(0, ConsumedOffset) \o Span(0 + ConsumedOffset, request)
              = Span(0, ConsumedOffset + request)
        BY <3>1, <3>2, Zenon
      <3> QED BY <2>4, <3>2, <3>3
    <2>6. ConsumedOffset' = ConsumedOffset + request
      BY <1>3, <2>2
      DEF Consume, Commit, ConsumedOffset, NumUnconsumed, TypeInv, TypeOK
    <2> QED BY <2>5, <2>6 DEF ReadIsSpan, Span
  <1>4. ASSUME loop # "off", readBytes' = readBytes,
               ConsumedOffset' = ConsumedOffset
        PROVE  ReadIsSpan'
    BY <1>4 DEF ReadIsSpan, Span
  <1>5. CASE Draw \/ Grows
    BY <1>4, <1>5
    DEF Draw, Grows, StreamGrows, testVars, bufVars, ConsumedOffset,
        NumUnconsumed
  <1>6. CASE Refill
    <2>1. CASE StopTesting
      BY <2>1 DEF StopTesting, ReadIsSpan
    <2>2. CASE BeginRead /\ UNCHANGED testVars
      <3>1. ConsumedOffset' = ConsumedOffset
        BY <2>2 DEF BeginRead, ConsumedOffset, NumUnconsumed, TypeInv, TypeOK
      <3> QED BY <1>4, <1>6, <2>2, <3>1 DEF Refill, testVars
    <2>3. CASE UNCHANGED readBytes /\ UNCHANGED bufVars
      BY <1>4, <1>6, <2>3
      DEF Refill, bufVars, ConsumedOffset, NumUnconsumed
    <2> QED BY <1>6, <2>1, <2>2, <2>3 DEF Refill
  <1>7. CASE Refilled
    <2>1. PICK n \in 0 .. ViewSize : ReadReturns(n)
      BY <1>7 DEF Refilled
    <2>2. n \in Int
      BY DEF ViewSize, TypeInv, TypeOK
    <2>3. ConsumedOffset' = ConsumedOffset
      BY <2>1, <2>2
      DEF ReadReturns, ConsumedOffset, NumUnconsumed, TypeInv, TypeOK
    <2> QED BY <1>4, <1>7, <2>3 DEF Refilled
  <1>8. CASE RefillFails \/ Returned
    BY <1>8 DEF RefillFails, Returned, StopTesting, ReadIsSpan
  <1>9. CASE OtherClient
    BY <1>9 DEF OtherClient, testVars, ReadIsSpan
  <1>10. CASE UNCHANGED streamVars
    BY <1>10
    DEF streamVars, testVars, bufVars, ReadIsSpan, ConsumedOffset,
        NumUnconsumed, Span
  <1> QED
    BY <1>2, <1>3, <1>5, <1>6, <1>7, <1>8, <1>9, <1>10 DEF TestNext

(* Whatever sizes that are not negative test_streaming draws, it has read  *)
(* the stream's bytes, each once and in order, up to the last one          *)
(* consumed, and all that the buffer held when it returns                  *)
(* (PyDecoderBuffer::test_streaming).                                      *)
THEOREM StreamingReadsTheStream ==
  ASSUME CopyOrders = {"forward"}
  PROVE  TestSpec => []StreamingReturnsStream
  <1> DEFINE SInv == TypeInv /\ BytesIntact /\ LoopInv /\ ReadIsSpan
  <1>1. TestInit => SInv
    <2>1. Init => BytesIntact
      BY InitCapAssumption DEF Init, BytesIntact
    <2> QED BY <2>1, InitTypeInv, InitLoopInv DEF TestInit
  <1>2. SInv /\ [TestNext]_streamVars => SInv'
    <2> SUFFICES ASSUME SInv, [TestNext]_streamVars PROVE SInv'
      OBVIOUS
    <2>1. [Next]_bufVars \/ Commit(0)
      BY TestStepOfBuffer DEF LoopInv
    <2>2. TypeInv' /\ BytesIntact'
      BY <2>1, CommitNothing, NextTypeInv, NextBytesIntact
    <2> QED BY <2>2, NextLoopInv, NextReadIsSpan
  <1>3. SInv => StreamingReturnsStream
    <2> SUFFICES ASSUME SInv, loop # "off"
                 PROVE  /\ readBytes = [k \in 1 .. ConsumedOffset |-> k - 1]
                        /\ loop = "returned" => NumUnconsumed = 0
      BY DEF StreamingReturnsStream
    <2>1. readBytes = Span(0, ConsumedOffset)
      BY DEF ReadIsSpan
    <2> QED BY <2>1 DEF Span, LoopInv
  <1> QED BY <1>1, <1>2, <1>3, PTL DEF TestSpec

=============================================================================
