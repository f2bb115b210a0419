------------------------- MODULE DecoderBufferProofs -------------------------
(***************************************************************************)
(* Theorems about DecoderBuffer for every capacity, stream and schedule.   *)
(***************************************************************************)
EXTENDS DecoderBuffer, TLAPS

-----------------------------------------------------------------------------
(* Arithmetic of the growth rule: halving a capacity.                      *)
LEMMA HalfOf ==
  ASSUME NEW c \in Nat
  PROVE  /\ c \div 2 \in Nat
         /\ 2 * (c \div 2) <= c
         /\ c <= 2 * (c \div 2) + 1
  OBVIOUS

(* The size of a view that does not begin at its end.                      *)
LEMMA PositiveDifference ==
  ASSUME NEW b \in Int, NEW c \in Int, b < c
  PROVE  0 < c - b
  OBVIOUS

(* The type invariant, and that the unconsumed bytes never outnumber those *)
(* the stream handed out.                                                  *)
TypeInv == TypeOK /\ NoPhantomBytes

(* A larger buffer is filled with bytes of the old one.                    *)
LEMMA GrownType ==
  ASSUME TypeOK
  PROVE  Grown \in [0 .. 2 * cap - 1 -> Int]
  <1> USE DEF TypeOK, Grown, NumUnconsumed, Uninit
  <1> SUFFICES ASSUME NEW k \in 0 .. 2 * cap - 1, k < bufSize - numConsumed
               PROVE  mem[numConsumed + k] \in Int
    OBVIOUS
  <1>1. numConsumed + k \in 0 .. cap - 1
    OBVIOUS
  <1> QED BY <1>1

(* A new buffer has its cursors at the beginning.                          *)
LEMMA InitTypeInv == Init => TypeInv
  <1> SUFFICES ASSUME Init PROVE TypeInv
    OBVIOUS
  <1> USE InitCapAssumption, StreamLenAssumption DEF Init
  <1>1. mem \in [0 .. cap - 1 -> Int]
    BY DEF Uninit
  <1>2. cap \in Nat /\ bufSize \in 0 .. cap /\ numConsumed \in 0 .. bufSize
    OBVIOUS
  <1>3. streamPos \in 0 .. StreamLen /\ avail \in streamPos .. StreamLen
    OBVIOUS
  <1>4. status \in Outcomes /\ NoPhantomBytes
    BY DEF Outcomes, NoPhantomBytes
  <1> QED BY <1>1, <1>2, <1>3, <1>4 DEF TypeInv, TypeOK

(* Wherever memcpy takes the byte of position k from, it is a byte of the  *)
(* buffer: copying down reads at most numConsumed past the moved region.   *)
LEMMA DivProduct ==
  ASSUME NEW a \in Nat, NEW b \in Nat \ {0}
  PROVE  /\ a \div b \in Nat
         /\ b * (a \div b) \in Nat
         /\ b * (a \div b) <= a
  OBVIOUS

(* In whichever order memcpy moves them, bytes come from the buffer.       *)
LEMMA ShiftedType ==
  ASSUME TypeOK, NEW order
  PROVE  Shifted(order) \in [0 .. cap - 1 -> Int]
  <1> DEFINE U == NumUnconsumed
             Jump(k) == IF order = "forward" \/ numConsumed = 0
                        THEN numConsumed
                        ELSE numConsumed * ((U - k - 1) \div numConsumed + 1)
  <1>0. /\ numConsumed \in Nat /\ bufSize \in Nat /\ cap \in Nat
        /\ numConsumed <= bufSize /\ bufSize <= cap
        /\ U \in Nat /\ U + numConsumed = bufSize
    BY DEF TypeOK, NumUnconsumed
  <1>1. ASSUME NEW k \in 0 .. cap - 1, k < U
        PROVE  k + Jump(k) \in 0 .. cap - 1
    <2>1. CASE order = "forward" \/ numConsumed = 0
      BY <1>0, <1>1, <2>1
    <2>2. CASE ~(order = "forward" \/ numConsumed = 0)
      <3> DEFINE q == (U - k - 1) \div numConsumed
      <3>1. U - k - 1 \in Nat /\ numConsumed \in Nat \ {0}
        BY <1>0, <1>1, <2>2
      <3>2. /\ q \in Nat
            /\ numConsumed * q \in Nat
            /\ numConsumed * q <= U - k - 1
        BY <3>1, DivProduct
      <3>3. Jump(k) = numConsumed * (q + 1)
        BY <2>2
      <3>4. numConsumed * (q + 1) = numConsumed * q + numConsumed
        BY <3>1, <3>2
      <3> HIDE DEF q, U, Jump
      <3>5. QED
        BY <1>0, <1>1, <3>1, <3>2, <3>3, <3>4
    <2>3. QED BY <2>1, <2>2
  <1>2. ASSUME NEW k \in 0 .. cap - 1
        PROVE  (IF k < U THEN mem[k + Jump(k)] ELSE mem[k]) \in Int
    <2> HIDE DEF U, Jump
    <2> QED BY <1>1, <1>2 DEF TypeOK
  <1>3. Shifted(order)
          = [k \in 0 .. cap - 1 |-> IF k < U THEN mem[k + Jump(k)] ELSE mem[k]]
    BY DEF Shifted
  <1> HIDE DEF U, Jump
  <1> QED BY <1>2, <1>3

(* No operation of the buffer takes a cursor past the next one.            *)
LEMMA NextTypeInv == TypeInv /\ [Next]_bufVars => TypeInv'
  <1> SUFFICES ASSUME TypeInv, [Next]_bufVars PROVE TypeInv'
    OBVIOUS
  <1> USE DEF TypeInv
  <1>1. CASE BeginRead
    <2>1. cap' \in Nat /\ mem' \in [0 .. cap' - 1 -> Int] /\ cap <= cap'
      <3>1. CASE MustGrow
        BY <1>1, <3>1, GrownType DEF BeginRead, TypeOK
      <3>2. CASE ~MustGrow
        BY <1>1, <3>2, ShiftedType DEF BeginRead, TypeOK
      <3> QED BY <3>1, <3>2
    <2>2. bufSize' \in 0 .. cap' /\ numConsumed' \in 0 .. bufSize'
      BY <1>1, <2>1 DEF BeginRead, TypeOK, NumUnconsumed
    <2>3. NoPhantomBytes'
      BY <1>1 DEF BeginRead, TypeOK, NumUnconsumed, NoPhantomBytes
    <2> QED
      BY <1>1, <2>1, <2>2, <2>3 DEF BeginRead, TypeOK
  <1>2. CASE GrowFails
    BY <1>2 DEF GrowFails, TypeOK, NoPhantomBytes, Outcomes
  <1>3. ASSUME NEW n \in 0 .. ViewSize, ReadReturns(n) PROVE TypeInv'
    <2>1. n \in Nat /\ n <= cap - bufSize /\ streamPos + n <= avail
      BY <1>3 DEF ReadReturns, ReadSizes, ViewSize, TypeOK
    <2>2. mem' \in [0 .. cap - 1 -> Int]
      BY <1>3, <2>1 DEF ReadReturns, TypeOK
    <2>3. /\ bufSize' \in 0 .. cap' /\ numConsumed' \in 0 .. bufSize'
          /\ streamPos' \in 0 .. StreamLen
          /\ avail' \in streamPos' .. StreamLen
      BY <1>3, <2>1, StreamLenAssumption DEF ReadReturns, TypeOK
    <2>4. NoPhantomBytes'
      BY <1>3, <2>1 DEF ReadReturns, TypeOK, NoPhantomBytes
    <2> QED
      BY <1>3, <2>2, <2>3, <2>4 DEF ReadReturns, TypeOK, Outcomes
  <1>4. CASE ReadFails
    BY <1>4 DEF ReadFails, TypeOK, NoPhantomBytes, Outcomes
  <1>5. ASSUME NEW n \in 1 .. NumUnconsumed + 1, Commit(n) PROVE TypeInv'
    BY <1>5, StreamLenAssumption
    DEF Commit, TypeOK, NoPhantomBytes, NumUnconsumed, Outcomes
  <1>6. ASSUME NEW n \in 1 .. StreamLen, StreamGrows(n) PROVE TypeInv'
    BY <1>6, StreamLenAssumption DEF StreamGrows, TypeOK, NoPhantomBytes
  <1>7. CASE UNCHANGED bufVars
    BY <1>7 DEF bufVars, TypeOK, NoPhantomBytes
  <1> QED
    BY <1>1, <1>2, <1>3, <1>4, <1>5, <1>6, <1>7 DEF Next

(* Whatever the client and the stream do, every field keeps its type and   *)
(* the cursors of PyDecoderBuffer stay ordered inside the allocation.      *)
THEOREM TypeCorrect == Spec => []TypeOK
  <1>1. Spec => []TypeInv
    BY InitTypeInv, NextTypeInv, PTL DEF Spec
  <1>2. TypeInv => TypeOK
    BY DEF TypeInv
  <1> QED BY <1>1, <1>2, PTL

(* The invariant the other theorems start from.                            *)
LEMMA AlwaysTypeInv == Spec => []TypeInv
  BY InitTypeInv, NextTypeInv, PTL DEF Spec

-----------------------------------------------------------------------------
(* The buffer protocol is disabled again on every way out of readinto, so  *)
(* no Python code outside it can obtain a view of the buffer.              *)
THEOREM ProtocolCorrect == Spec => []ProtocolOnlyWhileReading
  <1>1. Init => ProtocolOnlyWhileReading
    BY DEF Init, ProtocolOnlyWhileReading
  <1>2. ProtocolOnlyWhileReading /\ [Next]_bufVars
          => ProtocolOnlyWhileReading'
    <2> SUFFICES ASSUME ProtocolOnlyWhileReading, [Next]_bufVars
                 PROVE  ProtocolOnlyWhileReading'
      OBVIOUS
    <2>1. CASE BeginRead
      BY <2>1 DEF BeginRead, ProtocolOnlyWhileReading
    <2>2. ASSUME NEW n \in 0 .. ViewSize, ReadReturns(n)
          PROVE  ProtocolOnlyWhileReading'
      BY <2>2 DEF ReadReturns, ProtocolOnlyWhileReading
    <2>3. CASE ReadFails
      BY <2>3 DEF ReadFails, ProtocolOnlyWhileReading
    <2>4. CASE UNCHANGED <<protocolEnabled, reading>>
      BY <2>4 DEF ProtocolOnlyWhileReading
    <2> QED
      BY <2>1, <2>2, <2>3, <2>4
      DEF Next, GrowFails, Commit, StreamGrows, bufVars
  <1> QED BY <1>1, <1>2, PTL DEF Spec

-----------------------------------------------------------------------------
(* The growth rule leaves room for readinto: what remains after a refill   *)
(* is at most half of the capacity, or less than all of a doubled one.     *)
RoomInv == 0 < cap /\ ViewNeverEmpty

(* A new buffer of at least a byte is not being read into.                 *)
LEMMA InitRoomInv == ASSUME 0 < InitCap PROVE Init => RoomInv
  BY DEF Init, RoomInv, ViewNeverEmpty

(* A refill begins with at least a free byte.                              *)
LEMMA NextRoomInv == TypeInv /\ RoomInv /\ [Next]_bufVars => RoomInv'
  <1> SUFFICES ASSUME TypeInv, RoomInv, [Next]_bufVars PROVE RoomInv'
    OBVIOUS
  <1>1. CASE BeginRead
    <2>1. CASE MustGrow
      BY <1>1, <2>1
      DEF BeginRead, NumUnconsumed, TypeInv, TypeOK, RoomInv,
          ViewNeverEmpty, ViewSize
    <2>2. CASE ~MustGrow
      <3>1. cap \div 2 < cap
        BY HalfOf DEF TypeInv, TypeOK, RoomInv
      <3>2. cap' = cap /\ bufSize' <= cap \div 2
        BY <1>1, <2>2, HalfOf
        DEF BeginRead, MustGrow, NumUnconsumed, TypeInv, TypeOK
      <3>3. cap \div 2 \in Int /\ bufSize' \in Int /\ cap \in Int
        BY <1>1, HalfOf DEF BeginRead, NumUnconsumed, TypeInv, TypeOK
      <3>4. bufSize' < cap' /\ bufSize' \in Int /\ cap' \in Int
        BY <3>1, <3>2, <3>3
      <3>5. ViewSize' = cap' - bufSize'
        BY DEF ViewSize
      <3>6. 0 < ViewSize'
        BY <3>4, <3>5, PositiveDifference
      <3> QED
        BY <3>2, <3>6 DEF RoomInv, ViewNeverEmpty
    <2> QED BY <2>1, <2>2
  <1>2. CASE ~BeginRead
    <2>1. cap' = cap /\ (reading' => reading /\ bufSize' = bufSize)
      BY <1>2
      DEF Next, GrowFails, ReadReturns, ReadFails, Commit, StreamGrows,
          bufVars
    <2> QED BY <2>1 DEF RoomInv, ViewNeverEmpty, ViewSize
  <1> QED BY <1>1, <1>2

(* With a buffer of at least a byte, readinto is always given room for one *)
(* (populate_read_buffer).                                                 *)
THEOREM ViewHasRoom ==
  ASSUME 0 < InitCap PROVE Spec => []ViewNeverEmpty
  <1>1. Spec => []RoomInv
    BY InitRoomInv, NextRoomInv, AlwaysTypeInv, PTL DEF Spec
  <1>2. RoomInv => ViewNeverEmpty
    BY DEF RoomInv
  <1> QED BY <1>1, <1>2, PTL

(* So an incomplete stream is reported only when the stream is drained: a  *)
(* full buffer is never taken for the end of the stream (try_read).        *)
THEOREM IncompleteMeansDrained ==
  ASSUME 0 < InitCap PROVE Spec => IncompleteOnlyWhenDrained
  <1>1. TypeInv /\ ViewNeverEmpty /\ [Next]_bufVars
          => [reading /\ ~reading' /\ status' = "incomplete"
                => streamPos = avail]_bufVars
    <2> SUFFICES ASSUME TypeInv, ViewNeverEmpty, Next,
                        reading, ~reading', status' = "incomplete"
                 PROVE  streamPos = avail
      OBVIOUS
    <2>1. PICK n \in 0 .. ViewSize : ReadReturns(n)
      BY DEF Next, BeginRead, GrowFails, ReadFails, Commit, StreamGrows
    <2>2. n = 0
      BY <2>1 DEF ReadReturns
    <2>3. 0 \in ReadSizes(ViewSize) /\ 0 < ViewSize
      BY <2>1, <2>2 DEF ReadReturns, ViewNeverEmpty
    <2> QED
      BY <2>3 DEF ReadSizes, ViewSize, TypeInv, TypeOK
  <1> QED
    BY <1>1, AlwaysTypeInv, ViewHasRoom, PTL
    DEF Spec, IncompleteOnlyWhenDrained

-----------------------------------------------------------------------------
(* What enlarging a buffer for more than half of its capacity makes of it. *)
LEMMA DoubledCapacity ==
  ASSUME TypeInv, BeginRead, MustGrow
  PROVE  /\ cap < cap' /\ cap' < 4 * NumUnconsumed
         /\ NumUnconsumed \in Nat /\ cap' \in Nat
  <1>1. /\ cap \in Nat /\ bufSize \in Nat /\ numConsumed \in Nat
        /\ numConsumed <= bufSize /\ bufSize <= cap /\ cap' = 2 * cap
    BY DEF BeginRead, TypeInv, TypeOK
  <1>2. NumUnconsumed \in Nat /\ NumUnconsumed <= cap
    BY <1>1 DEF NumUnconsumed
  <1>3. cap < 2 * NumUnconsumed
    BY <1>1, <1>2, HalfOf DEF MustGrow
  <1> QED BY <1>1, <1>2, <1>3

(* No other step changes the capacity.                                     *)
LEMMA CapacityKept ==
  ASSUME [Next]_bufVars, ~(BeginRead /\ MustGrow)
  PROVE  cap' = cap
BY DEF Next, BeginRead, GrowFails, ReadReturns, ReadFails, Commit,
       StreamGrows, bufVars

(* The buffer is enlarged only past a quarter of its new capacity of bytes *)
(* that are unconsumed at that moment (populate_read_buffer).              *)
THEOREM GrowthFollowsBacklog == Spec => CapacityFollowsBacklog
  <1>1. TypeInv /\ [Next]_bufVars
          => [cap' # cap => cap < cap' /\ cap' < 4 * NumUnconsumed]_bufVars
    BY DoubledCapacity, CapacityKept
  <1> QED BY <1>1, AlwaysTypeInv, PTL DEF Spec, CapacityFollowsBacklog

(* So a client that never leaves more than peak bytes unconsumed keeps the *)
(* buffer of a whole session within its initial capacity or four times     *)
(* peak, however many bytes it reads (populate_read_buffer).               *)
THEOREM BacklogBoundsCapacity ==
  ASSUME NEW CONSTANT peak \in Nat
  PROVE  Spec /\ [](NumUnconsumed <= peak)
           => [](cap <= InitCap \/ cap < 4 * peak)
  <1> DEFINE Within == cap <= InitCap \/ cap < 4 * peak
             Below  == NumUnconsumed <= peak
  <1>1. Init => Within
    BY InitCapAssumption DEF Init
  <1>2. TypeInv /\ Below /\ Within /\ [Next]_bufVars => Within'
    <2> SUFFICES ASSUME TypeInv, Below, Within, [Next]_bufVars
                 PROVE  Within'
      OBVIOUS
    <2>1. CASE BeginRead /\ MustGrow
      BY <2>1, DoubledCapacity
    <2>2. CASE ~(BeginRead /\ MustGrow)
      BY <2>2, CapacityKept
    <2> QED BY <2>1, <2>2
  <1>3. Spec => []TypeInv
    BY AlwaysTypeInv
  <1> HIDE DEF Within, Below
  <1>4. Spec /\ []Below => []Within
    BY <1>1, <1>2, <1>3, PTL DEF Spec
  <1> QED BY <1>4 DEF Within, Below

-----------------------------------------------------------------------------
(* If memcpy moves overlapping bytes as memmove does, no byte the client   *)
(* has yet to consume is ever lost, repeated or altered.                   *)
LEMMA NextBytesIntact ==
  ASSUME CopyOrders = {"forward"}
  PROVE  TypeInv /\ BytesIntact /\ [Next]_bufVars => BytesIntact'
  <1> SUFFICES ASSUME TypeInv, BytesIntact, [Next]_bufVars
               PROVE  BytesIntact'
    OBVIOUS
  <1>1. CASE BeginRead
    <2> SUFFICES ASSUME NEW k \in 0 .. cap' - 1, k < bufSize'
                 PROVE  mem'[k] = streamPos - bufSize' + k
      BY <1>1 DEF BytesIntact, BeginRead
    <2>1. /\ bufSize' = bufSize - numConsumed
          /\ k \in Nat /\ k < NumUnconsumed
          /\ numConsumed + k \in 0 .. cap - 1
          /\ numConsumed + k < bufSize
      BY <1>1 DEF BeginRead, NumUnconsumed, TypeInv, TypeOK
    <2>2. mem'[k] = mem[numConsumed + k]
      <3>1. CASE MustGrow
        BY <1>1, <2>1, <3>1 DEF BeginRead, Grown, TypeInv, TypeOK
      <3>2. CASE ~MustGrow
        <4>1. mem' = Shifted("forward") /\ cap' = cap
          BY <1>1, <3>2 DEF BeginRead
        <4>2. Shifted("forward")[k] = mem[k + numConsumed]
          BY <2>1, <4>1 DEF Shifted
        <4> QED BY <2>1, <4>1, <4>2 DEF TypeInv, TypeOK
      <3> QED BY <3>1, <3>2
    <2>3. mem[numConsumed + k] = streamPos - bufSize + (numConsumed + k)
      BY <2>1 DEF BytesIntact, TypeInv, TypeOK
    <2> QED
      BY <2>1, <2>2, <2>3 DEF TypeInv, TypeOK
  <1>2. CASE GrowFails
    BY <1>2 DEF GrowFails, BytesIntact
  <1>3. ASSUME NEW n \in 0 .. ViewSize, ReadReturns(n) PROVE BytesIntact'
    <2> SUFFICES ASSUME NEW k \in 0 .. cap - 1,
                        numConsumed <= k, k < bufSize + n
                 PROVE  mem'[k] = (streamPos + n) - (bufSize + n) + k
      BY <1>3 DEF BytesIntact, ReadReturns
    <2>1. n \in Int /\ streamPos \in Int /\ bufSize \in Int
      BY DEF ViewSize, TypeInv, TypeOK
    <2>2. CASE bufSize <= k
      BY <1>3, <2>1, <2>2 DEF ReadReturns
    <2>3. CASE k < bufSize
      BY <1>3, <2>1, <2>3 DEF ReadReturns, BytesIntact
    <2> QED BY <2>1, <2>2, <2>3
  <1>4. CASE ReadFails
    BY <1>4 DEF ReadFails, BytesIntact
  <1>5. ASSUME NEW n \in 1 .. NumUnconsumed + 1, Commit(n) PROVE BytesIntact'
    BY <1>5, StreamLenAssumption DEF Commit, BytesIntact, TypeInv, TypeOK
  <1>6. ASSUME NEW n \in 1 .. StreamLen, StreamGrows(n) PROVE BytesIntact'
    BY <1>6 DEF StreamGrows, BytesIntact
  <1>7. CASE UNCHANGED bufVars
    BY <1>7 DEF bufVars, BytesIntact
  <1> QED
    BY <1>1, <1>2, <1>3, <1>4, <1>5, <1>6, <1>7 DEF Next

(* No byte the client has yet to consume is ever lost, repeated or         *)
(* altered, if memcpy moves bytes upwards (populate_read_buffer).          *)
THEOREM BytesStayIntact ==
  ASSUME CopyOrders = {"forward"} PROVE Spec => []BytesIntact
  <1>1. Init => BytesIntact
    BY InitCapAssumption DEF Init, BytesIntact
  <1> QED
    BY <1>1, NextBytesIntact, AlwaysTypeInv, PTL DEF Spec

=============================================================================
