---------------------------- MODULE DecoderBuffer ----------------------------
(***************************************************************************)
(* The read buffer of a DecoderBuffer object (PyDecoderBuffer.{hpp,cpp}):  *)
(* a growable byte buffer between an input stream and the CLP IR decoding  *)
(* methods.  This module is the buffer under its most general client: any  *)
(* sequence of consumptions and refills, on a stream that may still be     *)
(* written to while it is read.                                            *)
(*                                                                         *)
(* A byte is represented by its offset in the input stream, so the         *)
(* contents of the buffer say exactly which bytes it holds; Uninit is a    *)
(* byte of fresh memory nothing was written to.                            *)
(***************************************************************************)
EXTENDS Integers

CONSTANTS
  InitCap,    \* buf_capacity given to __init__ (0 is accepted by the code)
  StreamLen,  \* number of bytes the input stream will ever hold
  CopyOrders  \* orders in which the build's memcpy may move bytes

ASSUME InitCapAssumption == InitCap \in Nat
ASSUME StreamLenAssumption == StreamLen \in Nat
ASSUME CopyOrdersAssumption ==
  /\ CopyOrders # {}
  /\ CopyOrders \subseteq {"forward", "backward"}

Uninit == -1

VARIABLES
  mem,              \* m_read_buffer's contents: 0..cap-1 -> stream offset
  cap,              \* m_read_buffer.size()
  bufSize,          \* m_buffer_size
  numConsumed,      \* m_num_current_bytes_consumed
  protocolEnabled,  \* m_py_buffer_protocol_enabled
  reading,          \* TRUE while the stream's readinto runs
  streamPos,        \* bytes the input stream has handed out
  avail,            \* bytes written to the input stream so far
  status            \* outcome of the last operation on the buffer

bufVars == <<mem, cap, bufSize, numConsumed, protocolEnabled, reading,
             streamPos, avail, status>>

Outcomes == {"ok", "incomplete", "raised", "no_memory", "overflow"}

-----------------------------------------------------------------------------
NumUnconsumed == bufSize - numConsumed

(* The offset in the stream of the next byte the client has not consumed. *)
ConsumedOffset == streamPos - NumUnconsumed

(* Whether a refill first moves the unconsumed bytes to a larger buffer.   *)
(* Three wrong rules, for the mutants: never, at every refill, and when    *)
(* more than half of the buffer is filled, with consumed bytes or not.     *)
NeverGrow == FALSE
AlwaysGrow == TRUE
GrowWhenFilled == bufSize > cap \div 2
MustGrow == NumUnconsumed > cap \div 2

Init ==
  /\ mem = [k \in 0 .. InitCap - 1 |-> Uninit]
  /\ cap = InitCap
  /\ bufSize = 0
  /\ numConsumed = 0
  /\ protocolEnabled = FALSE
  /\ reading = FALSE
  /\ streamPos = 0
  /\ avail \in 0 .. StreamLen
  /\ status = "ok"

-----------------------------------------------------------------------------
(* The new buffer after a growth: the unconsumed bytes first, then fresh   *)
(* memory.                                                                 *)
GrownFromStart ==  \* mutant: copies from the beginning of the old buffer
  [k \in 0 .. 2 * cap - 1 |-> IF k < NumUnconsumed THEN mem[k] ELSE Uninit]
Grown ==
  [k \in 0 .. 2 * cap - 1 |->
     IF k < NumUnconsumed THEN mem[numConsumed + k] ELSE Uninit]

(* The buffer after memcpy moved the unconsumed bytes to its beginning.    *)
(* The two regions overlap when numConsumed < NumUnconsumed, and memcpy is *)
(* then undefined: copying from the lowest address up still moves the      *)
(* bytes as memmove would; copying from the highest address down reads     *)
(* bytes it has already overwritten, so position k ends with the byte of   *)
(* the first position k + numConsumed * j past the moved region.           *)
NotShifted(order) == mem  \* mutant: the unconsumed bytes stay in place
Shifted(order) ==
  LET Jump(k) == IF order = "forward" \/ numConsumed = 0
                 THEN numConsumed
                 ELSE numConsumed
                        * ((NumUnconsumed - k - 1) \div numConsumed + 1)
  IN  [k \in 0 .. cap - 1 |->
         IF k < NumUnconsumed THEN mem[k + Jump(k)] ELSE mem[k]]

(* populate_read_buffer up to its call of readinto.                        *)
BeginRead ==
  /\ ~reading
  /\ IF MustGrow
     THEN /\ cap' = 2 * cap
          /\ mem' = Grown
     ELSE /\ cap' = cap
          /\ \E order \in CopyOrders : mem' = Shifted(order)
  /\ numConsumed' = 0
  /\ bufSize' = NumUnconsumed
  /\ protocolEnabled' = TRUE
  /\ reading' = TRUE
  /\ UNCHANGED <<streamPos, avail, status>>

(* populate_read_buffer when the larger buffer cannot be allocated.        *)
GrowFails ==
  /\ ~reading
  /\ MustGrow
  /\ status' = "no_memory"
  /\ UNCHANGED <<mem, cap, bufSize, numConsumed, protocolEnabled, reading,
                 streamPos, avail>>

(* The number of bytes readinto may return for a view of size bytes: 0     *)
(* only when the view is empty or the stream has nothing to give for now,  *)
(* and possibly fewer than both allow (a short read).                      *)
ReadSizes(size) ==
  LET limit == IF size < avail - streamPos THEN size ELSE avail - streamPos
  IN  IF limit = 0 THEN {0} ELSE 1 .. limit

(* The view py_getbuffer exports to readinto: the free tail of the buffer. *)
ViewSize == cap - bufSize

(* readinto returns n: the end of populate_read_buffer, and of try_read.   *)
ReadReturns(n) ==
  /\ reading
  /\ protocolEnabled
  /\ n \in ReadSizes(ViewSize)
  /\ mem' = [k \in 0 .. cap - 1 |->
               IF k >= bufSize /\ k < bufSize + n
               THEN streamPos + (k - bufSize)
               ELSE mem[k]]
  /\ bufSize' = bufSize + n
  /\ streamPos' = streamPos + n
  /\ protocolEnabled' = FALSE
  /\ reading' = FALSE
  /\ status' = IF n = 0 THEN "incomplete" ELSE "ok"
  /\ UNCHANGED <<cap, numConsumed, avail>>

(* readinto raises, or returns something that is not a byte count (None of *)
(* a non-blocking stream).                                                 *)
ReadFailsEnabled ==  \* mutant: the early return leaves the protocol enabled
  /\ reading
  /\ reading' = FALSE
  /\ status' = "raised"
  /\ UNCHANGED <<mem, cap, bufSize, numConsumed, protocolEnabled, streamPos,
                 avail>>
ReadFails ==
  /\ reading
  /\ protocolEnabled' = FALSE
  /\ reading' = FALSE
  /\ status' = "raised"
  /\ UNCHANGED <<mem, cap, bufSize, numConsumed, streamPos, avail>>

(* commit_read_buffer_consumption: consuming more bytes than are buffered  *)
(* is an error.                                                            *)
CommitUnchecked(n) ==  \* mutant: no overflow check
  /\ ~reading
  /\ status' = "ok"
  /\ numConsumed' = numConsumed + n
  /\ UNCHANGED <<mem, cap, bufSize, protocolEnabled, reading, streamPos,
                 avail>>
Commit(n) ==
  /\ ~reading
  /\ IF NumUnconsumed < n
     THEN status' = "overflow" /\ UNCHANGED numConsumed
     ELSE status' = "ok" /\ numConsumed' = numConsumed + n
  /\ UNCHANGED <<mem, cap, bufSize, protocolEnabled, reading, streamPos,
                 avail>>

(* Whoever writes the input stream appends n bytes to it.                  *)
StreamGrows(n) ==
  /\ avail + n <= StreamLen
  /\ avail' = avail + n
  /\ UNCHANGED <<mem, cap, bufSize, numConsumed, protocolEnabled, reading,
                 streamPos, status>>

Next ==
  \/ BeginRead
  \/ GrowFails
  \/ \E n \in 0 .. ViewSize : ReadReturns(n)
  \/ ReadFails
  \/ \E n \in 1 .. NumUnconsumed + 1 : Commit(n)
  \/ \E n \in 1 .. StreamLen : StreamGrows(n)

Spec == Init /\ [][Next]_bufVars

-----------------------------------------------------------------------------
(* Every field has its type, and the two cursors are ordered inside the    *)
(* allocation: consumed <= size <= capacity.                               *)
TypeOK ==
  /\ cap \in Nat
  /\ mem \in [0 .. cap - 1 -> Int]
  /\ bufSize \in 0 .. cap
  /\ numConsumed \in 0 .. bufSize
  /\ protocolEnabled \in BOOLEAN
  /\ reading \in BOOLEAN
  /\ streamPos \in 0 .. StreamLen
  /\ avail \in streamPos .. StreamLen
  /\ status \in Outcomes

(* The unconsumed bytes are the last NumUnconsumed bytes the stream handed *)
(* out, in order: no sequence of refills, growths, partial consumptions    *)
(* and failed reads drops, repeats or alters one (populate_read_buffer,    *)
(* commit_read_buffer_consumption).                                        *)
BytesIntact ==
  \A k \in 0 .. cap - 1 :
    numConsumed <= k /\ k < bufSize => mem[k] = streamPos - bufSize + k

(* The unconsumed bytes never reach before the beginning of the stream.    *)
NoPhantomBytes == bufSize - numConsumed <= streamPos

(* The view exported to readinto has room for at least a byte, whatever    *)
(* the buffer held when the refill began (the growth rule of               *)
(* populate_read_buffer).                                                  *)
ViewNeverEmpty == reading => 0 < ViewSize

(* Python code can obtain a view of the buffer only while readinto runs,   *)
(* whichever way the last readinto ended (py_getbuffer).                   *)
ProtocolOnlyWhileReading == protocolEnabled = reading

(* The buffer is enlarged only when more than half of it is bytes that its *)
(* client has yet to consume, whatever it has read and consumed before: the *)
(* memory of a session follows the backlog, and not the bytes read so far  *)
(* (the growth rule of populate_read_buffer).                              *)
CapacityFollowsBacklog ==
  [][cap' # cap => cap < cap' /\ cap' < 4 * NumUnconsumed]_bufVars

(* try_read reports an incomplete stream only if the stream had nothing    *)
(* left to give at that moment, never because the buffer was full.         *)
IncompleteOnlyWhenDrained ==
  [][reading /\ ~reading' /\ status' = "incomplete"
       => streamPos = avail]_bufVars

(* The unconsumed bytes, oldest first.                                     *)
Unconsumed == [i \in 1 .. NumUnconsumed |-> mem[numConsumed + i - 1]]

(* The buffer implements a first-in first-out queue of the stream's bytes. *)
Queue ==
  INSTANCE ByteQueue WITH
    queue <- Unconsumed,
    taken <- streamPos,
    written <- avail
ImplementsByteQueue == Queue!QSpec

=============================================================================
