------------------------------ MODULE ByteQueue ------------------------------
(***************************************************************************)
(* What a DecoderBuffer promises its client: a first-in first-out queue of *)
(* the bytes of the input stream.  Bytes enter at the end in the order the *)
(* stream hands them out, leave at the front when the client consumes      *)
(* them, and are neither lost, repeated, reordered nor altered in between. *)
(* A byte is its offset in the stream.                                     *)
(***************************************************************************)
EXTENDS Integers, Sequences

CONSTANT StreamLen   \* number of bytes the input stream will ever hold

VARIABLES
  queue,    \* the bytes read from the stream and not consumed, oldest first
  taken,    \* bytes the stream has handed out
  written   \* bytes written to the stream so far

queueVars == <<queue, taken, written>>

QInit ==
  /\ queue = <<>>
  /\ taken = 0
  /\ written \in 0 .. StreamLen

(* The next n bytes of the stream enter the queue.                         *)
Read(n) ==
  /\ taken + n <= written
  /\ queue' = queue \o [i \in 1 .. n |-> taken + i - 1]
  /\ taken' = taken + n
  /\ UNCHANGED written

(* The client consumes the n oldest bytes.                                 *)
Consume(n) ==
  /\ n <= Len(queue)
  /\ queue' = SubSeq(queue, n + 1, Len(queue))
  /\ UNCHANGED <<taken, written>>

Write(n) ==
  /\ written + n <= StreamLen
  /\ written' = written + n
  /\ UNCHANGED <<queue, taken>>

QNext ==
  \E n \in 1 .. StreamLen : Read(n) \/ Consume(n) \/ Write(n)

QSpec == QInit /\ [][QNext]_queueVars

=============================================================================
