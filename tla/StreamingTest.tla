---------------------------- MODULE StreamingTest ----------------------------
(***************************************************************************)
(* PyDecoderBuffer::test_streaming, the client of the buffer that the unit *)
(* tests run: it reads a stream to its end in pieces of random sizes and   *)
(* returns the bytes.  DecoderBuffer with that client among its others; it *)
(* is called on a new buffer, as test_decoder_buffer.py does.              *)
(***************************************************************************)
EXTENDS DecoderBuffer, Sequences

CONSTANT MaxRequest  \* the largest size drawn from an empty range

ASSUME MaxRequestAssumption == MaxRequest \in Nat

VARIABLES
  loop,      \* where the test is: "off", or a point of its loop
  request,   \* num_bytes_to_read
  atEnd,     \* reach_istream_end
  readBytes  \* read_bytes

testVars == <<loop, request, atEnd, readBytes>>
streamVars == <<bufVars, testVars>>

NotTesting == loop = "off" /\ request = 0 /\ atEnd = FALSE /\ readBytes = <<>>
StopTesting ==
  loop' = "off" /\ request' = 0 /\ atEnd' = FALSE /\ readBytes' = <<>>

TestInit == Init /\ NotTesting

-----------------------------------------------------------------------------
TestStreaming ==
  /\ loop = "off" /\ ~reading
  /\ streamPos = 0
  /\ loop' = "draw"
  /\ UNCHANGED <<request, atEnd, readBytes>>
  /\ UNCHANGED bufVars

(* The next size.  The range of the distribution is empty while the buffer *)
(* is: any number may come out.  With 0 the loop turns once for nothing,   *)
(* with a negative number subspan ends the process.                        *)
Draw ==
  /\ loop = "draw"
  /\ \/ request' \in (IF bufSize = 0 THEN 0 .. MaxRequest ELSE 1 .. bufSize)
        /\ loop' = "refill"
     \/ bufSize = 0 /\ loop' = "aborted" /\ UNCHANGED request
  /\ UNCHANGED <<atEnd, readBytes>>
  /\ UNCHANGED bufVars

(* populate_read_buffer if there are not enough bytes; the test ends with  *)
(* its error.                                                              *)
Refill ==
  /\ loop = "refill" /\ ~reading
  /\ \/ NumUnconsumed < request /\ BeginRead /\ UNCHANGED testVars
     \/ NumUnconsumed < request /\ GrowFails /\ StopTesting
     \/ /\ request <= NumUnconsumed
        /\ loop' = "consume"
        /\ UNCHANGED <<request, atEnd, readBytes>>
        /\ UNCHANGED bufVars

Refilled ==
  /\ loop = "refill"
  /\ \E n \in 0 .. ViewSize : ReadReturns(n)
  /\ request' = IF request < bufSize' THEN request ELSE bufSize'
  /\ atEnd' = (status' = "incomplete")
  /\ loop' = "consume"
  /\ UNCHANGED readBytes

RefillFails == loop = "refill" /\ ReadFails /\ StopTesting

(* The bytes are appended and consumed; after the last ones, the test      *)
(* returns.                                                                *)
ConsumeUnlessAtEnd ==  \* mutant: the end of the stream ends the loop at once
  /\ loop = "consume"
  /\ loop' = IF atEnd THEN "returned" ELSE "draw"
  /\ IF atEnd THEN UNCHANGED readBytes /\ UNCHANGED bufVars
     ELSE /\ readBytes' = readBytes \o SubSeq(Unconsumed, 1, request)
          /\ Commit(request)
  /\ UNCHANGED <<request, atEnd>>
Consume ==
  /\ loop = "consume"
  /\ loop' = IF atEnd THEN "returned" ELSE "draw"
  /\ readBytes' = readBytes \o SubSeq(Unconsumed, 1, request)
  /\ Commit(request)
  /\ UNCHANGED <<request, atEnd>>

Returned == loop = "returned" /\ StopTesting /\ UNCHANGED bufVars

(* Other clients, when the test does not run, and the writer.              *)
OtherClient == loop = "off" /\ Next /\ UNCHANGED testVars
Grows ==
  /\ loop # "off"
  /\ \E n \in 1 .. StreamLen : StreamGrows(n)
  /\ UNCHANGED testVars

TestNext ==
  \/ TestStreaming \/ Draw \/ Refill \/ Refilled \/ RefillFails
  \/ Consume \/ Returned \/ OtherClient \/ Grows

TestSpec == TestInit /\ [][TestNext]_streamVars

-----------------------------------------------------------------------------
(* As long as no size drawn ends the process, and however the stream grows *)
(* and however short the reads are, test_streaming has read the bytes of   *)
(* the stream from the first to the last consumed one, each once and in    *)
(* order, and when it returns none is left in the buffer.                  *)
StreamingReturnsStream ==
  loop # "off" =>
    /\ readBytes = [k \in 1 .. ConsumedOffset |-> k - 1]
    /\ loop = "returned" => NumUnconsumed = 0

=============================================================================
