--------------------------- MODULE MCStreamingTest ---------------------------
(***************************************************************************)
(* StreamingTest on the small instances of DecoderBuffer.                  *)
(***************************************************************************)
EXTENDS StreamingTest, MCDecoderBuffer
=============================================================================
