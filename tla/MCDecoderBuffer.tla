--------------------------- MODULE MCDecoderBuffer ---------------------------
(***************************************************************************)
(* DecoderBuffer on small instances: its .cfg files give the constants.    *)
(***************************************************************************)
EXTENDS DecoderBuffer

(* A build whose memcpy moves overlapping bytes as memmove would, and one  *)
(* that may also copy from the highest address down.                       *)
ForwardCopies == {"forward"}
AnyCopies == {"forward", "backward"}

=============================================================================
