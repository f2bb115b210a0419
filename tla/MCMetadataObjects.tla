-------------------------- MODULE MCMetadataObjects --------------------------
(***************************************************************************)
(* MetadataObjects on the damaged stream of MCDecoder.                     *)
(***************************************************************************)
EXTENDS MetadataObjects, MCDecoder
=============================================================================
