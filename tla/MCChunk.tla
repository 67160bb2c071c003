------------------------------ MODULE MCChunk ------------------------------
(* Calls that need two chunks, chunks of one and two bytes, up to four     *)
(* chunks so that VMess's count wraps twice, and a preamble that can be    *)
(* torn in two places.                                                     *)
EXTENDS ChunkStream
=============================================================================
