---------------------------- MODULE MCTransport ----------------------------
(* All five transports; frames of up to three units, so that one can hold  *)
(* the end of a gRPC message, a head and more, a window that two frames    *)
(* fill, and readers with less room than a frame.                          *)
EXTENDS Transport
=============================================================================
