--------------------------- MODULE MCNeteqHandshake ---------------------------
(***************************************************************************)
(* Two batches of three calls, or two calls one after the other.           *)
(***************************************************************************)
EXTENDS NeteqHandshake

BothModes == {"load", "quality"}

=============================================================================
