--------------------------- MODULE MCOutputStream ----------------------------
(***************************************************************************)
(* OutputStream for TLC.  Viewers share nothing but the captures, which    *)
(* they only read: one of them shows all that can happen to each.          *)
(***************************************************************************)
EXTENDS OutputStream

CONSTANT v1
=============================================================================
