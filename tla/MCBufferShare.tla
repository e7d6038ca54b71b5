--------------------------- MODULE MCBufferShare ----------------------------
(* Two initial slots and three ids: adding the third doubles the array. *)
EXTENDS BufferShare
=============================================================================
