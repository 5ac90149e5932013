------------------------------ MODULE MCBuffer ------------------------------
(* Buffer with a gap of one byte and room for two, so that calls of one or  *)
(* two bytes move the readable bytes, grow the vector, or need neither.     *)
EXTENDS Buffer
=============================================================================
