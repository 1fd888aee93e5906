-------------------------- MODULE MCStdioStream ----------------------------
(***************************************************************************)
(* A model of StdioStream for TLC: four input bytes, callers asking for   *)
(* 0 to 3 bytes at a time, and a 4-bit size_t, enough for size - peek_len *)
(* to wrap to a negative streamsize without misreading real counts.       *)
(***************************************************************************)
EXTENDS StdioStream

MCInput == <<1, 2, 3, 4>>
=============================================================================
