----------------------------- MODULE MCTransport ----------------------------
(***************************************************************************)
(* A small transport: bytes of three values, frames of two and three bytes *)
(* whose payloads look like headers, eight bytes in all, and a ring as     *)
(* small as the assumption allows, shorter than the stream.                *)
(***************************************************************************)
EXTENDS Transport

MCLens == [b \in 0..2 |-> CASE b = 0 -> {}
                            [] b = 1 -> {1}
                            [] b = 2 -> 1..2]
MCScript == <<<<2, 2, 1>>, <<2, 2, 2>>, <<1, 1>>>>
=============================================================================
