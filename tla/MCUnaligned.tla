---------------------------- MODULE MCUnaligned ----------------------------
(* Twelve bytes that all differ: instructions only move bytes, so that what *)
(* holds of these holds of any.                                             *)
EXTENDS Unaligned

Distinct == [a \in 0..7 |-> a]
Register == 8 + 12 * 9 + 144 * 10 + 1728 * 11

=============================================================================
