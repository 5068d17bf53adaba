------------------------------- MODULE MCArena -------------------------------
(***************************************************************************)
(* Instance of Arena for TLC: two objects, three buffers, and a word of   *)
(* 16, so that padding, the end of a request and rounding up the size of a *)
(* buffer all wrap.                                                        *)
(***************************************************************************)
EXTENDS Arena, TLC

CONSTANTS a1, a2, b1, b2, b3

MCObject  == {a1, a2}
MCBuffer  == {b1, b2, b3}
Symmetric == Permutations(MCObject) \cup Permutations(MCBuffer)
=============================================================================
