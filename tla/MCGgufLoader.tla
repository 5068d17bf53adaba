---------------------------- MODULE MCGgufLoader ----------------------------
(***************************************************************************)
(* Instance of GgufLoader for TLC: two handles and two blocks, a word of   *)
(* 128, a 32-bit word of 64, pages of 4.                                   *)
(***************************************************************************)
EXTENDS GgufLoader, TLC

CONSTANTS h1, h2, i1, i2

MCHandle  == {h1, h2}
MCImpl    == {i1, i2}
Symmetric == Permutations(MCHandle) \cup Permutations(MCImpl)

\* An alignment of 4 and one that is 8 modulo 2^32; another key; a bad entry.
MCMetadata ==
  {[key |-> "alignment", parses |-> TRUE, value |-> 4, len |-> 1],
   [key |-> "alignment", parses |-> TRUE, value |-> 72, len |-> 1],
   [key |-> "other", parses |-> FALSE, value |-> 0, len |-> 2]}

\* A tensor of no bytes far outside, one that may fit, one whose offset wraps
\* and one whose end wraps.
MCTensor ==
  {[bytes |-> 0, offset |-> 120, len |-> 1],
   [bytes |-> 5, offset |-> 2, len |-> 1],
   [bytes |-> 3, offset |-> 125, len |-> 1],
   [bytes |-> 126, offset |-> 0, len |-> 1]}
=============================================================================
