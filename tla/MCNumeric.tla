------------------------------ MODULE MCNumeric ------------------------------
(***************************************************************************)
(* Instances of the numeric code.                                          *)
(***************************************************************************)
EXTENDS Numeric

\* Edges of a block, and of a tile.
MCCols  == {0, 1, 2, 31, 32, 33, 64}
MCPlans == [m : {0, 1, 4, 5}, n : {0, 1, 8, 11, 17}, k : {0, 1, 3}, transpose : BOOLEAN]
MCSlack == {-1, 0, 1}
MCHalves == 0 .. 65535

\* Every short list; a whole block and one more, with the greatest at its end.
MCValueLists ==
  UNION {[1 .. n -> -3 .. 3] : n \in 0 .. 3}
    \cup {[i \in 1 .. n |-> ((i * m) % 29) - 14] : n \in {31, 32, 33, 65}, m \in {1, 5, 28}}

MCLogitLists == UNION {[1 .. n -> 0 .. 2] : n \in 0 .. 3}

\* Temperature 1 flattens; at 2 all but the greatest underflow to 0.
MCWeight(distance, temperature) ==
  IF temperature = 1 THEN <<2, 1, 0>>[distance + 1] ELSE <<2, 0, 0>>[distance + 1]
=============================================================================
