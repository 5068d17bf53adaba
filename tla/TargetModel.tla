---------------------------- MODULE TargetModel ----------------------------
(***************************************************************************)
(* The target language model, as the decode loops of cpullm see it: a      *)
(* greedy decoder asks it for the one token that follows a context.        *)
(* The model itself lies behind callbacks (the verify callback of          *)
(* speculative_greedy_decode), so it is external; what matters is that it  *)
(* is a function of the last Window tokens of the context.                 *)
(***************************************************************************)
EXTENDS Integers, Sequences

CONSTANTS
  Token,    \* the vocabulary (std::uint32_t ids)
  Window,   \* how many trailing tokens the model attends to
  Predict   \* the argmax token for every window

Windows == UNION {[1 .. n -> Token] : n \in 0 .. Window}

ASSUME WindowAssumption == Window \in Nat
ASSUME PredictAssumption == Predict \in [Windows -> Token]

\* The last k tokens of s.
Suffix(s, k) == [j \in 1 .. k |-> s[Len(s) - k + j]]

\* The token greedy decoding appends to the context s.
NextToken(s) == Predict[Suffix(s, IF Len(s) < Window THEN Len(s) ELSE Window)]
=============================================================================
