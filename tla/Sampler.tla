------------------------------- MODULE Sampler -------------------------------
(***************************************************************************)
(* Sampler::sample of src/sampler.cpp.  Probabilities are multiples of     *)
(* 1 / Grid, and a division may round down or up.  A temperature is a      *)
(* name, 0 for none or less; the exponential is Weight, of how far a logit *)
(* is below the greatest.  Tokens count from 1.  The generator is any      *)
(* multiple u of 1 / Grid below 1.                                         *)
(***************************************************************************)
EXTENDS Integers, Sequences, FiniteSets, SequencesExt

CONSTANTS
  Grid,
  Weight(_, _)  \* by distance and temperature

ASSUME GridAssumption == Grid \in Nat \ {0}

Total(s) ==
  LET upTo[n \in 0 .. Len(s)] == IF n = 0 THEN 0 ELSE upTo[n - 1] + s[n]
  IN  upTo[Len(s)]

\* max_element: the first of the greatest.
Greedy(logits) ==
  CHOOSE i \in DOMAIN logits :
    \A j \in DOMAIN logits : logits[i] >= logits[j] /\ (logits[j] = logits[i] => i <= j)

\* The number of candidates; top_k = 0 takes all.
Candidates(topK, logits) ==
  IF topK = 0 \/ topK > Len(logits) THEN Len(logits) ELSE topK

\* What partial_sort may put first, equal logits in any order.
PartialSorts(k, logits) ==
  {ids \in [1 .. k -> DOMAIN logits] :
     /\ \A i, j \in 1 .. k : i # j => ids[i] # ids[j]
     /\ \A i \in 1 .. k : \A t \in DOMAIN logits \ {ids[j] : j \in 1 .. i} :
          logits[ids[i]] >= logits[t]}

Weights(ids, logits, temperature) ==
  [i \in DOMAIN ids |-> Weight(logits[ids[1]] - logits[ids[i]], temperature)]

\* Every element divided by their sum, rounded down or up.
Shares(s) ==
  {[i \in DOMAIN s |-> (s[i] * Grid + IF i \in up THEN Total(s) - 1 ELSE 0) \div Total(s)] :
     up \in SUBSET DOMAIN s}

\* The length of the shortest prefix that reaches top_p, or of all.
Keep(probs, topP) ==
  LET reaching == {i \in DOMAIN probs : Total(SubSeq(probs, 1, i)) >= topP}
  IN  IF reaching = {} THEN Len(probs)
      ELSE CHOOSE i \in reaching : \A j \in reaching : i <= j

\* Mutant of Renormalised: the kept probabilities are not divided again.
Renormalised_Not(probs, topP) == {SubSeq(probs, 1, Keep(probs, topP))}

\* top_p = Grid, which is 1, or more cuts nothing.
Renormalised(probs, topP) ==
  IF topP < Grid THEN Shares(SubSeq(probs, 1, Keep(probs, topP))) ELSE {probs}

\* The candidate drawn, the last if the sum stays below u.
Drawn(probs, u) ==
  LET reaching == {i \in DOMAIN probs : u <= Total(SubSeq(probs, 1, i))}
  IN  IF reaching = {} THEN Len(probs)
      ELSE CHOOSE i \in reaching : \A j \in reaching : i <= j
=============================================================================
