--------------------------- MODULE Tokenizer_proofs ---------------------------
(***************************************************************************)
(* Proofs about the tokenizer, for every vocabulary that is not empty and  *)
(* every merge list and text: encoding returns ids of the vocabulary only, *)
(* the trie loop is greedy longest match, the merge loop is the merges in  *)
(* order, a text whose bytes have tokens comes back from decode, and every *)
(* step of encode brings it nearer to its return.                          *)
(***************************************************************************)
EXTENDS Tokenizer, SequenceTheorems, WellFoundedInduction, TLAPS

\* The node is the text from the position on, and the best match a token.
WalkSound ==
  phase = "walk" =>
    /\ pos + Len(node) <= Len(text) + 1
    /\ node = SubSeq(text, pos, pos + Len(node) - 1)
    /\ best <= Len(node)
    /\ best > 0 => Known(SubSeq(text, pos, pos + best - 1))

IInv == TypeOK /\ WalkSound

-----------------------------------------------------------------------------
(* Least and greatest numbers. *)

LEMMA NatSetHasLeast ==
  ASSUME NEW S, S \subseteq Nat, S # {}
  PROVE  \E x \in S : \A y \in S : x <= y
<1>1. IsWellFoundedOn(OpToRel(<, Nat), Nat)
  BY NatLessThanWellFounded
<1>2. PICK x \in S : \A y \in S : ~(<<y, x>> \in OpToRel(<, Nat))
  BY <1>1, WFMin
<1>3. \A y \in S : ~(y < x)
  BY <1>2 DEF OpToRel
<1> QED  BY <1>3

LEMMA MinIsLeast ==
  ASSUME NEW S, S \subseteq Nat, S # {}
  PROVE  Min(S) \in S /\ \A y \in S : Min(S) <= y
<1>1. \E x \in S : \A y \in S : x <= y
  BY NatSetHasLeast
<1> QED  BY <1>1 DEF Min

LEMMA MaxIsGreatest ==
  ASSUME NEW n \in Nat, NEW S, S \subseteq 1 .. n, S # {}
  PROVE  Max(S) \in S
<1> DEFINE T == {n - x : x \in S}
<1>1. T \subseteq Nat /\ T # {}
  <2>1. \A x \in S : n - x \in Nat
    OBVIOUS
  <2>2. PICK x \in S : TRUE
    OBVIOUS
  <2>3. n - x \in T
    BY <2>2
  <2> QED  BY <2>1, <2>3
<1>2. PICK t \in T : \A u \in T : t <= u
  BY <1>1, NatSetHasLeast
<1>3. PICK x \in S : t = n - x
  BY <1>2
<1>4. \A y \in S : n - x <= n - y
  BY <1>2, <1>3
<1>5. \A y \in S : x >= y
  BY <1>3, <1>4
<1> QED  BY <1>5 DEF Max

-----------------------------------------------------------------------------
(* Sequences. *)

LEMMA PrefixGrows ==
  ASSUME NEW S, NEW t \in Seq(S), NEW p \in Nat \ {0}, NEW n \in Nat,
         p + n <= Len(t)
  PROVE  Append(SubSeq(t, p, p + n - 1), t[p + n]) = SubSeq(t, p, p + n)
<1> DEFINE a == SubSeq(t, p, p + n - 1)
           c == SubSeq(t, p, p + n)
<1>1. /\ a \in Seq(S) /\ Len(a) = n
      /\ \A i \in 1 .. n : a[i] = t[p + i - 1]
  BY SubSeqProperties
<1>2. /\ c \in Seq(S) /\ Len(c) = n + 1
      /\ \A i \in 1 .. n + 1 : c[i] = t[p + i - 1]
  BY SubSeqProperties
<1>3. t[p + n] \in S
  OBVIOUS
<1> HIDE DEF a, c
<1>4. /\ Append(a, t[p + n]) \in Seq(S) /\ Len(Append(a, t[p + n])) = n + 1
      /\ \A i \in 1 .. n : Append(a, t[p + n])[i] = a[i]
      /\ Append(a, t[p + n])[n + 1] = t[p + n]
  BY <1>1, <1>3
<1>5. \A i \in 1 .. n + 1 : Append(a, t[p + n])[i] = c[i]
  BY <1>1, <1>2, <1>4
<1>6. Append(a, t[p + n]) = c
  BY <1>2, <1>4, <1>5, SeqEqual
<1> QED  BY <1>6 DEF a, c

\* What is left of a sequence after one element is removed keeps its type.
LEMMA RemoveTyped ==
  ASSUME NEW S, NEW s \in Seq(S), NEW i \in 1 .. Len(s)
  PROVE  RemoveAt(s, i) \in Seq(S)
<1>1. SubSeq(s, 1, i - 1) \in Seq(S)
  <2>1. \A k \in 1 .. i - 1 : s[k] \in S
    OBVIOUS
  <2> QED  BY <2>1, SubSeqProperties
<1>2. SubSeq(s, i + 1, Len(s)) \in Seq(S)
  <2>1. \A k \in i + 1 .. Len(s) : s[k] \in S
    OBVIOUS
  <2> QED  BY <2>1, SubSeqProperties
<1> QED  BY <1>1, <1>2 DEF RemoveAt

LEMMA ExceptTyped ==
  ASSUME NEW S, NEW s \in Seq(Seq(S)), NEW i \in 1 .. Len(s) - 1
  PROVE  /\ [s EXCEPT ![i] = @ \o s[i + 1]] \in Seq(Seq(S))
         /\ Len([s EXCEPT ![i] = @ \o s[i + 1]]) = Len(s)
<1>1. s[i] \in Seq(S) /\ s[i + 1] \in Seq(S)
  OBVIOUS
<1>2. s[i] \o s[i + 1] \in Seq(S)
  BY <1>1
<1>3. i \in 1 .. Len(s)
  OBVIOUS
<1> QED  BY <1>2, <1>3, ExceptSeq

-----------------------------------------------------------------------------
(* The indices give ids of the vocabulary. *)

LEMMA VocabTyped ==
  ASSUME TypeOK
  PROVE  Len(vocab) \in Nat \ {0}
<1>1. vocab \in Seq(Seq(Byte)) /\ vocab # <<>>
  BY VocabsAssumption DEF TypeOK
<1> QED  BY <1>1, EmptySeq

LEMMA FirstIdTyped ==
  ASSUME TypeOK, NEW s, Known(s)
  PROVE  FirstId(s) \in 0 .. Len(vocab) - 1
<1>1. Ids(s) \subseteq 1 .. Len(vocab) /\ Ids(s) # {}
  BY DEF Known, Ids
<1>2. Len(vocab) \in Nat \ {0}
  BY VocabTyped
<1>3. Min(Ids(s)) \in Ids(s)
  <2>1. Ids(s) \subseteq Nat
    BY <1>1, <1>2
  <2> QED  BY <1>1, <2>1, MinIsLeast
<1>4. Min(Ids(s)) \in 1 .. Len(vocab)
  BY <1>1, <1>3
<1> QED  BY <1>2, <1>4 DEF FirstId

LEMMA LastIdTyped ==
  ASSUME TypeOK, NEW s, Known(s)
  PROVE  LastId(s) \in 0 .. Len(vocab) - 1
<1>1. Ids(s) \subseteq 1 .. Len(vocab) /\ Ids(s) # {}
  BY DEF Known, Ids
<1>2. Len(vocab) \in Nat \ {0}
  BY VocabTyped
<1>3. Max(Ids(s)) \in Ids(s)
  BY <1>1, <1>2, MaxIsGreatest
<1>4. Max(Ids(s)) \in 1 .. Len(vocab)
  BY <1>1, <1>3
<1> QED  BY <1>2, <1>4 DEF LastId

LEMMA ByteIdTyped ==
  ASSUME TypeOK, NEW b
  PROVE  ByteId(b) \in 0 .. Len(vocab) - 1
<1>1. Len(vocab) \in Nat \ {0}
  BY VocabTyped
<1>2. CASE Known(BytePiece(b))
  BY <1>2, FirstIdTyped DEF ByteId
<1>3. CASE ~Known(BytePiece(b))
  BY <1>1, <1>3 DEF ByteId
<1> QED  BY <1>2, <1>3

LEMMA BytePieceTyped ==
  ASSUME NEW b \in Byte
  PROVE  BytePiece(b) \in Seq(Byte)
<1>1. CASE b \in Visible
  BY <1>1 DEF BytePiece
<1>2. CASE b \notin Visible
  <2>1. Spelling[b] \in Seq(Visible)
    BY <1>2, BytesAssumption
  <2>2. Spelling[b] \in Seq(Byte)
    BY <2>1, BytesAssumption
  <2> QED  BY <1>2, <2>2 DEF BytePiece
<1> QED  BY <1>1, <1>2

LEMMA RankIsLeast ==
  ASSUME NEW i \in Pairs
  PROVE  /\ Rank(i) \in Ranks(pieces[i], pieces[i + 1])
         /\ \A k \in Ranks(pieces[i], pieces[i + 1]) : Rank(i) <= k
<1> DEFINE R == Ranks(pieces[i], pieces[i + 1])
<1>1. R # {} /\ R \subseteq Nat
  BY DEF Pairs, Ranks, Ranked
<1> HIDE DEF R
<1>2. Min(R) \in R /\ \A k \in R : Min(R) <= k
  BY <1>1, MinIsLeast
<1>3. Rank(i) = Min(R)
  BY DEF Rank, R
<1> QED  BY <1>2, <1>3 DEF R

\* The best pair has the least rank, and is the leftmost of those that do.
LEMMA BestPairIsBest ==
  ASSUME TypeOK, Pairs # {}
  PROVE  /\ BestPair \in Pairs
         /\ \A j \in Pairs : Rank(BestPair) <= Rank(j)
         /\ \A j \in Pairs : Rank(j) = Rank(BestPair) => BestPair <= j
<1>1. Pairs \subseteq Nat
  BY DEF Pairs
<1>2. \A i \in Pairs : Rank(i) \in Nat
  BY RankIsLeast DEF Ranks, Ranked
<1> DEFINE Q == {Rank(i) : i \in Pairs}
           B == {i \in Pairs : \A j \in Pairs : Rank(i) <= Rank(j)}
<1>3. PICK r \in Q : \A q \in Q : r <= q
  <2>1. Q \subseteq Nat /\ Q # {}
    BY <1>2
  <2> QED  BY <2>1, NatSetHasLeast
<1>4. B # {}
  <2>1. PICK i \in Pairs : r = Rank(i)
    BY <1>3
  <2>2. \A j \in Pairs : Rank(i) <= Rank(j)
    BY <1>3, <2>1
  <2> QED  BY <2>1, <2>2
<1>5. B \subseteq Nat
  BY <1>1
<1>6. BestPair = Min(B)
  BY DEF BestPair
<1>7. Min(B) \in B /\ \A y \in B : Min(B) <= y
  <2> HIDE DEF B
  <2> QED  BY <1>4, <1>5, MinIsLeast
<1>8. BestPair \in B /\ \A y \in B : BestPair <= y
  BY <1>6, <1>7
<1>9. \A j \in Pairs : Rank(j) = Rank(BestPair) => j \in B
  BY <1>8
<1> QED  BY <1>8, <1>9

LEMMA BestPairIsPair ==
  ASSUME TypeOK, Pairs # {}
  PROVE  BestPair \in 1 .. Len(pieces) - 1
  BY BestPairIsBest DEF Pairs

-----------------------------------------------------------------------------
(* Every step keeps the invariant. *)

LEMMA TextTyped ==
  ASSUME TypeOK
  PROVE  text \in Seq(Byte)
<1>1. text \in Texts \/ text = <<>>
  BY DEF TypeOK
<1>2. CASE text \in Texts
  BY <1>2, TextsAssumption
<1>3. CASE text = <<>>
  BY <1>3, EmptySeq
<1> QED  BY <1>1, <1>2, <1>3

LEMMA InitIInv == Init => IInv
  BY DEF Init, IInv, TypeOK, WalkSound

LEMMA EncodeKeeps ==
  ASSUME IInv, NEW t \in Texts, Encode(t)
  PROVE  IInv'
<1> USE DEF IInv
<1>1. t \in Seq(Byte)
  BY TextsAssumption
<1>2. [i \in 1 .. Len(t) |-> BytePiece(t[i])] \in Seq(Seq(Byte))
  <2>1. \A i \in 1 .. Len(t) : BytePiece(t[i]) \in Seq(Byte)
    BY <1>1, BytePieceTyped
  <2> QED  BY <1>1, <2>1
<1>3. /\ vocab' = vocab /\ merges' = merges /\ text' = t /\ out' = <<>>
      /\ pos' = 1 /\ node' = <<>> /\ best' = 0
      /\ phase' \in {"merge", "walk"}
  BY DEF Encode
<1>4. pieces' \in Seq(Seq(Byte))
  <2>1. pieces' = [i \in 1 .. Len(t) |-> BytePiece(t[i])] \/ pieces' = <<>>
    BY DEF Encode
  <2> QED  BY <1>2, <2>1, EmptySeq
<1>5. TypeOK'
  BY <1>3, <1>4 DEF TypeOK
<1>6. WalkSound'
  <2>1. Len(node') = 0 /\ Len(t) \in Nat
    BY <1>1, <1>3
  <2>2. node' = SubSeq(text', 1, 0)
    BY <1>1, <1>3
  <2> QED  BY <1>3, <2>1, <2>2 DEF WalkSound
<1> QED  BY <1>5, <1>6

LEMMA MergeBestKeeps ==
  ASSUME IInv, MergeBest
  PROVE  IInv'
<1> USE DEF IInv
<1>1. BestPair \in 1 .. Len(pieces) - 1
  BY BestPairIsPair DEF MergeBest
<1> DEFINE i == BestPair
           joined == [pieces EXCEPT ![i] = @ \o pieces[i + 1]]
<1>2. joined \in Seq(Seq(Byte)) /\ Len(joined) = Len(pieces)
  <2>1. pieces \in Seq(Seq(Byte))
    BY DEF TypeOK
  <2> HIDE DEF i
  <2>2. i \in 1 .. Len(pieces) - 1
    BY <1>1 DEF i
  <2> QED  BY <2>1, <2>2, ExceptTyped
<1>3. i + 1 \in 1 .. Len(joined)
  BY <1>1, <1>2 DEF TypeOK
<1>4. pieces' = RemoveAt(joined, i + 1)
  BY DEF MergeBest
<1> HIDE DEF joined, i
<1>5. pieces' \in Seq(Seq(Byte))
  BY <1>2, <1>3, <1>4, RemoveTyped
<1>6. phase = "merge" /\ UNCHANGED <<vocab, merges, text, phase, pos, node, best, out>>
  BY DEF MergeBest
<1> QED  BY <1>5, <1>6 DEF TypeOK, WalkSound

LEMMA MergesDoneKeeps ==
  ASSUME IInv, MergesDone
  PROVE  IInv'
  BY DEF IInv, MergesDone, TypeOK, WalkSound

LEMMA DoneKeeps ==
  ASSUME IInv, Done
  PROVE  IInv'
  BY DEF IInv, Done, TypeOK, WalkSound

LEMMA EmitPieceKeeps ==
  ASSUME IInv, EmitPiece
  PROVE  IInv'
<1> USE DEF IInv
<1> DEFINE p == pieces[pos]
           new == IF Known(p) THEN <<FirstId(p)>>
                  ELSE [i \in 1 .. Len(p) |-> ByteId(p[i])]
<1>1. p \in Seq(Byte)
  BY DEF EmitPiece, TypeOK
<1>2. new \in Seq(0 .. Len(vocab) - 1)
  <2> HIDE DEF p
  <2>1. CASE Known(p)
    <3>1. FirstId(p) \in 0 .. Len(vocab) - 1
      BY <2>1, FirstIdTyped
    <3>2. <<FirstId(p)>> \in Seq(0 .. Len(vocab) - 1)
      BY <3>1
    <3> QED  BY <2>1, <3>2
  <2>2. CASE ~Known(p)
    <3>1. \A i \in 1 .. Len(p) : ByteId(p[i]) \in 0 .. Len(vocab) - 1
      BY ByteIdTyped
    <3>2. Len(p) \in Nat
      BY <1>1
    <3>3. [i \in 1 .. Len(p) |-> ByteId(p[i])] \in Seq(0 .. Len(vocab) - 1)
      BY <3>1, <3>2
    <3> QED  BY <2>2, <3>3
  <2> QED  BY <2>1, <2>2
<1>3. out' = out \o new
  BY DEF EmitPiece
<1> HIDE DEF new
<1>4. out' \in Seq(0 .. Len(vocab) - 1)
  BY <1>2, <1>3 DEF TypeOK
<1>5. /\ phase = "emit" /\ pos' = pos + 1
      /\ UNCHANGED <<vocab, merges, text, phase, pieces, node, best>>
  BY DEF EmitPiece
<1> QED  BY <1>4, <1>5 DEF TypeOK, WalkSound

LEMMA WalkKeeps ==
  ASSUME IInv, Walk
  PROVE  IInv'
<1> USE DEF IInv
<1>1. text \in Seq(Byte)
  BY TextTyped
<1>2. /\ phase = "walk" /\ pos \in Nat \ {0} /\ Len(node) \in Nat
      /\ pos + Len(node) <= Len(text)
      /\ node = SubSeq(text, pos, pos + Len(node) - 1)
  BY DEF Walk, CanWalk, TypeOK, WalkSound
<1>3. Longer = SubSeq(text, pos, pos + Len(node))
  <2> DEFINE n == Len(node)
             q == pos
  <2>1. n \in Nat /\ q \in Nat \ {0} /\ q + n <= Len(text)
    BY <1>2
  <2> HIDE DEF n, q
  <2>2. Append(SubSeq(text, q, q + n - 1), text[q + n]) = SubSeq(text, q, q + n)
    BY <1>1, <2>1, PrefixGrows
  <2> QED  BY <1>2, <2>2 DEF n, q, Longer
<1>4. Longer \in Seq(Byte) /\ Len(Longer) = Len(node) + 1
  <2>1. text[pos + Len(node)] \in Byte
    BY <1>1, <1>2
  <2> QED  BY <2>1 DEF Longer, TypeOK
<1>5. /\ node' = Longer
      /\ UNCHANGED <<vocab, merges, text, phase, pieces, pos, out>>
      /\ (Known(Longer) /\ best' = Len(Longer)) \/ best' = best
  BY DEF Walk
<1>6. TypeOK'
  BY <1>4, <1>5 DEF TypeOK
<1>7. node' = SubSeq(text', pos', pos' + Len(node') - 1)
  <2>1. pos + Len(Longer) - 1 = pos + Len(node)
    BY <1>2, <1>4
  <2> QED  BY <1>3, <1>5, <2>1
<1>8. pos' + Len(node') <= Len(text') + 1 /\ best' <= Len(node')
  <2>1. best <= Len(node) /\ best \in Nat
    BY <1>2 DEF WalkSound, TypeOK
  <2> QED  BY <1>1, <1>2, <1>4, <1>5, <2>1
<1>9. best' > 0 => Known(SubSeq(text, pos, pos + best' - 1))
  <2>1. CASE Known(Longer) /\ best' = Len(Longer)
    <3>1. pos + best' - 1 = pos + Len(node)
      BY <1>2, <1>4, <2>1
    <3> QED  BY <1>3, <2>1, <3>1
  <2>2. CASE best' = best
    BY <1>2, <2>2 DEF WalkSound
  <2> QED  BY <1>5, <2>1, <2>2
<1>10. (best > 0 => Known(SubSeq(text, pos, pos + best - 1)))'
  BY <1>5, <1>9 DEF Known, Ids
<1> QED  BY <1>6, <1>7, <1>8, <1>10 DEF WalkSound

LEMMA WalkEndsKeeps ==
  ASSUME IInv, WalkEnds
  PROVE  IInv'
<1> USE DEF IInv
<1>1. /\ phase = "walk" /\ pos <= Len(text) /\ node' = <<>> /\ best' = 0
      /\ UNCHANGED <<vocab, merges, text, phase, pieces>>
  BY DEF WalkEnds
<1>2. text \in Seq(Byte) /\ pos \in Nat \ {0} /\ best \in Nat
  BY TextTyped DEF TypeOK
<1>3. out' \in Seq(0 .. Len(vocab) - 1) /\ pos' \in Nat \ {0} /\ pos' <= Len(text) + 1
  <2> DEFINE token == SubSeq(text, pos, pos + best - 1)
  <2>1. CASE best > 0
    <3>1. Known(token)
      BY <1>1, <2>1 DEF WalkSound
    <3>2. out' = Append(out, LastId(token)) /\ pos' = pos + best
      BY <2>1 DEF WalkEnds
    <3> HIDE DEF token
    <3>3. LastId(token) \in 0 .. Len(vocab) - 1
      BY <3>1, LastIdTyped
    <3>4. pos + best <= Len(text) + 1
      <4>1. best <= Len(node) /\ pos + Len(node) <= Len(text) + 1 /\ Len(node) \in Nat
        BY <1>1 DEF WalkSound, TypeOK
      <4> QED  BY <1>2, <4>1
    <3>5. out' \in Seq(0 .. Len(vocab) - 1)
      BY <3>2, <3>3 DEF TypeOK
    <3> QED  BY <1>2, <3>2, <3>4, <3>5
  <2>2. CASE ~(best > 0)
    <3>1. out' = Append(out, ByteId(text[pos])) /\ pos' = pos + 1
      BY <2>2 DEF WalkEnds
    <3>2. ByteId(text[pos]) \in 0 .. Len(vocab) - 1
      BY ByteIdTyped
    <3>3. out' \in Seq(0 .. Len(vocab) - 1)
      BY <3>1, <3>2 DEF TypeOK
    <3> QED  BY <1>1, <1>2, <3>1, <3>3
  <2> QED  BY <2>1, <2>2
<1>4. TypeOK'
  BY <1>1, <1>3 DEF TypeOK
<1>5. node' = SubSeq(text', pos', pos' + Len(node') - 1)
  <2> DEFINE q == pos'
  <2>1. q \in Nat \ {0} /\ q <= Len(text) + 1
    BY <1>3
  <2> HIDE DEF q
  <2>2. SubSeq(text, q, q - 1) = <<>>
    BY <1>2, <2>1
  <2>3. pos' + Len(node') - 1 = q - 1
    BY <1>1, <2>1 DEF q
  <2>4. pos' = q
    BY DEF q
  <2> QED  BY <1>1, <2>2, <2>3, <2>4
<1>6. pos' + Len(node') <= Len(text') + 1 /\ best' = 0 /\ Len(node') = 0
  BY <1>1, <1>2, <1>3
<1> QED  BY <1>4, <1>5, <1>6 DEF WalkSound

LEMMA NextKeeps == IInv /\ [Next]_vars => IInv'
<1> SUFFICES ASSUME IInv, [Next]_vars
             PROVE  IInv'
  OBVIOUS
<1>1. ASSUME NEW t \in Texts, Encode(t)
      PROVE  IInv'
  BY <1>1, EncodeKeeps
<1>2. CASE MergeBest
  BY <1>2, MergeBestKeeps
<1>3. CASE MergesDone
  BY <1>3, MergesDoneKeeps
<1>4. CASE EmitPiece
  BY <1>4, EmitPieceKeeps
<1>5. CASE Walk
  BY <1>5, WalkKeeps
<1>6. CASE WalkEnds
  BY <1>6, WalkEndsKeeps
<1>7. CASE EmitDone \/ TrieDone
  BY <1>7, DoneKeeps DEF EmitDone, TrieDone
<1>8. CASE UNCHANGED vars
  BY <1>8 DEF vars, IInv, TypeOK, WalkSound, Known, Ids
<1> QED  BY <1>1, <1>2, <1>3, <1>4, <1>5, <1>6, <1>7, <1>8 DEF Next, Work

\* The invariant holds in every state of every behaviour.
THEOREM Invariance == Spec => []IInv
  BY InitIInv, NextKeeps, PTL DEF Spec

\* Every state of the encoder is typed: encode (src/tokenizer.cpp) returns ids
\* of the vocabulary only, whatever the vocabulary, the merges and the text,
\* by either algorithm and by the byte fallback of both.
THEOREM TypeCorrect == Spec => []TypeOK
<1>1. IInv => TypeOK
  BY DEF IInv
<1> QED  BY <1>1, Invariance, PTL

-----------------------------------------------------------------------------
(* Induction, by the least number that would be missing from a set. *)

LEMMA SetInduction ==
  ASSUME NEW S, 0 \in S, \A n \in Nat : n \in S => n + 1 \in S
  PROVE  \A n \in Nat : n \in S
<1> DEFINE T == {n \in Nat : n \notin S}
<1>1. ASSUME T # {}
      PROVE  FALSE
  <2>1. T \subseteq Nat
    OBVIOUS
  <2> HIDE DEF T
  <2>2. PICK x \in T : \A y \in T : x <= y
    BY <1>1, <2>1, NatSetHasLeast
  <2>3. x \in Nat /\ x \notin S /\ x # 0
    BY DEF T
  <2>4. x - 1 \in Nat /\ x - 1 \notin T
    BY <2>2, <2>3, <2>1
  <2>5. x - 1 \in S
    BY <2>4 DEF T
  <2>6. (x - 1) + 1 \in S /\ (x - 1) + 1 = x
    BY <2>3, <2>4, <2>5
  <2> QED  BY <2>3, <2>6
<1> QED  BY <1>1

-----------------------------------------------------------------------------
(* Greedy longest match, as the recursive definition gives it. *)

\* How many bytes of the text make a token, from position p on.
Fits(p) == {n \in 1 .. Len(text) + 1 - p : Known(SubSeq(text, p, p + n - 1))}

\* The ids from position p on, when g gives those of later positions.
MatchFrom(g, p) ==
  IF p > Len(text) THEN <<>>
  ELSE IF Fits(p) = {} THEN <<ByteId(text[p])>> \o g[p + 1]
  ELSE <<LastId(SubSeq(text, p, p + Max(Fits(p)) - 1))>> \o g[p + Max(Fits(p))]

LEMMA FitsTyped ==
  ASSUME TypeOK, NEW p \in Nat \ {0}, Fits(p) # {}
  PROVE  /\ Max(Fits(p)) \in Fits(p)
         /\ Max(Fits(p)) \in Nat \ {0}
         /\ p + Max(Fits(p)) <= Len(text) + 1
<1>1. Len(text) \in Nat
  BY TextTyped
<1>2. PICK n \in Fits(p) : TRUE
  OBVIOUS
<1>3. Len(text) + 1 - p \in Nat /\ Fits(p) \subseteq 1 .. Len(text) + 1 - p
  BY <1>1, <1>2 DEF Fits
<1>4. Max(Fits(p)) \in Fits(p)
  BY <1>3, MaxIsGreatest
<1> QED  BY <1>1, <1>3, <1>4

\* What MatchFrom gives at p rests on positions after p only.
LEMMA MatchFromLater ==
  ASSUME TypeOK, NEW p \in Nat \ {0}, NEW g, NEW h,
         \A q \in Nat : q > p => g[q] = h[q]
  PROVE  MatchFrom(g, p) = MatchFrom(h, p)
<1>1. CASE Fits(p) = {}
  BY <1>1 DEF MatchFrom
<1>2. CASE Fits(p) # {}
  <2>1. p + Max(Fits(p)) \in Nat /\ p + Max(Fits(p)) > p
    BY <1>2, FitsTyped
  <2>2. g[p + Max(Fits(p))] = h[p + Max(Fits(p))]
    BY <2>1
  <2> QED  BY <1>2, <2>2 DEF MatchFrom
<1> QED  BY <1>1, <1>2

\* A function that satisfies the recursive definition exists: it is built from
\* the end of the text.
LEMMA LongestMatchExists ==
  ASSUME TypeOK
  PROVE  \E g : g = [p \in Nat \ {0} |-> MatchFrom(g, p)]
<1> DEFINE N == Len(text)
           Solves(g, k) == /\ DOMAIN g = Nat \ {0}
                           /\ g = [p \in Nat \ {0} |-> g[p]]
                           /\ \A p \in Nat \ {0} : p > N - k => g[p] = MatchFrom(g, p)
           S == {k \in Nat : \E g : Solves(g, k)}
<1>1. N \in Nat
  BY TextTyped
<1> HIDE DEF N
<1>2. 0 \in S
  <2> DEFINE g == [p \in Nat \ {0} |-> <<>>]
  <2>1. \A p \in Nat \ {0} : p > N - 0 => g[p] = MatchFrom(g, p)
    BY <1>1 DEF MatchFrom, N
  <2>2. Solves(g, 0)
    BY <2>1
  <2> QED  BY <2>2
<1>3. ASSUME NEW k \in Nat, k \in S
      PROVE  k + 1 \in S
  <2>1. PICK g : Solves(g, k)
    BY <1>3
  <2> DEFINE q == N - k
             h == [p \in Nat \ {0} |-> IF p = q THEN MatchFrom(g, q) ELSE g[p]]
  <2>2. ASSUME NEW p \in Nat \ {0}, p >= q
        PROVE  MatchFrom(h, p) = MatchFrom(g, p)
    <3>1. \A r \in Nat : r > p => h[r] = g[r]
      BY <1>1, <2>2
    <3> HIDE DEF h
    <3> QED  BY <3>1, MatchFromLater
  <2>3. ASSUME NEW p \in Nat \ {0}, p > N - (k + 1)
        PROVE  h[p] = MatchFrom(h, p)
    <3>1. p >= q
      BY <1>1, <2>3
    <3>2. MatchFrom(h, p) = MatchFrom(g, p)
      BY <2>2, <3>1
    <3>3. CASE p = q
      BY <3>2, <3>3
    <3>4. CASE p # q
      <4>1. p > N - k
        BY <1>1, <3>1, <3>4
      <4>2. g[p] = MatchFrom(g, p)
        BY <2>1, <4>1
      <4> QED  BY <3>2, <3>4, <4>2
    <3> QED  BY <3>3, <3>4
  <2>4. Solves(h, k + 1)
    BY <2>3
  <2> HIDE DEF h
  <2> QED  BY <2>4
<1> HIDE DEF S
<1>4. N \in S
  BY <1>1, <1>2, <1>3, SetInduction
<1>5. PICK g : Solves(g, N)
  BY <1>4 DEF S
<1>6. \A p \in Nat \ {0} : g[p] = MatchFrom(g, p)
  BY <1>1, <1>5
<1>7. g = [p \in Nat \ {0} |-> MatchFrom(g, p)]
  BY <1>5, <1>6
<1> QED  BY <1>7

LEMMA LongestMatchDef ==
  ASSUME TypeOK, NEW p \in Nat \ {0}
  PROVE  LongestMatch[p] = MatchFrom(LongestMatch, p)
<1> DEFINE f == CHOOSE g : g = [q \in Nat \ {0} |-> MatchFrom(g, q)]
<1>1. f = [q \in Nat \ {0} |-> MatchFrom(f, q)]
  BY LongestMatchExists
<1>2. LongestMatch = f
  BY DEF LongestMatch, MatchFrom, Fits
<1> HIDE DEF f
<1> QED  BY <1>1, <1>2

LEMMA LongestMatchTyped ==
  ASSUME TypeOK, NEW p \in Nat \ {0}
  PROVE  LongestMatch[p] \in Seq(Nat)
<1> DEFINE N == Len(text)
           S == {k \in Nat : \A q \in Nat \ {0} : q > N - k => LongestMatch[q] \in Seq(Nat)}
<1>1. N \in Nat
  BY TextTyped
<1>2. 0 \in S
  <2>1. \A q \in Nat \ {0} : q > N => LongestMatch[q] = <<>>
    BY LongestMatchDef DEF MatchFrom
  <2>2. <<>> \in Seq(Nat)
    OBVIOUS
  <2>3. \A q \in Nat \ {0} : q > N - 0 => q > N
    BY <1>1
  <2>4. \A q \in Nat \ {0} : q > N - 0 => LongestMatch[q] \in Seq(Nat)
    BY <2>1, <2>2, <2>3
  <2> QED  BY <2>4
<1>3. ASSUME NEW k \in Nat, k \in S
      PROVE  k + 1 \in S
  <2> SUFFICES ASSUME NEW q \in Nat \ {0}, q > N - (k + 1)
               PROVE  LongestMatch[q] \in Seq(Nat)
    BY <1>3
  <2>1. \A r \in Nat \ {0} : r > q => LongestMatch[r] \in Seq(Nat)
    BY <1>1, <1>3
  <2>2. LongestMatch[q] = MatchFrom(LongestMatch, q)
    BY LongestMatchDef
  <2>3. CASE q > Len(text)
    BY <2>2, <2>3 DEF MatchFrom
  <2>4. CASE ~(q > Len(text)) /\ Fits(q) = {}
    <3>1. ByteId(text[q]) \in Nat
      BY ByteIdTyped, VocabTyped
    <3>2. LongestMatch[q + 1] \in Seq(Nat)
      BY <2>1
    <3> QED  BY <2>2, <2>4, <3>1, <3>2 DEF MatchFrom
  <2>5. CASE ~(q > Len(text)) /\ Fits(q) # {}
    <3> DEFINE m == Max(Fits(q))
               token == SubSeq(text, q, q + m - 1)
    <3>1. m \in Fits(q) /\ m \in Nat \ {0}
      BY <2>5, FitsTyped
    <3>2. Known(token)
      BY <3>1 DEF Fits
    <3>3. LastId(token) \in Nat
      BY <3>2, LastIdTyped, VocabTyped
    <3>4. LongestMatch[q + m] \in Seq(Nat)
      BY <2>1, <3>1
    <3>5. LongestMatch[q] = <<LastId(token)>> \o LongestMatch[q + m]
      BY <2>2, <2>5 DEF MatchFrom
    <3> HIDE DEF m, token
    <3> QED  BY <3>3, <3>4, <3>5
  <2> QED  BY <2>3, <2>4, <2>5
<1> HIDE DEF S
<1>4. N \in S
  BY <1>1, <1>2, <1>3, SetInduction
<1>5. p > N - N
  BY <1>1
<1> QED  BY <1>4, <1>5 DEF S

-----------------------------------------------------------------------------
(* The trie loop is greedy. *)

\* No longer part of the node is a token than the best match.
Tested ==
  phase = "walk" => \A n \in best + 1 .. Len(node) : ~Known(SubSeq(text, pos, pos + n - 1))

\* The BPE loops run only for merges that have a rank.
ByMerges == phase \in {"merge", "emit"} => Ranked # {}

Greedy == Tested /\ ByMerges /\ TrieIsLongestMatch

\* A token that begins with the node and is longer passes through one more node.
LEMMA TokenIsWalked ==
  ASSUME TypeOK, WalkSound, phase = "walk", ~CanWalk,
         NEW n \in 1 .. Len(text) + 1 - pos, n > Len(node)
  PROVE  ~Known(SubSeq(text, pos, pos + n - 1))
<1> DEFINE p == pos
           m == Len(node)
           token == SubSeq(text, p, p + n - 1)
<1>1. /\ text \in Seq(Byte) /\ p \in Nat \ {0} /\ m \in Nat /\ Len(text) \in Nat
      /\ n \in Nat /\ n > m /\ p + n - 1 <= Len(text)
  BY TextTyped DEF TypeOK
<1>2. Longer = SubSeq(text, p, p + m)
  <2>1. p + m <= Len(text)
    BY <1>1
  <2>2. node = SubSeq(text, p, p + m - 1)
    BY DEF WalkSound
  <2> HIDE DEF p, m
  <2>3. Append(SubSeq(text, p, p + m - 1), text[p + m]) = SubSeq(text, p, p + m)
    BY <1>1, <2>1, PrefixGrows
  <2> QED  BY <2>2, <2>3 DEF Longer, p, m
<1>3. ~IsNode(Longer)
  <2>1. p + m <= Len(text)
    BY <1>1
  <2> QED  BY <2>1 DEF CanWalk
<1> HIDE DEF p, m
<1>4. SUFFICES ASSUME Known(token)
               PROVE  FALSE
  BY DEF p
<1>5. PICK k \in 1 .. Len(vocab) : vocab[k] = token
  BY <1>4 DEF Known, Ids
<1>6. /\ token \in Seq(Byte) /\ Len(token) = n
      /\ \A i \in 1 .. n : token[i] = text[p + i - 1]
  BY <1>1, SubSeqProperties
<1> DEFINE longer == SubSeq(text, p, p + m)
<1>7. /\ longer \in Seq(Byte) /\ Len(longer) = m + 1
      /\ \A i \in 1 .. m + 1 : longer[i] = text[p + i - 1]
  BY <1>1, SubSeqProperties
<1> HIDE DEF token, longer
<1>8. SubSeq(longer, 1, m + 1) = SubSeq(token, 1, m + 1)
  <2>1. /\ SubSeq(longer, 1, m + 1) \in Seq(Byte) /\ Len(SubSeq(longer, 1, m + 1)) = m + 1
        /\ \A i \in 1 .. m + 1 : SubSeq(longer, 1, m + 1)[i] = longer[i]
    BY <1>1, <1>7, SubSeqProperties
  <2>2. /\ SubSeq(token, 1, m + 1) \in Seq(Byte) /\ Len(SubSeq(token, 1, m + 1)) = m + 1
        /\ \A i \in 1 .. m + 1 : SubSeq(token, 1, m + 1)[i] = token[i]
    BY <1>1, <1>6, SubSeqProperties
  <2>3. ASSUME NEW i \in 1 .. m + 1
        PROVE  longer[i] = token[i]
    <3>1. i \in 1 .. n
      BY <1>1
    <3>2. longer[i] = text[p + i - 1]
      BY <1>7
    <3>3. token[i] = text[p + i - 1]
      BY <1>6, <3>1
    <3> QED  BY <3>2, <3>3
  <2> QED  BY <2>1, <2>2, <2>3, SeqEqual
<1>9. IsPrefix(longer, token)
  BY <1>1, <1>6, <1>7, <1>8 DEF IsPrefix
<1>10. IsNode(longer)
  BY <1>5, <1>9 DEF IsNode
<1> QED  BY <1>2, <1>3, <1>10 DEF longer

\* When the walk ends, the best match is the longest of all.
LEMMA WalkFindsLongest ==
  ASSUME TypeOK, WalkSound, Tested, phase = "walk", ~CanWalk, pos <= Len(text)
  PROVE  /\ best > 0 => Fits(pos) # {} /\ Max(Fits(pos)) = best
         /\ best = 0 => Fits(pos) = {}
<1>1. /\ Len(text) \in Nat /\ pos \in Nat \ {0} /\ best \in Nat /\ Len(node) \in Nat
      /\ best <= Len(node) /\ pos + Len(node) <= Len(text) + 1
  BY TextTyped DEF TypeOK, WalkSound
<1>2. \A n \in Fits(pos) : n \in 1 .. best
  <2> SUFFICES ASSUME NEW n \in Fits(pos), n > best
               PROVE  FALSE
    BY <1>1 DEF Fits
  <2>1. n \in 1 .. Len(text) + 1 - pos /\ Known(SubSeq(text, pos, pos + n - 1))
    BY DEF Fits
  <2>2. CASE n <= Len(node)
    BY <1>1, <2>1, <2>2 DEF Tested
  <2>3. CASE n > Len(node)
    BY <2>1, <2>3, TokenIsWalked
  <2> QED  BY <1>1, <2>1, <2>2, <2>3
<1>3. CASE best > 0
  <2>1. best \in Fits(pos)
    BY <1>1, <1>3 DEF Fits, WalkSound
  <2>2. Max(Fits(pos)) \in Fits(pos) /\ \A y \in Fits(pos) : Max(Fits(pos)) >= y
    <3> DEFINE F == Fits(pos)
    <3>1. best \in F /\ \A y \in F : best >= y
      BY <1>1, <1>2, <2>1
    <3> HIDE DEF F
    <3>2. Max(F) \in F /\ \A y \in F : Max(F) >= y
      BY <3>1 DEF Max
    <3> QED  BY <3>2 DEF F
  <2>3. Max(Fits(pos)) \in 1 .. best /\ Max(Fits(pos)) >= best
    BY <1>2, <2>1, <2>2
  <2>4. Max(Fits(pos)) = best
    BY <1>1, <2>3
  <2> QED  BY <1>3, <2>1, <2>4
<1>4. CASE best = 0
  BY <1>2, <1>4
<1> QED  BY <1>3, <1>4

LEMMA LongestMatchKept ==
  ASSUME UNCHANGED <<vocab, text>>
  PROVE  LongestMatch' = LongestMatch
  BY DEF LongestMatch, Known, Ids, ByteId, LastId, FirstId

LEMMA RankedKept ==
  ASSUME UNCHANGED merges
  PROVE  Ranked' = Ranked
  BY DEF Ranked

LEMMA InitGreedy == Init => Greedy
<1> SUFFICES ASSUME Init
             PROVE  Greedy
  OBVIOUS
<1>1. TypeOK
  BY InitIInv DEF IInv
<1>2. Len(text) = 0 /\ out = <<>> /\ phase = "idle"
  BY DEF Init
<1>3. LongestMatch[1] = <<>>
  <2>1. LongestMatch[1] = MatchFrom(LongestMatch, 1)
    BY <1>1, LongestMatchDef
  <2>2. 1 > Len(text)
    BY <1>2
  <2> QED  BY <2>1, <2>2 DEF MatchFrom
<1> QED  BY <1>2, <1>3 DEF Greedy, Tested, ByMerges, TrieIsLongestMatch

LEMMA WholeMatchTyped == TypeOK => LongestMatch[1] \in Seq(Nat)
  BY LongestMatchTyped

LEMMA EncodeGreedy ==
  ASSUME TypeOK', NEW t \in Texts, Encode(t)
  PROVE  Greedy'
<1>1. (TypeOK => LongestMatch[1] \in Seq(Nat))'
  BY WholeMatchTyped, PTL
<1>2. /\ out' = <<>> /\ pos' = 1 /\ node' = <<>> /\ best' = 0
      /\ phase' \in {"merge", "walk"} /\ (phase' = "merge" => Ranked # {})
      /\ merges' = merges
  BY DEF Encode
<1>3. Tested'
  BY <1>2 DEF Tested
<1>4. ByMerges'
  BY <1>2 DEF ByMerges, Ranked
<1>5. TrieIsLongestMatch'
  <2> DEFINE f == LongestMatch[1]'
  <2>1. f \in Seq(Nat)
    BY <1>1
  <2> HIDE DEF f
  <2>2. <<>> \o f = f
    BY <2>1
  <2>3. (out \o LongestMatch[pos] = LongestMatch[1])'
    BY <1>2, <2>2 DEF f
  <2> QED  BY <1>2, <2>3 DEF TrieIsLongestMatch
<1> QED  BY <1>3, <1>4, <1>5 DEF Greedy

LEMMA MergingGreedy ==
  ASSUME Greedy, MergeBest \/ MergesDone \/ EmitPiece \/ EmitDone
  PROVE  Greedy'
<1>1. /\ phase \in {"merge", "emit"} /\ phase' \in {"merge", "emit", "idle"}
      /\ merges' = merges
  BY DEF MergeBest, MergesDone, EmitPiece, EmitDone, Done
<1>2. Ranked # {} /\ Ranked' # {}
  BY <1>1, RankedKept DEF Greedy, ByMerges
<1> QED  BY <1>1, <1>2 DEF Greedy, Tested, ByMerges, TrieIsLongestMatch

LEMMA WalkGreedy ==
  ASSUME TypeOK, WalkSound, Greedy, Walk
  PROVE  Greedy'
<1>1. /\ phase = "walk" /\ phase' = "walk" /\ node' = Longer
      /\ best' = (IF Known(Longer) THEN Len(Longer) ELSE best)
      /\ pos' = pos /\ out' = out /\ UNCHANGED <<vocab, text>>
  BY DEF Walk
<1>2. /\ Len(node) \in Nat /\ pos \in Nat \ {0} /\ best \in Nat /\ best <= Len(node)
      /\ pos + Len(node) <= Len(text) /\ text \in Seq(Byte)
  BY TextTyped DEF TypeOK, Walk, CanWalk, WalkSound
<1>3. /\ Longer = SubSeq(text, pos, pos + Len(node))
      /\ Len(Longer) = Len(node) + 1
  <2> DEFINE p == pos
             m == Len(node)
  <2>1. node = SubSeq(text, p, p + m - 1)
    BY <1>1 DEF WalkSound
  <2>2. node \in Seq(Byte) /\ text[p + m] \in Byte
    BY <1>2 DEF TypeOK
  <2>3. Len(Longer) = Len(node) + 1
    BY <2>2 DEF Longer
  <2> HIDE DEF p, m
  <2>4. Append(SubSeq(text, p, p + m - 1), text[p + m]) = SubSeq(text, p, p + m)
    BY <1>2, PrefixGrows DEF p, m
  <2> QED  BY <2>1, <2>3, <2>4 DEF Longer, p, m
<1>4. \A n \in best' + 1 .. Len(node') : ~Known(SubSeq(text, pos, pos + n - 1))
  <2> SUFFICES ASSUME NEW n \in best' + 1 .. Len(node')
               PROVE  ~Known(SubSeq(text, pos, pos + n - 1))
    OBVIOUS
  <2>1. CASE Known(Longer)
    BY <1>1, <1>2, <1>3, <2>1
  <2>2. CASE ~Known(Longer)
    <3>1. n \in best + 1 .. Len(node) + 1
      BY <1>1, <1>3, <2>2
    <3>2. CASE n <= Len(node)
      BY <1>1, <1>2, <3>1, <3>2 DEF Greedy, Tested
    <3>3. CASE n = Len(node) + 1
      <4>1. pos + n - 1 = pos + Len(node)
        BY <1>2, <3>3
      <4> QED  BY <1>3, <2>2, <4>1
    <3> QED  BY <1>2, <3>1, <3>2, <3>3
  <2> QED  BY <2>1, <2>2
<1>5. (\A n \in best + 1 .. Len(node) : ~Known(SubSeq(text, pos, pos + n - 1)))'
  BY <1>1, <1>4 DEF Known, Ids
<1>6. LongestMatch' = LongestMatch
  BY <1>1, LongestMatchKept
<1> QED  BY <1>1, <1>5, <1>6 DEF Greedy, Tested, ByMerges, TrieIsLongestMatch

LEMMA WalkEndsGreedy ==
  ASSUME TypeOK, WalkSound, Greedy, WalkEnds
  PROVE  Greedy'
<1>1. /\ phase = "walk" /\ phase' = "walk" /\ pos <= Len(text) /\ ~CanWalk
      /\ node' = <<>> /\ best' = 0 /\ UNCHANGED <<vocab, text>>
  BY DEF WalkEnds
<1>2. LongestMatch' = LongestMatch
  BY <1>1, LongestMatchKept
<1>3. /\ Len(text) \in Nat /\ pos \in Nat \ {0} /\ best \in Nat
      /\ out \in Seq(Nat)
  <2>1. Len(vocab) \in Nat
    BY VocabTyped
  <2> QED  BY <2>1, TextTyped DEF TypeOK
<1>4. LongestMatch[pos] = MatchFrom(LongestMatch, pos)
  BY <1>3, LongestMatchDef
<1>5. /\ best > 0 => Fits(pos) # {} /\ Max(Fits(pos)) = best
      /\ best = 0 => Fits(pos) = {}
  BY <1>1, WalkFindsLongest DEF Greedy
<1>6. \E id \in Nat : /\ out' = Append(out, id)
                      /\ pos' \in Nat \ {0}
                      /\ LongestMatch[pos] = <<id>> \o LongestMatch[pos']
  <2>1. CASE best > 0
    <3> DEFINE token == SubSeq(text, pos, pos + best - 1)
    <3>1. out' = Append(out, LastId(token)) /\ pos' = pos + best
      BY <2>1 DEF WalkEnds
    <3>2. LastId(token) \in Nat
      <4>1. Known(token)
        BY <1>1, <2>1 DEF WalkSound
      <4> QED  BY <4>1, LastIdTyped, VocabTyped
    <3>3. LongestMatch[pos] = <<LastId(token)>> \o LongestMatch[pos + best]
      BY <1>1, <1>3, <1>4, <1>5, <2>1 DEF MatchFrom
    <3> HIDE DEF token
    <3>4. pos' \in Nat \ {0}
      BY <1>3, <3>1
    <3>5. LongestMatch[pos] = <<LastId(token)>> \o LongestMatch[pos']
      BY <3>1, <3>3
    <3> QED  BY <3>1, <3>2, <3>4, <3>5
  <2>2. CASE best = 0
    <3> DEFINE id == ByteId(text[pos])
    <3>1. out' = Append(out, id) /\ pos' = pos + 1
      BY <2>2 DEF WalkEnds
    <3>2. id \in Nat
      BY ByteIdTyped, VocabTyped
    <3>3. LongestMatch[pos] = <<id>> \o LongestMatch[pos + 1]
      BY <1>1, <1>3, <1>4, <1>5, <2>2 DEF MatchFrom
    <3> HIDE DEF id
    <3>4. pos' \in Nat \ {0}
      BY <1>3, <3>1
    <3>5. LongestMatch[pos] = <<id>> \o LongestMatch[pos']
      BY <3>1, <3>3
    <3> QED  BY <3>1, <3>2, <3>4, <3>5
  <2> QED  BY <1>3, <2>1, <2>2
<1>7. out' \o LongestMatch[pos'] = out \o LongestMatch[pos]
  <2>1. PICK id \in Nat : /\ out' = Append(out, id)
                          /\ pos' \in Nat \ {0}
                          /\ LongestMatch[pos] = <<id>> \o LongestMatch[pos']
    BY <1>6
  <2>2. LongestMatch[pos'] \in Seq(Nat)
    <3> DEFINE q == pos'
    <3> HIDE DEF q
    <3>1. q \in Nat \ {0} => LongestMatch[q] \in Seq(Nat)
      BY LongestMatchTyped
    <3> QED  BY <2>1, <3>1 DEF q
  <2> DEFINE rest == LongestMatch[pos']
  <2> HIDE DEF rest
  <2>3. Append(out, id) = out \o <<id>>
    BY <1>3
  <2>4. (out \o <<id>>) \o rest = out \o (<<id>> \o rest)
    <3>1. <<id>> \in Seq(Nat) /\ rest \in Seq(Nat)
      BY <2>2 DEF rest
    <3> QED  BY <1>3, <3>1, ConcatAssociative
  <2> QED  BY <2>1, <2>3, <2>4 DEF rest
<1>8. (out \o LongestMatch[pos] = LongestMatch[1])'
  BY <1>1, <1>2, <1>7 DEF Greedy, TrieIsLongestMatch
<1> QED  BY <1>1, <1>8 DEF Greedy, Tested, ByMerges, TrieIsLongestMatch

LEMMA TrieDoneGreedy ==
  ASSUME TypeOK, Greedy, TrieDone
  PROVE  Greedy'
<1>1. /\ phase = "walk" /\ phase' = "idle" /\ pos > Len(text) /\ out' = out
      /\ UNCHANGED <<vocab, text>>
  BY DEF TrieDone, Done
<1>2. LongestMatch' = LongestMatch
  BY <1>1, LongestMatchKept
<1>3. pos \in Nat \ {0} /\ out \in Seq(Nat)
  <2>1. Len(vocab) \in Nat
    BY VocabTyped
  <2> QED  BY <2>1 DEF TypeOK
<1>4. LongestMatch[pos] = <<>>
  BY <1>1, <1>3, LongestMatchDef DEF MatchFrom
<1>5. out = LongestMatch[1]
  BY <1>1, <1>3, <1>4 DEF Greedy, TrieIsLongestMatch
<1> QED  BY <1>1, <1>2, <1>5 DEF Greedy, Tested, ByMerges, TrieIsLongestMatch

\* Tested, ByMerges and the longest match hold in every state.
LEMMA GreedyHolds == Spec => []Greedy
<1>1. Init => Greedy
  BY InitGreedy
<1>2. IInv /\ IInv' /\ Greedy /\ [Next]_vars => Greedy'
  <2> SUFFICES ASSUME IInv, IInv', Greedy, [Next]_vars
               PROVE  Greedy'
    OBVIOUS
  <2> USE DEF IInv
  <2>1. ASSUME NEW t \in Texts, Encode(t)
        PROVE  Greedy'
    BY <2>1, EncodeGreedy
  <2>2. CASE MergeBest \/ MergesDone \/ EmitPiece \/ EmitDone
    BY <2>2, MergingGreedy
  <2>3. CASE Walk
    BY <2>3, WalkGreedy
  <2>4. CASE WalkEnds
    BY <2>4, WalkEndsGreedy
  <2>5. CASE TrieDone
    BY <2>5, TrieDoneGreedy
  <2>6. CASE UNCHANGED vars
    <3>1. UNCHANGED <<vocab, merges, text, phase, pos, node, best, out>>
      BY <2>6 DEF vars
    <3>2. LongestMatch' = LongestMatch /\ Ranked' = Ranked
      BY <3>1, LongestMatchKept, RankedKept
    <3>3. Tested'
      BY <3>1 DEF Greedy, Tested, Known, Ids
    <3> QED  BY <3>1, <3>2, <3>3 DEF Greedy, ByMerges, TrieIsLongestMatch
  <2> QED  BY <2>1, <2>2, <2>3, <2>4, <2>5, <2>6 DEF Next, Work
<1> QED  BY <1>1, <1>2, Invariance, PTL DEF Spec

\* The trie loop of encode_trie (src/tokenizer.cpp) computes greedy longest match,
\* for every vocabulary and every text: at each point of it what is out, followed
\* by the longest match of the rest, is the longest match of the text.
THEOREM TrieIsGreedy == Spec => []TrieIsLongestMatch
<1>1. Greedy => TrieIsLongestMatch
  BY DEF Greedy
<1> QED  BY <1>1, GreedyHolds, PTL

-----------------------------------------------------------------------------
(* FlattenSeq, which decode is: by induction over the sequence. *)

\* The recursive step of FlattenSeq.
FlatFrom(g, s, i) == IF i = 1 THEN s[i] ELSE g[i - 1] \o s[i]

IsFlat(g, s) == g = [i \in 1 .. Len(s) |-> FlatFrom(g, s, i)]

LEMMA FlatAt ==
  ASSUME NEW s, NEW g, IsFlat(g, s), NEW i \in 1 .. Len(s)
  PROVE  g[i] = FlatFrom(g, s, i)
<1> DEFINE e(j) == FlatFrom(g, s, j)
<1>1. g = [j \in 1 .. Len(s) |-> e(j)]
  BY DEF IsFlat
<1> HIDE DEF e
<1>2. g[i] = e(i)
  BY <1>1
<1> QED  BY <1>2 DEF e

LEMMA FlatExists ==
  ASSUME NEW E, NEW s \in Seq(Seq(E))
  PROVE  \E g : IsFlat(g, s)
<1> DEFINE N == Len(s)
           Solves(g, k) == /\ g = [i \in 1 .. N |-> g[i]]
                           /\ \A i \in 1 .. N : i <= k => g[i] = FlatFrom(g, s, i)
           S == {k \in Nat : \E g : Solves(g, k)}
<1>1. N \in Nat
  OBVIOUS
<1> HIDE DEF N
<1>2. 0 \in S
  <2> DEFINE g == [i \in 1 .. N |-> <<>>]
  <2>1. Solves(g, 0)
    OBVIOUS
  <2> QED  BY <2>1
<1>3. ASSUME NEW k \in Nat, k \in S
      PROVE  k + 1 \in S
  <2>1. PICK g : Solves(g, k)
    BY <1>3
  <2> DEFINE h == [i \in 1 .. N |-> IF i = k + 1 THEN FlatFrom(g, s, i) ELSE g[i]]
  <2>2. ASSUME NEW i \in 1 .. N, i <= k + 1
        PROVE  h[i] = FlatFrom(h, s, i)
    <3>1. h[i] = FlatFrom(g, s, i)
      BY <2>1, <2>2
    <3>2. i # 1 => h[i - 1] = g[i - 1]
      BY <1>1, <2>2
    <3> HIDE DEF h
    <3> QED  BY <3>1, <3>2 DEF FlatFrom
  <2>3. Solves(h, k + 1)
    BY <2>2
  <2> HIDE DEF h, Solves
  <2> QED  BY <2>3
<1> HIDE DEF S
<1>4. N \in S
  BY <1>1, <1>2, <1>3, SetInduction
<1>5. PICK g : Solves(g, N)
  BY <1>4 DEF S
<1>6. \A i \in 1 .. N : g[i] = FlatFrom(g, s, i)
  BY <1>1, <1>5
<1> QED  BY <1>5, <1>6 DEF IsFlat, N

LEMMA FlattenDef ==
  ASSUME NEW E, NEW s \in Seq(Seq(E)), Len(s) # 0
  PROVE  \E g : IsFlat(g, s) /\ FlattenSeq(s) = g[Len(s)]
<1> DEFINE f == CHOOSE g : g = [i \in 1 .. Len(s) |-> FlatFrom(g, s, i)]
<1>1. f = [i \in 1 .. Len(s) |-> FlatFrom(f, s, i)]
  BY FlatExists DEF IsFlat
<1>2. FlattenSeq(s) = f[Len(s)]
  BY DEF FlattenSeq, FlatFrom
<1> HIDE DEF f
<1> QED  BY <1>1, <1>2 DEF IsFlat

LEMMA FlattenEmpty == FlattenSeq(<<>>) = <<>>
  BY DEF FlattenSeq

\* t begins with s.
Begins(t, s) == Len(s) <= Len(t) /\ \A i \in 1 .. Len(s) : s[i] = t[i]

\* Each prefix is typed, and does not depend on what comes after it.
LEMMA FlatPrefix ==
  ASSUME NEW E, NEW s \in Seq(Seq(E)), NEW t \in Seq(Seq(E)), NEW f, NEW g,
         IsFlat(f, s), IsFlat(g, t), Begins(t, s)
  PROVE  \A i \in 1 .. Len(s) : f[i] \in Seq(E) /\ f[i] = g[i]
<1> USE DEF Begins
<1> DEFINE S == {k \in Nat : \A i \in 1 .. Len(s) : i <= k => f[i] \in Seq(E) /\ f[i] = g[i]}
<1>1. 0 \in S
  OBVIOUS
<1>2. ASSUME NEW k \in Nat, k \in S
      PROVE  k + 1 \in S
  <2> SUFFICES ASSUME NEW i \in 1 .. Len(s), i = k + 1
               PROVE  f[i] \in Seq(E) /\ f[i] = g[i]
    BY <1>2
  <2>1. f[i] = FlatFrom(f, s, i) /\ g[i] = FlatFrom(g, t, i)
    <3>1. Len(s) \in Nat /\ Len(t) \in Nat
      OBVIOUS
    <3>2. i \in 1 .. Len(t)
      BY <3>1
    <3> QED  BY <3>2, FlatAt
  <2>2. s[i] = t[i] /\ s[i] \in Seq(E)
    OBVIOUS
  <2>3. CASE i = 1
    BY <2>1, <2>2, <2>3 DEF FlatFrom
  <2>4. CASE i # 1
    <3>1. f[i - 1] \in Seq(E) /\ f[i - 1] = g[i - 1]
      BY <1>2, <2>4
    <3>2. f[i] = f[i - 1] \o s[i] /\ g[i] = g[i - 1] \o t[i]
      BY <2>1, <2>4 DEF FlatFrom
    <3>3. f[i - 1] \o s[i] \in Seq(E)
      BY <2>2, <3>1, ConcatProperties
    <3> QED  BY <2>2, <3>1, <3>2, <3>3
  <2> QED  BY <2>3, <2>4
<1> HIDE DEF S
<1>3. Len(s) \in Nat
  OBVIOUS
<1>4. Len(s) \in S
  BY <1>1, <1>2, <1>3, SetInduction
<1> QED  BY <1>3, <1>4 DEF S

LEMMA FlattenTyped ==
  ASSUME NEW E, NEW s \in Seq(Seq(E))
  PROVE  FlattenSeq(s) \in Seq(E)
<1>1. CASE Len(s) = 0
  BY <1>1, FlattenEmpty, EmptySeq
<1>2. CASE Len(s) # 0
  <2>1. PICK g : IsFlat(g, s) /\ FlattenSeq(s) = g[Len(s)]
    BY <1>2, FlattenDef
  <2>2. \A i \in 1 .. Len(s) : g[i] \in Seq(E) /\ g[i] = g[i]
    BY <2>1, FlatPrefix DEF Begins
  <2> QED  BY <1>2, <2>1, <2>2
<1> QED  BY <1>1, <1>2

LEMMA FlattenAppend ==
  ASSUME NEW E, NEW s \in Seq(Seq(E)), NEW x \in Seq(E)
  PROVE  FlattenSeq(Append(s, x)) = FlattenSeq(s) \o x
<1> DEFINE t == Append(s, x)
           n == Len(s)
<1>1. /\ t \in Seq(Seq(E)) /\ n \in Nat /\ Len(t) = n + 1 /\ t[n + 1] = x
      /\ \A i \in 1 .. n : s[i] = t[i]
  OBVIOUS
<1> HIDE DEF t
<1>2. PICK g : IsFlat(g, t) /\ FlattenSeq(t) = g[n + 1]
  <2>1. Len(t) # 0
    BY <1>1
  <2>2. \E g : IsFlat(g, t) /\ FlattenSeq(t) = g[Len(t)]
    BY <1>1, <2>1, FlattenDef
  <2> QED  BY <1>1, <2>2
<1>3. g[n + 1] = FlatFrom(g, t, n + 1)
  <2>1. n + 1 \in 1 .. Len(t)
    BY <1>1
  <2> QED  BY <1>2, <2>1, FlatAt
<1>4. CASE n = 0
  <2>1. s = <<>>
    BY <1>4
  <2>2. FlattenSeq(t) = x
    BY <1>1, <1>2, <1>3, <1>4 DEF FlatFrom
  <2>3. <<>> \o x = x
    OBVIOUS
  <2> QED  BY <2>1, <2>2, <2>3, FlattenEmpty DEF t
<1>5. CASE n # 0
  <2>1. PICK f : IsFlat(f, s) /\ FlattenSeq(s) = f[n]
    BY <1>5, FlattenDef
  <2>2. f[n] = g[n]
    <3>1. Begins(t, s)
      BY <1>1 DEF Begins
    <3>2. IsFlat(f, s) /\ IsFlat(g, t) /\ t \in Seq(Seq(E))
      BY <1>1, <1>2, <2>1
    <3>3. \A i \in 1 .. Len(s) : f[i] \in Seq(E) /\ f[i] = g[i]
      BY <3>1, <3>2, FlatPrefix
    <3>4. n \in 1 .. Len(s)
      BY <1>1, <1>5
    <3> QED  BY <3>3, <3>4
  <2>3. g[n + 1] = g[n] \o x
    BY <1>1, <1>3, <1>5 DEF FlatFrom
  <2> QED  BY <1>2, <2>1, <2>2, <2>3 DEF t
<1> QED  BY <1>4, <1>5

\* A sequence that is not empty has a last element.
LEMMA LastSplit ==
  ASSUME NEW E, NEW n \in Nat, NEW t \in Seq(E), Len(t) = n + 1
  PROVE  /\ SubSeq(t, 1, n) \in Seq(E) /\ Len(SubSeq(t, 1, n)) = n
         /\ t[n + 1] \in E
         /\ t = Append(SubSeq(t, 1, n), t[n + 1])
<1> DEFINE a == SubSeq(t, 1, n)
<1>1. a \in Seq(E) /\ Len(a) = n /\ \A i \in 1 .. n : a[i] = t[1 + i - 1]
  BY SubSeqProperties
<1>2. t[n + 1] \in E
  OBVIOUS
<1>3. t = Append(a, t[n + 1])
  <2> HIDE DEF a
  <2>1. /\ Append(a, t[n + 1]) \in Seq(E) /\ Len(Append(a, t[n + 1])) = n + 1
        /\ \A i \in 1 .. n : Append(a, t[n + 1])[i] = a[i]
        /\ Append(a, t[n + 1])[n + 1] = t[n + 1]
    BY <1>1, <1>2
  <2>2. \A i \in 1 .. n + 1 : Append(a, t[n + 1])[i] = t[i]
    BY <1>1, <2>1
  <2> QED  BY <2>1, <2>2, SeqEqual
<1> QED  BY <1>1, <1>2, <1>3

LEMMA FlattenConcat ==
  ASSUME NEW E, NEW s \in Seq(Seq(E)), NEW t \in Seq(Seq(E))
  PROVE  FlattenSeq(s \o t) = FlattenSeq(s) \o FlattenSeq(t)
<1> DEFINE S == {n \in Nat : \A r \in Seq(Seq(E)) :
                   Len(r) = n => FlattenSeq(s \o r) = FlattenSeq(s) \o FlattenSeq(r)}
<1>1. 0 \in S
  <2> SUFFICES ASSUME NEW r \in Seq(Seq(E)), Len(r) = 0
               PROVE  FlattenSeq(s \o r) = FlattenSeq(s) \o FlattenSeq(r)
    OBVIOUS
  <2>1. r = <<>>
    OBVIOUS
  <2>2. s \o <<>> = s /\ FlattenSeq(s) \o <<>> = FlattenSeq(s)
    BY FlattenTyped, ConcatEmptySeq
  <2> QED  BY <2>1, <2>2, FlattenEmpty
<1>2. ASSUME NEW n \in Nat, n \in S
      PROVE  n + 1 \in S
  <2> SUFFICES ASSUME NEW r \in Seq(Seq(E)), Len(r) = n + 1
               PROVE  FlattenSeq(s \o r) = FlattenSeq(s) \o FlattenSeq(r)
    OBVIOUS
  <2> DEFINE a == SubSeq(r, 1, n)
             x == r[n + 1]
  <2>1. a \in Seq(Seq(E)) /\ Len(a) = n /\ x \in Seq(E) /\ r = Append(a, x)
    BY LastSplit
  <2> HIDE DEF a, x
  <2>2. s \o r = Append(s \o a, x)
    BY <2>1
  <2>3. FlattenSeq(s \o a) = FlattenSeq(s) \o FlattenSeq(a)
    BY <1>2, <2>1
  <2>4. s \o a \in Seq(Seq(E))
    BY <2>1
  <2>5. FlattenSeq(s \o r) = (FlattenSeq(s) \o FlattenSeq(a)) \o x
    BY <2>1, <2>2, <2>3, <2>4, FlattenAppend
  <2>6. FlattenSeq(r) = FlattenSeq(a) \o x
    BY <2>1, FlattenAppend
  <2>7. FlattenSeq(s) \in Seq(E) /\ FlattenSeq(a) \in Seq(E) /\ x \in Seq(E)
    BY <2>1, FlattenTyped
  <2>8. (FlattenSeq(s) \o FlattenSeq(a)) \o x = FlattenSeq(s) \o (FlattenSeq(a) \o x)
    <3> DEFINE u == FlattenSeq(s)
               v == FlattenSeq(a)
    <3>1. u \in Seq(E) /\ v \in Seq(E) /\ x \in Seq(E)
      BY <2>7
    <3> HIDE DEF u, v
    <3>2. (u \o v) \o x = u \o (v \o x)
      BY <3>1, ConcatAssociative, SMTT(60)
    <3> QED  BY <3>2 DEF u, v
  <2> QED  BY <2>5, <2>6, <2>8
<1> HIDE DEF S
<1>3. Len(t) \in Nat
  OBVIOUS
<1>4. Len(t) \in S
  BY <1>1, <1>2, <1>3, SetInduction
<1> QED  BY <1>4 DEF S

\* Flattening the elements one by one gives the sequence back.
LEMMA FlattenSingletons ==
  ASSUME NEW E, NEW s \in Seq(E)
  PROVE  FlattenSeq([i \in 1 .. Len(s) |-> <<s[i]>>]) = s
<1> DEFINE Each(r) == [i \in 1 .. Len(r) |-> <<r[i]>>]
           S == {n \in Nat : \A r \in Seq(E) : Len(r) = n => FlattenSeq(Each(r)) = r}
<1>1. 0 \in S
  <2> SUFFICES ASSUME NEW r \in Seq(E), Len(r) = 0
               PROVE  FlattenSeq(Each(r)) = r
    OBVIOUS
  <2>1. r = <<>> /\ Each(r) = <<>>
    OBVIOUS
  <2> QED  BY <2>1, FlattenEmpty
<1>2. ASSUME NEW n \in Nat, n \in S
      PROVE  n + 1 \in S
  <2> SUFFICES ASSUME NEW r \in Seq(E), Len(r) = n + 1
               PROVE  FlattenSeq(Each(r)) = r
    OBVIOUS
  <2> DEFINE a == SubSeq(r, 1, n)
             x == r[n + 1]
  <2>1. a \in Seq(E) /\ Len(a) = n /\ x \in E /\ r = Append(a, x)
    BY LastSplit
  <2> HIDE DEF a, x
  <2>2. Each(r) = Append(Each(a), <<x>>)
    BY <2>1
  <2>3. Each(a) \in Seq(Seq(E)) /\ <<x>> \in Seq(E)
    BY <2>1
  <2>4. FlattenSeq(Each(a)) = a
    BY <1>2, <2>1
  <2> HIDE DEF Each
  <2>5. FlattenSeq(Each(r)) = a \o <<x>>
    BY <2>2, <2>3, <2>4, FlattenAppend
  <2> QED  BY <2>1, <2>5
<1> HIDE DEF S
<1>3. Len(s) \in S
  BY <1>1, <1>2, SetInduction
<1> QED  BY <1>3 DEF S


\* The first part and the last part of a sequence.
LEMMA FirstPart ==
  ASSUME NEW S, NEW s \in Seq(S), NEW n \in 0 .. Len(s)
  PROVE  /\ SubSeq(s, 1, n) \in Seq(S) /\ Len(SubSeq(s, 1, n)) = n
         /\ \A j \in 1 .. n : SubSeq(s, 1, n)[j] = s[j]
<1>1. \A j \in 1 .. n : s[j] \in S
  OBVIOUS
<1> QED  BY <1>1, SubSeqProperties

LEMMA LastPart ==
  ASSUME NEW S, NEW s \in Seq(S), NEW m \in 1 .. Len(s) + 1
  PROVE  /\ SubSeq(s, m, Len(s)) \in Seq(S) /\ Len(SubSeq(s, m, Len(s))) = Len(s) - m + 1
         /\ \A j \in 1 .. Len(s) - m + 1 : SubSeq(s, m, Len(s))[j] = s[m + j - 1]
<1>1. \A j \in m .. Len(s) : s[j] \in S
  OBVIOUS
<1>2. Len(SubSeq(s, m, Len(s))) = IF m <= Len(s) THEN Len(s) - m + 1 ELSE 0
  BY <1>1, SubSeqProperties
<1> QED  BY <1>1, <1>2, SubSeqProperties

LEMMA OnePart ==
  ASSUME NEW S, NEW s \in Seq(S), NEW p \in 1 .. Len(s)
  PROVE  SubSeq(s, p, p) = <<s[p]>>
<1> DEFINE t == SubSeq(s, p, p)
           u == <<s[p]>>
<1>1. p \in Int /\ \A i \in p .. p : s[i] \in S
  OBVIOUS
<1>2. /\ t \in Seq(S) /\ Len(t) = (IF p <= p THEN p - p + 1 ELSE 0)
      /\ \A i \in 1 .. p - p + 1 : t[i] = s[p + i - 1]
  BY <1>1, SubSeqProperties
<1> HIDE DEF t
<1>3. Len(t) = 1 /\ 1 \in 1 .. p - p + 1
  BY <1>1, <1>2
<1>4. t[1] = s[p]
  BY <1>2, <1>3
<1>5. u \in Seq(S) /\ Len(u) = 1 /\ u[1] = s[p]
  OBVIOUS
<1> HIDE DEF u
<1>6. \A i \in 1 .. Len(t) : t[i] = u[i]
  BY <1>3, <1>4, <1>5
<1>7. t = u
  BY <1>2, <1>3, <1>5, <1>6, SeqEqual
<1> QED  BY <1>7, Zenon DEF t, u

\* An element replaced, and the next one removed.
Replaced(s, i, z) == RemoveAt([s EXCEPT ![i] = z], i + 1)

\* The sequence before and after, around the two elements.
Splits(S, s, i, z, a, b) ==
  /\ a \in Seq(S) /\ b \in Seq(S)
  /\ Replaced(s, i, z) = Append(a, z) \o b
  /\ s = Append(Append(a, s[i]), s[i + 1]) \o b

LEMMA ReplacedSplits ==
  ASSUME NEW S, NEW s \in Seq(S), NEW i \in 1 .. Len(s) - 1, NEW z \in S
  PROVE  \E a, b : Splits(S, s, i, z, a, b)
<1> DEFINE N == Len(s)
           x == s[i]
           y == s[i + 1]
           joined == [s EXCEPT ![i] = z]
           a == SubSeq(s, 1, i - 1)
           b == SubSeq(s, i + 2, N)
<1>1. N \in Nat /\ i \in 1 .. N /\ i + 1 \in 1 .. N /\ i \in Nat
  OBVIOUS
<1>2. x \in S /\ y \in S
  BY <1>1
<1>3. /\ joined \in Seq(S) /\ Len(joined) = N
      /\ \A j \in 1 .. N : joined[j] = IF j = i THEN z ELSE s[j]
  BY <1>1, <1>2, ExceptSeq
<1>4. /\ a \in Seq(S) /\ Len(a) = i - 1
      /\ \A j \in 1 .. i - 1 : a[j] = s[j]
  BY <1>1, FirstPart
<1>5. /\ b \in Seq(S) /\ Len(b) = N - i - 1
      /\ \A j \in 1 .. N - i - 1 : b[j] = s[i + j + 1]
  <2>1. i + 2 \in 1 .. N + 1
    BY <1>1
  <2>2. /\ b \in Seq(S) /\ Len(b) = N - (i + 2) + 1
        /\ \A j \in 1 .. N - (i + 2) + 1 : b[j] = s[i + 2 + j - 1]
    BY <2>1, LastPart
  <2> HIDE DEF b, N
  <2>3. Len(b) = N - i - 1 /\ N - (i + 2) + 1 = N - i - 1
    BY <1>1, <2>2
  <2>4. ASSUME NEW j \in 1 .. N - i - 1
        PROVE  b[j] = s[i + j + 1]
    <3>1. i + 2 + j - 1 = i + j + 1
      BY <1>1
    <3>2. b[j] = s[i + 2 + j - 1]
      BY <2>2, <2>3, <2>4
    <3> QED  BY <3>1, <3>2
  <2> QED  BY <2>2, <2>3, <2>4
<1>6. SubSeq(joined, 1, i) = Append(a, z)
  <2> HIDE DEF joined, a, N, x, y
  <2>1. /\ SubSeq(joined, 1, i) \in Seq(S) /\ Len(SubSeq(joined, 1, i)) = i
        /\ \A j \in 1 .. i : SubSeq(joined, 1, i)[j] = joined[j]
    BY <1>1, <1>3, FirstPart
  <2>2. /\ Append(a, z) \in Seq(S) /\ Len(Append(a, z)) = i
        /\ \A j \in 1 .. i - 1 : Append(a, z)[j] = a[j]
        /\ Append(a, z)[i] = z
    BY <1>1, <1>2, <1>4, AppendProperties
  <2>3. ASSUME NEW j \in 1 .. i
        PROVE  SubSeq(joined, 1, i)[j] = Append(a, z)[j]
    <3>1. j \in 1 .. N /\ SubSeq(joined, 1, i)[j] = joined[j]
      BY <1>1, <2>1
    <3>2. CASE j = i
      BY <1>3, <2>2, <3>1, <3>2
    <3>3. CASE j # i
      <4>1. j \in 1 .. i - 1
        BY <1>1, <3>3
      <4>2. joined[j] = s[j] /\ a[j] = s[j] /\ Append(a, z)[j] = a[j]
        BY <1>3, <1>4, <2>2, <3>1, <3>3, <4>1
      <4> QED  BY <3>1, <4>2
    <3> QED  BY <3>2, <3>3
  <2> QED  BY <2>1, <2>2, <2>3, SeqEqual
<1>7. SubSeq(joined, i + 2, N) = b
  <2> HIDE DEF joined, N, x, y
  <2>1. i + 2 \in 1 .. N + 1
    BY <1>1
  <2>2. /\ SubSeq(joined, i + 2, N) \in Seq(S)
        /\ Len(SubSeq(joined, i + 2, N)) = N - (i + 2) + 1
        /\ \A j \in 1 .. N - (i + 2) + 1 : SubSeq(joined, i + 2, N)[j] = joined[i + 2 + j - 1]
    BY <1>3, <2>1, LastPart
  <2> HIDE DEF b
  <2>3. Len(SubSeq(joined, i + 2, N)) = Len(b) /\ N - (i + 2) + 1 = N - i - 1
    BY <1>1, <1>5, <2>2
  <2>4. ASSUME NEW j \in 1 .. Len(b)
        PROVE  SubSeq(joined, i + 2, N)[j] = b[j]
    <3>1. /\ j \in 1 .. N - i - 1 /\ j \in 1 .. N - (i + 2) + 1
          /\ i + 2 + j - 1 = i + j + 1 /\ i + j + 1 \in 1 .. N /\ i + j + 1 # i
      BY <1>1, <1>5
    <3>2. SubSeq(joined, i + 2, N)[j] = joined[i + j + 1] /\ b[j] = s[i + j + 1]
      BY <1>5, <2>2, <3>1
    <3>3. joined[i + j + 1] = s[i + j + 1]
      BY <1>3, <3>1
    <3> QED  BY <3>2, <3>3
  <2> QED  BY <1>5, <2>2, <2>3, <2>4, SeqEqual
<1>8. RemoveAt(joined, i + 1) = Append(a, z) \o b
  <2> HIDE DEF a, b, x, y, joined
  <2> DEFINE k == i + 1
  <2>1. k - 1 = i /\ k + 1 = i + 2
    BY <1>1
  <2> HIDE DEF k
  <2>2. RemoveAt(joined, k) = SubSeq(joined, 1, k - 1) \o SubSeq(joined, k + 1, Len(joined))
    BY DEF RemoveAt
  <2>3. RemoveAt(joined, k) = Append(a, z) \o b
    BY <1>3, <1>6, <1>7, <2>1, <2>2, Zenon
  <2> QED  BY <2>3 DEF k
<1>9. s = Append(Append(a, x), y) \o b
  <2> DEFINE c == Append(Append(a, x), y)
  <2> HIDE DEF a, b, x, y, N
  <2>1. /\ Append(a, x) \in Seq(S) /\ Len(Append(a, x)) = i
        /\ \A j \in 1 .. i - 1 : Append(a, x)[j] = a[j]
        /\ Append(a, x)[i] = x
    BY <1>1, <1>2, <1>4, AppendProperties
  <2>2. /\ c \in Seq(S) /\ Len(c) = i + 1
        /\ \A j \in 1 .. i : c[j] = Append(a, x)[j]
        /\ c[i + 1] = y
    BY <1>1, <1>2, <2>1, AppendProperties
  <2> HIDE DEF c
  <2>3. /\ c \o b \in Seq(S) /\ Len(c \o b) = Len(c) + Len(b)
        /\ \A j \in 1 .. Len(c) + Len(b) :
             (c \o b)[j] = IF j <= Len(c) THEN c[j] ELSE b[j - Len(c)]
    BY <1>5, <2>2, ConcatProperties
  <2>4. Len(c \o b) = N
    BY <1>1, <1>5, <2>2, <2>3
  <2>5. \A j \in 1 .. N : (c \o b)[j] = s[j]
    <3> SUFFICES ASSUME NEW j \in 1 .. N
                 PROVE  (c \o b)[j] = s[j]
      OBVIOUS
    <3>0. j \in 1 .. Len(c) + Len(b)
      BY <2>3, <2>4
    <3>1. CASE j <= i - 1
      <4>1. j \in 1 .. i - 1 /\ j \in 1 .. i /\ j <= Len(c)
        BY <1>1, <2>2, <3>1
      <4>2. (c \o b)[j] = c[j]
        BY <2>3, <3>0, <4>1
      <4>3. c[j] = Append(a, x)[j] /\ Append(a, x)[j] = a[j] /\ a[j] = s[j]
        BY <1>4, <2>1, <2>2, <4>1
      <4> QED  BY <4>2, <4>3
    <3>2. CASE j = i
      <4>1. j \in 1 .. i /\ j <= Len(c)
        BY <1>1, <2>2, <3>2
      <4>2. (c \o b)[j] = c[j]
        BY <2>3, <3>0, <4>1
      <4>3. c[j] = Append(a, x)[j] /\ Append(a, x)[j] = x
        BY <2>1, <2>2, <3>2, <4>1
      <4> QED  BY <3>2, <4>2, <4>3 DEF x
    <3>3. CASE j = i + 1
      <4>1. j <= Len(c)
        BY <1>1, <2>2, <3>3
      <4>2. (c \o b)[j] = c[j] /\ c[j] = y
        BY <2>2, <2>3, <3>0, <3>3, <4>1
      <4> QED  BY <3>3, <4>2 DEF y
    <3>4. CASE j > i + 1
      <4>1. /\ ~(j <= Len(c)) /\ j - Len(c) = j - (i + 1)
            /\ j - (i + 1) \in 1 .. N - i - 1 /\ i + (j - (i + 1)) + 1 = j
        BY <1>1, <2>2, <3>4
      <4>2. (c \o b)[j] = b[j - (i + 1)]
        BY <2>3, <3>0, <4>1
      <4>3. b[j - (i + 1)] = s[i + (j - (i + 1)) + 1]
        BY <1>5, <4>1
      <4> QED  BY <4>1, <4>2, <4>3
    <3>5. j <= i - 1 \/ j = i \/ j = i + 1 \/ j > i + 1
      BY <1>1
    <3> QED  BY <3>1, <3>2, <3>3, <3>4, <3>5
  <2>6. c \o b = s
    BY <2>3, <2>4, <2>5, SeqEqual DEF N
  <2> QED  BY <2>6, Zenon DEF c
<1>10. RemoveAt(joined, i + 1) = Replaced(s, i, z)
  BY Zenon DEF Replaced, joined
<1>11. Splits(S, s, i, z, a, b)
  BY <1>4, <1>5, <1>8, <1>9, <1>10, Zenon DEF Splits, x, y
<1> HIDE DEF a, b
<1> QED  BY <1>11, Zenon

\* Joining two neighbours does not change what a sequence of pieces spells.
LEMMA FlattenJoin ==
  ASSUME NEW E, NEW s \in Seq(Seq(E)), NEW i \in 1 .. Len(s) - 1
  PROVE  FlattenSeq(RemoveAt([s EXCEPT ![i] = @ \o s[i + 1]], i + 1)) = FlattenSeq(s)
<1> DEFINE x == s[i]
           y == s[i + 1]
           r == Replaced(s, i, x \o y)
<1>1. i \in 1 .. Len(s) /\ i + 1 \in 1 .. Len(s)
  OBVIOUS
<1>2. x \in Seq(E) /\ y \in Seq(E) /\ x \o y \in Seq(E)
  BY <1>1
<1> HIDE DEF x, y, r
<1>3. PICK a, b : Splits(Seq(E), s, i, x \o y, a, b)
  BY <1>2, ReplacedSplits
<1>4. a \in Seq(Seq(E)) /\ b \in Seq(Seq(E))
  BY <1>3, Zenon DEF Splits
<1>5. r = Append(a, x \o y) \o b /\ s = Append(Append(a, x), y) \o b
  BY <1>3, Zenon DEF Splits, r, x, y
<1>10. FlattenSeq(Append(a, x \o y) \o b) = (FlattenSeq(a) \o (x \o y)) \o FlattenSeq(b)
  <2>1. Append(a, x \o y) \in Seq(Seq(E))
    BY <1>2, <1>4, AppendProperties
  <2>2. FlattenSeq(Append(a, x \o y)) = FlattenSeq(a) \o (x \o y)
    BY <1>2, <1>4, FlattenAppend
  <2>3. FlattenSeq(Append(a, x \o y) \o b) = FlattenSeq(Append(a, x \o y)) \o FlattenSeq(b)
    BY <1>4, <2>1, FlattenConcat
  <2> QED  BY <2>2, <2>3, Zenon
<1>11. FlattenSeq(Append(Append(a, x), y) \o b) = ((FlattenSeq(a) \o x) \o y) \o FlattenSeq(b)
  <2>1. Append(a, x) \in Seq(Seq(E)) /\ Append(Append(a, x), y) \in Seq(Seq(E))
    BY <1>2, <1>4, AppendProperties
  <2>2. FlattenSeq(Append(a, x)) = FlattenSeq(a) \o x
    BY <1>2, <1>4, FlattenAppend
  <2>3. FlattenSeq(Append(Append(a, x), y)) = FlattenSeq(Append(a, x)) \o y
    BY <1>2, <2>1, FlattenAppend
  <2>4. FlattenSeq(Append(Append(a, x), y) \o b)
          = FlattenSeq(Append(Append(a, x), y)) \o FlattenSeq(b)
    BY <1>4, <2>1, FlattenConcat
  <2> QED  BY <2>2, <2>3, <2>4, Zenon
<1>12. (FlattenSeq(a) \o x) \o y = FlattenSeq(a) \o (x \o y)
  <2>1. FlattenSeq(a) \in Seq(E)
    BY <1>4, FlattenTyped
  <2> DEFINE f == FlattenSeq(a)
  <2> HIDE DEF f
  <2>2. f \in Seq(E)
    BY <2>1 DEF f
  <2>3. (f \o x) \o y = f \o (x \o y)
    BY <1>2, <2>2, ConcatAssociative, SMTT(60)
  <2> QED  BY <2>3 DEF f
<1>13. FlattenSeq(s) = FlattenSeq(r)
  BY <1>5, <1>10, <1>11, <1>12, Zenon
<1>14. r = RemoveAt([s EXCEPT ![i] = @ \o s[i + 1]], i + 1)
  BY DEF r, x, y, Replaced
<1> QED  BY <1>13, <1>14, Zenon

-----------------------------------------------------------------------------
(* decode. *)

LEMMA FirstIdNames ==
  ASSUME TypeOK, NEW w, Known(w)
  PROVE  vocab[FirstId(w) + 1] = w
<1>1. Ids(w) \subseteq Nat /\ Ids(w) # {}
  BY DEF Known, Ids
<1>2. Min(Ids(w)) \in Ids(w)
  BY <1>1, MinIsLeast
<1>3. Min(Ids(w)) - 1 + 1 = Min(Ids(w))
  BY <1>1, <1>2
<1> QED  BY <1>2, <1>3 DEF FirstId, Ids

LEMMA LastIdNames ==
  ASSUME TypeOK, NEW w, Known(w)
  PROVE  vocab[LastId(w) + 1] = w
<1>1. Ids(w) \subseteq 1 .. Len(vocab) /\ Ids(w) # {} /\ Len(vocab) \in Nat
  BY VocabTyped DEF Known, Ids
<1>2. Max(Ids(w)) \in Ids(w)
  BY <1>1, MaxIsGreatest
<1>3. Max(Ids(w)) - 1 + 1 = Max(Ids(w))
  BY <1>1, <1>2
<1> QED  BY <1>2, <1>3 DEF LastId, Ids

\* The tokens of a sequence of ids.
Tokens(ids) == [k \in 1 .. Len(ids) |-> vocab[ids[k] + 1]]

LEMMA TokensTyped ==
  ASSUME TypeOK, NEW ids \in Seq(0 .. Len(vocab) - 1)
  PROVE  Tokens(ids) \in Seq(Seq(Byte))
<1>1. vocab \in Seq(Seq(Byte)) /\ Len(vocab) \in Nat
  BY VocabTyped, VocabsAssumption DEF TypeOK
<1>2. Len(ids) \in Nat
  OBVIOUS
<1>3. \A k \in 1 .. Len(ids) : ids[k] + 1 \in 1 .. Len(vocab)
  BY <1>1
<1>4. \A k \in 1 .. Len(ids) : vocab[ids[k] + 1] \in Seq(Byte)
  BY <1>1, <1>3
<1> QED  BY <1>2, <1>4 DEF Tokens

LEMMA TokensAt ==
  ASSUME TypeOK, NEW ids \in Seq(0 .. Len(vocab) - 1)
  PROVE  /\ Len(Tokens(ids)) = Len(ids)
         /\ \A k \in 1 .. Len(ids) : Tokens(ids)[k] = vocab[ids[k] + 1]
<1>1. Len(ids) \in Nat
  OBVIOUS
<1> QED  BY <1>1 DEF Tokens

LEMMA DecodeTyped ==
  ASSUME TypeOK, NEW ids \in Seq(0 .. Len(vocab) - 1)
  PROVE  Decode(ids) \in Seq(Byte)
  BY TokensTyped, FlattenTyped DEF Decode, Tokens

LEMMA DecodeEmpty == Decode(<<>>) = <<>>
<1>1. [k \in 1 .. Len(<<>>) |-> vocab[<<>>[k] + 1]] = <<>>
  OBVIOUS
<1> QED  BY <1>1, FlattenEmpty DEF Decode

LEMMA DecodeConcat ==
  ASSUME TypeOK, NEW a \in Seq(0 .. Len(vocab) - 1), NEW b \in Seq(0 .. Len(vocab) - 1)
  PROVE  Decode(a \o b) = Decode(a) \o Decode(b)
<1>1. Tokens(a) \in Seq(Seq(Byte)) /\ Tokens(b) \in Seq(Seq(Byte))
  BY TokensTyped
<1>2. Tokens(a \o b) = Tokens(a) \o Tokens(b)
  <2> DEFINE t == Tokens(a)
             u == Tokens(b)
             ids == a \o b
             w == Tokens(ids)
  <2>1. /\ ids \in Seq(0 .. Len(vocab) - 1) /\ Len(ids) = Len(a) + Len(b)
        /\ \A k \in 1 .. Len(a) + Len(b) :
             ids[k] = IF k <= Len(a) THEN a[k] ELSE b[k - Len(a)]
    BY ConcatProperties
  <2> HIDE DEF ids
  <2>2. /\ Len(t) = Len(a) /\ \A k \in 1 .. Len(a) : t[k] = vocab[a[k] + 1]
        /\ Len(u) = Len(b) /\ \A k \in 1 .. Len(b) : u[k] = vocab[b[k] + 1]
    BY TokensAt
  <2>3. /\ w \in Seq(Seq(Byte)) /\ Len(w) = Len(ids)
        /\ \A k \in 1 .. Len(ids) : w[k] = vocab[ids[k] + 1]
    BY <2>1, TokensTyped, TokensAt
  <2> HIDE DEF t, u, w
  <2>4. /\ t \o u \in Seq(Seq(Byte)) /\ Len(t \o u) = Len(t) + Len(u)
        /\ \A k \in 1 .. Len(t) + Len(u) :
             (t \o u)[k] = IF k <= Len(t) THEN t[k] ELSE u[k - Len(t)]
    BY <1>1, ConcatProperties DEF t, u
  <2>5. Len(w) = Len(t \o u) /\ Len(w) = Len(a) + Len(b) /\ Len(a) \in Nat /\ Len(b) \in Nat
    BY <2>1, <2>2, <2>3, <2>4
  <2>6. ASSUME NEW k \in 1 .. Len(w)
        PROVE  w[k] = (t \o u)[k]
    <3>1. k \in 1 .. Len(ids) /\ k \in 1 .. Len(a) + Len(b) /\ k \in 1 .. Len(t) + Len(u)
      BY <2>1, <2>2, <2>5
    <3>2. w[k] = vocab[ids[k] + 1]
      BY <2>3, <3>1
    <3>3. CASE k <= Len(a)
      <4>1. k \in 1 .. Len(a)
        BY <2>5, <3>1, <3>3
      <4>2. ids[k] = a[k] /\ (t \o u)[k] = t[k] /\ t[k] = vocab[a[k] + 1]
        BY <2>1, <2>2, <2>4, <3>1, <3>3, <4>1
      <4> QED  BY <3>2, <4>2
    <3>4. CASE ~(k <= Len(a))
      <4>1. k - Len(a) \in 1 .. Len(b)
        BY <2>5, <3>1, <3>4
      <4>2. /\ ids[k] = b[k - Len(a)] /\ (t \o u)[k] = u[k - Len(a)]
            /\ u[k - Len(a)] = vocab[b[k - Len(a)] + 1]
        BY <2>1, <2>2, <2>4, <3>1, <3>4, <4>1
      <4> QED  BY <3>2, <4>2
    <3> QED  BY <3>3, <3>4
  <2>7. w = t \o u
    BY <2>3, <2>4, <2>5, <2>6, SeqEqual
  <2> QED  BY <2>7, Zenon DEF w, t, u, ids
<1>3. Decode(a) = FlattenSeq(Tokens(a)) /\ Decode(b) = FlattenSeq(Tokens(b))
      /\ Decode(a \o b) = FlattenSeq(Tokens(a \o b))
  BY DEF Decode, Tokens
<1> DEFINE u == Tokens(a)
           v == Tokens(b)
<1>4. u \in Seq(Seq(Byte)) /\ v \in Seq(Seq(Byte))
  BY <1>1
<1> HIDE DEF u, v
<1>5. FlattenSeq(u \o v) = FlattenSeq(u) \o FlattenSeq(v)
  BY <1>4, FlattenConcat
<1> QED  BY <1>2, <1>3, <1>5, Zenon DEF u, v

LEMMA DecodeOne ==
  ASSUME TypeOK, NEW id \in 0 .. Len(vocab) - 1
  PROVE  Decode(<<id>>) = vocab[id + 1]
<1> DEFINE w == vocab[id + 1]
<1>1. w \in Seq(Byte)
  <2>1. vocab \in Seq(Seq(Byte)) /\ Len(vocab) \in Nat
    BY VocabTyped, VocabsAssumption DEF TypeOK
  <2>2. id + 1 \in 1 .. Len(vocab)
    BY <2>1
  <2> QED  BY <2>1, <2>2
<1>2. Decode(<<id>>) = FlattenSeq(<<w>>)
  BY DEF Decode
<1> HIDE DEF w
<1>3. <<w>> = Append(<<>>, w)
  OBVIOUS
<1>4. FlattenSeq(<<w>>) = <<>> \o w
  BY <1>1, <1>3, FlattenAppend, FlattenEmpty, EmptySeq
<1> QED  BY <1>1, <1>2, <1>4, ConcatEmptySeq DEF w

LEMMA DecodeAppend ==
  ASSUME TypeOK, NEW ids \in Seq(0 .. Len(vocab) - 1), NEW id \in 0 .. Len(vocab) - 1
  PROVE  Decode(Append(ids, id)) = Decode(ids) \o vocab[id + 1]
<1>1. Append(ids, id) = ids \o <<id>> /\ <<id>> \in Seq(0 .. Len(vocab) - 1)
  OBVIOUS
<1> QED  BY <1>1, DecodeConcat, DecodeOne


-----------------------------------------------------------------------------
(* What the ids and the pieces spell, at every point of the loops. *)

Sayable ==
  \A i \in 1 .. Len(text) : Known(<<text[i]>>) /\ (Ranked # {} => text[i] \in Visible)

\* The bytes that the BPE loop spells, and the fallback too.
Good == {b \in Byte : b \in Visible /\ Known(<<b>>)}

PiecesSpell == pieces \in Seq(Seq(Good)) /\ FlattenSeq(pieces) = text

WalkSpells  == phase = "walk"  => Decode(out) = SubSeq(text, 1, pos - 1)
MergeSpells == phase = "merge" => PiecesSpell /\ out = <<>> /\ pos = 1
EmitSpells  == phase = "emit"  => /\ PiecesSpell
                                  /\ pos <= Len(pieces) + 1
                                  /\ Decode(out) = FlattenSeq(SubSeq(pieces, 1, pos - 1))
IdleSpells  == phase = "idle"  => Decode(out) = text

Spells == Sayable => WalkSpells /\ MergeSpells /\ EmitSpells /\ IdleSpells

LEMMA SayableKept ==
  ASSUME UNCHANGED <<vocab, merges, text>>
  PROVE  (Sayable' <=> Sayable) /\ Good' = Good
  BY DEF Sayable, Good, Known, Ids, Ranked

LEMMA DecodeKept ==
  ASSUME UNCHANGED vocab
  PROVE  Decode(out)' = Decode(out')
  BY DEF Decode

LEMMA InitSpells == Init => Spells
<1> SUFFICES ASSUME Init
             PROVE  Spells
  OBVIOUS
<1>1. out = <<>> /\ text = <<>> /\ phase = "idle"
  BY DEF Init
<1> QED  BY <1>1, DecodeEmpty DEF Spells, WalkSpells, MergeSpells, EmitSpells, IdleSpells

LEMMA EncodeSpells ==
  ASSUME NEW t \in Texts, Encode(t)
  PROVE  Spells'
<1>1. t \in Seq(Byte)
  BY TextsAssumption
<1>2. /\ text' = t /\ out' = <<>> /\ pos' = 1 /\ UNCHANGED <<vocab, merges>>
      /\ phase' \in {"merge", "walk"}
      /\ phase' = "merge" => Ranked # {} /\ pieces' = [i \in 1 .. Len(t) |-> BytePiece(t[i])]
  BY DEF Encode
<1>3. WalkSpells'
  <2>1. Decode(out)' = <<>>
    BY <1>2, DecodeKept, DecodeEmpty
  <2>2. SubSeq(text', 1, pos' - 1) = <<>>
    BY <1>1, <1>2, SubSeqEmpty
  <2> QED  BY <2>1, <2>2 DEF WalkSpells
<1>4. ASSUME Sayable', phase' = "merge"
      PROVE  PiecesSpell'
  <2>1. \A i \in 1 .. Len(t) : t[i] \in Byte /\ t[i] \in Visible /\ Known(<<t[i]>>)
    <3>1. Ranked' # {}
      BY <1>2, <1>4, RankedKept
    <3>2. \A i \in 1 .. Len(t) : t[i] \in Visible /\ Known(<<t[i]>>)
      BY <1>2, <1>4, <3>1 DEF Sayable, Known, Ids
    <3> QED  BY <1>1, <3>2
  <2>2. t \in Seq(Good)
    <3>1. \A i \in 1 .. Len(t) : t[i] \in Good
      BY <2>1 DEF Good
    <3>2. Len(t) \in Nat /\ t = [i \in 1 .. Len(t) |-> t[i]]
      BY <1>1
    <3> QED  BY <3>1, <3>2
  <2>3. pieces' = [i \in 1 .. Len(t) |-> <<t[i]>>]
    BY <1>2, <1>4, <2>1 DEF BytePiece
  <2> DEFINE G == Good
  <2> HIDE DEF G
  <2>4. [i \in 1 .. Len(t) |-> <<t[i]>>] \in Seq(Seq(G))
    <3>1. t \in Seq(G) /\ Len(t) \in Nat
      BY <1>1, <2>2 DEF G
    <3>2. \A i \in 1 .. Len(t) : <<t[i]>> \in Seq(G)
      BY <3>1
    <3> QED  BY <3>1, <3>2
  <2>5. Good' = G
    BY <1>2 DEF Good, Known, Ids, G
  <2>6. FlattenSeq([i \in 1 .. Len(t) |-> <<t[i]>>]) = t
    BY <1>1, FlattenSingletons
  <2> QED  BY <1>2, <2>3, <2>4, <2>5, <2>6 DEF PiecesSpell
<1>5. Sayable' => MergeSpells'
  BY <1>2, <1>4 DEF MergeSpells
<1>6. EmitSpells' /\ IdleSpells'
  BY <1>2 DEF EmitSpells, IdleSpells
<1> QED  BY <1>3, <1>5, <1>6 DEF Spells

LEMMA MergeBestSpells ==
  ASSUME TypeOK, Spells, MergeBest
  PROVE  Spells'
<1>1. /\ phase = "merge" /\ UNCHANGED <<vocab, merges, text, phase, pos, out>>
      /\ pieces' = RemoveAt([pieces EXCEPT ![BestPair] = @ \o pieces[BestPair + 1]], BestPair + 1)
  BY DEF MergeBest
<1>2. BestPair \in 1 .. Len(pieces) - 1
  BY BestPairIsPair DEF MergeBest
<1>3. (Sayable' <=> Sayable) /\ Good' = Good
  BY <1>1, SayableKept
<1>4. ASSUME PiecesSpell
      PROVE  PiecesSpell'
  <2> DEFINE G == Good
             i == BestPair
             joined == [pieces EXCEPT ![i] = @ \o pieces[i + 1]]
  <2>1. pieces \in Seq(Seq(G)) /\ i \in 1 .. Len(pieces) - 1
    BY <1>2, <1>4 DEF PiecesSpell
  <2> HIDE DEF G, i
  <2>2. FlattenSeq(RemoveAt(joined, i + 1)) = FlattenSeq(pieces)
    BY <2>1, FlattenJoin
  <2>3. joined \in Seq(Seq(G)) /\ Len(joined) = Len(pieces)
    BY <2>1, ExceptTyped
  <2>4. RemoveAt(joined, i + 1) \in Seq(Seq(G))
    <3>1. i + 1 \in 1 .. Len(joined)
      BY <2>1, <2>3
    <3> QED  BY <2>3, <3>1, RemoveTyped
  <2>5. pieces' = RemoveAt(joined, i + 1)
    BY <1>1 DEF i
  <2> HIDE DEF joined
  <2> QED  BY <1>1, <1>3, <1>4, <2>2, <2>4, <2>5 DEF PiecesSpell, G
<1> QED
  BY <1>1, <1>3, <1>4 DEF Spells, WalkSpells, MergeSpells, EmitSpells, IdleSpells

LEMMA MergesDoneSpells ==
  ASSUME TypeOK, Spells, MergesDone
  PROVE  Spells'
<1>1. /\ phase = "merge" /\ phase' = "emit"
      /\ UNCHANGED <<vocab, merges, text, pieces, pos, out>>
  BY DEF MergesDone
<1>2. (Sayable' <=> Sayable) /\ Good' = Good
  BY <1>1, SayableKept
<1>3. Decode(out)' = Decode(out)
  BY <1>1, DecodeKept
<1>4. ASSUME PiecesSpell, out = <<>>, pos = 1
      PROVE  EmitSpells'
  <2>1. Len(pieces) \in Nat
    BY <1>4 DEF TypeOK
  <2>2. SubSeq(pieces, 1, 0) = <<>>
    BY SubSeqEmpty
  <2>3. Decode(out)' = FlattenSeq(SubSeq(pieces, 1, 0))
    BY <1>3, <1>4, <2>2, DecodeEmpty, FlattenEmpty
  <2>4. PiecesSpell'
    BY <1>1, <1>2, <1>4 DEF PiecesSpell
  <2>5. pos' = 1 /\ pos' - 1 = 0
    BY <1>1, <1>4
  <2> QED  BY <1>1, <2>1, <2>3, <2>4, <2>5 DEF EmitSpells
<1> QED
  BY <1>1, <1>2, <1>4 DEF Spells, WalkSpells, MergeSpells, IdleSpells

\* The ids of a piece spell it, whether it is a token or falls apart.
LEMMA PieceSpelt ==
  ASSUME TypeOK, NEW w \in Seq(Good), ~Known(w)
  PROVE  Decode([i \in 1 .. Len(w) |-> ByteId(w[i])]) = w
<1> DEFINE ids == [i \in 1 .. Len(w) |-> ByteId(w[i])]
<1>1. Len(w) \in Nat /\ \A i \in 1 .. Len(w) : w[i] \in Good
  OBVIOUS
<1>2. ASSUME NEW i \in 1 .. Len(w)
      PROVE  vocab[ids[i] + 1] = <<w[i]>>
  <2>1. w[i] \in Visible /\ Known(<<w[i]>>)
    BY <1>1 DEF Good
  <2>2. ids[i] = FirstId(<<w[i]>>)
    BY <2>1 DEF ByteId, BytePiece
  <2> HIDE DEF ids
  <2> QED  BY <2>1, <2>2, FirstIdNames
<1>3. Len(ids) = Len(w)
  BY <1>1
<1> HIDE DEF ids
<1>4. [i \in 1 .. Len(ids) |-> vocab[ids[i] + 1]] = [i \in 1 .. Len(w) |-> <<w[i]>>]
  BY <1>2, <1>3
<1>5. FlattenSeq([i \in 1 .. Len(w) |-> <<w[i]>>]) = w
  BY FlattenSingletons
<1> QED  BY <1>4, <1>5 DEF Decode, ids

LEMMA EmitPieceSpells ==
  ASSUME TypeOK, Spells, EmitPiece
  PROVE  Spells'
<1> DEFINE w == pieces[pos]
           new == IF Known(w) THEN <<FirstId(w)>> ELSE [i \in 1 .. Len(w) |-> ByteId(w[i])]
<1>1. /\ phase = "emit" /\ phase' = "emit" /\ pos <= Len(pieces)
      /\ pos' = pos + 1 /\ out' = out \o new
      /\ UNCHANGED <<vocab, merges, text, pieces>>
  BY DEF EmitPiece
<1>2. (Sayable' <=> Sayable) /\ Good' = Good
  BY <1>1, SayableKept
<1>3. ASSUME Sayable
      PROVE  EmitSpells'
  <2>1. PiecesSpell /\ Decode(out) = FlattenSeq(SubSeq(pieces, 1, pos - 1))
    BY <1>1, <1>3 DEF Spells, EmitSpells
  <2>2. /\ pos \in 1 .. Len(pieces) /\ pos - 1 \in Nat /\ Len(pieces) \in Nat
        /\ pieces \in Seq(Seq(Byte)) /\ w \in Seq(Byte)
    BY <1>1 DEF TypeOK
  <2>3. w \in Seq(Good)
    <3> DEFINE G == Good
    <3>1. pieces \in Seq(Seq(G))
      BY <2>1 DEF PiecesSpell
    <3> HIDE DEF G
    <3>2. pieces[pos] \in Seq(G)
      BY <2>2, <3>1
    <3> QED  BY <3>2 DEF G
  <2> HIDE DEF w
  <2>4. new \in Seq(0 .. Len(vocab) - 1) /\ Decode(new) = w
    <3>1. CASE Known(w)
      <4>1. FirstId(w) \in 0 .. Len(vocab) - 1
        BY <3>1, FirstIdTyped
      <4>2. Decode(<<FirstId(w)>>) = w
        BY <3>1, <4>1, DecodeOne, FirstIdNames
      <4> QED  BY <3>1, <4>1, <4>2
    <3>2. CASE ~Known(w)
      <4>1. \A i \in 1 .. Len(w) : ByteId(w[i]) \in 0 .. Len(vocab) - 1
        BY ByteIdTyped
      <4>2. Len(w) \in Nat
        BY <2>2
      <4>3. [i \in 1 .. Len(w) |-> ByteId(w[i])] \in Seq(0 .. Len(vocab) - 1)
        BY <4>1, <4>2
      <4>4. Decode([i \in 1 .. Len(w) |-> ByteId(w[i])]) = w
        BY <2>3, <3>2, PieceSpelt
      <4> QED  BY <3>2, <4>3, <4>4
    <3> QED  BY <3>1, <3>2
  <2> HIDE DEF new
  <2>5. Decode(out)' = Decode(out) \o w
    <3>1. out \in Seq(0 .. Len(vocab) - 1)
      BY DEF TypeOK
    <3>2. Decode(out \o new) = Decode(out) \o Decode(new)
      BY <2>4, <3>1, DecodeConcat
    <3> QED  BY <1>1, <2>4, <3>2, DecodeKept
  <2>6. SubSeq(pieces, 1, pos) = Append(SubSeq(pieces, 1, pos - 1), w)
    <3> DEFINE n == pos - 1
    <3>1. n \in Nat /\ 1 + n <= Len(pieces) /\ 1 + n - 1 = n /\ 1 + n = pos
      BY <2>2
    <3> HIDE DEF n
    <3>2. Append(SubSeq(pieces, 1, 1 + n - 1), pieces[1 + n]) = SubSeq(pieces, 1, 1 + n)
      BY <2>2, <3>1, PrefixGrows
    <3> QED  BY <3>1, <3>2 DEF n, w
  <2>7. FlattenSeq(SubSeq(pieces, 1, pos)) = FlattenSeq(SubSeq(pieces, 1, pos - 1)) \o w
    <3>1. SubSeq(pieces, 1, pos - 1) \in Seq(Seq(Byte))
      <4>1. \A i \in 1 .. pos - 1 : pieces[i] \in Seq(Byte)
        BY <2>2
      <4> QED  BY <2>2, <4>1, SubSeqProperties
    <3> QED  BY <2>2, <2>6, <3>1, FlattenAppend
  <2>8. PiecesSpell'
    BY <1>1, <1>2, <2>1 DEF PiecesSpell
  <2>9. pos' - 1 = pos /\ pos' <= Len(pieces) + 1
    BY <1>1, <2>2
  <2> QED  BY <1>1, <2>1, <2>5, <2>7, <2>8, <2>9 DEF EmitSpells
<1> QED
  BY <1>1, <1>2, <1>3 DEF Spells, WalkSpells, MergeSpells, IdleSpells

LEMMA EmitDoneSpells ==
  ASSUME TypeOK, Spells, EmitDone
  PROVE  Spells'
<1>1. /\ phase = "emit" /\ phase' = "idle" /\ pos > Len(pieces)
      /\ UNCHANGED <<vocab, merges, text, pieces, pos, out>>
  BY DEF EmitDone, Done
<1>2. Sayable' <=> Sayable
  BY <1>1, SayableKept
<1>3. Decode(out)' = Decode(out)
  BY <1>1, DecodeKept
<1>4. ASSUME Sayable
      PROVE  Decode(out) = text
  <2>1. /\ PiecesSpell /\ pos <= Len(pieces) + 1
        /\ Decode(out) = FlattenSeq(SubSeq(pieces, 1, pos - 1))
    BY <1>1, <1>4 DEF Spells, EmitSpells
  <2>2. pieces \in Seq(Seq(Byte)) /\ pos - 1 = Len(pieces)
    <3>1. pieces \in Seq(Seq(Byte)) /\ pos \in Nat
      BY DEF TypeOK
    <3>2. Len(pieces) \in Nat
      BY <3>1
    <3> QED  BY <1>1, <2>1, <3>1, <3>2
  <2>3. SubSeq(pieces, 1, Len(pieces)) = pieces
    BY <2>2, SubSeqFull
  <2> QED  BY <2>1, <2>2, <2>3 DEF PiecesSpell
<1> QED
  BY <1>1, <1>2, <1>3, <1>4 DEF Spells, WalkSpells, MergeSpells, EmitSpells, IdleSpells

LEMMA WalkKeepsSpells ==
  ASSUME Spells, Walk
  PROVE  Spells'
<1>1. /\ phase = "walk" /\ UNCHANGED <<vocab, merges, text, phase, pieces, pos, out>>
  BY DEF Walk
<1>2. Sayable' <=> Sayable
  BY <1>1, SayableKept
<1>3. Decode(out)' = Decode(out)
  BY <1>1, DecodeKept
<1> QED
  BY <1>1, <1>2, <1>3 DEF Spells, WalkSpells, MergeSpells, EmitSpells, IdleSpells

LEMMA WalkEndsSpells ==
  ASSUME TypeOK, WalkSound, Greedy, Spells, WalkEnds
  PROVE  Spells'
<1> DEFINE token == SubSeq(text, pos, pos + best - 1)
<1>1. /\ phase = "walk" /\ phase' = "walk" /\ pos <= Len(text) /\ ~CanWalk
      /\ UNCHANGED <<vocab, merges, text, pieces>>
  BY DEF WalkEnds
<1>2. (Sayable' <=> Sayable) /\ Good' = Good
  BY <1>1, SayableKept
<1>3. /\ text \in Seq(Byte) /\ Len(text) \in Nat /\ pos \in Nat \ {0} /\ best \in Nat
      /\ pos + best <= Len(text) + 1
  BY <1>1, TextTyped DEF TypeOK, WalkSound
<1>4. ASSUME Sayable
      PROVE  Decode(out)' = SubSeq(text, 1, pos' - 1)
  <2>1. Decode(out) = SubSeq(text, 1, pos - 1)
    BY <1>1, <1>4 DEF Spells, WalkSpells
  <2>2. best > 0
    <3>1. Known(SubSeq(text, pos, pos + 1 - 1))
      <4>1. pos \in 1 .. Len(text) /\ pos + 1 - 1 = pos
        BY <1>1, <1>3
      <4>2. SubSeq(text, pos, pos) = <<text[pos]>>
        BY <1>3, <4>1, OnePart
      <4>3. Known(<<text[pos]>>)
        BY <1>4, <4>1 DEF Sayable
      <4> QED  BY <4>1, <4>2, <4>3
    <3>2. 1 \in 1 .. Len(text) + 1 - pos
      BY <1>1, <1>3
    <3>3. 1 \in Fits(pos)
      BY <3>1, <3>2 DEF Fits
    <3>4. best = 0 => Fits(pos) = {}
      BY <1>1, WalkFindsLongest DEF Greedy
    <3> QED  BY <1>3, <3>3, <3>4
  <2>3. out' = Append(out, LastId(token)) /\ pos' = pos + best
    BY <2>2 DEF WalkEnds
  <2>4. Known(token)
    BY <1>1, <2>2 DEF WalkSound
  <2> HIDE DEF token
  <2>5. Decode(out)' = Decode(out) \o token
    <3>1. LastId(token) \in 0 .. Len(vocab) - 1 /\ vocab[LastId(token) + 1] = token
      BY <2>4, LastIdTyped, LastIdNames
    <3>2. out \in Seq(0 .. Len(vocab) - 1)
      BY DEF TypeOK
    <3>3. Decode(Append(out, LastId(token))) = Decode(out) \o token
      BY <3>1, <3>2, DecodeAppend
    <3> QED  BY <1>1, <2>3, <3>3, DecodeKept
  <2>6. SubSeq(text, 1, pos - 1) \o SubSeq(text, pos - 1 + 1, pos + best - 1)
          = SubSeq(text, 1, pos + best - 1)
    <3> DEFINE k == pos - 1
               n == pos + best - 1
    <3>1. k \in 1 - 1 .. Len(text) /\ n \in k .. Len(text) /\ 1 \in 1 .. Len(text) + 1
      BY <1>1, <1>3
    <3> HIDE DEF k, n
    <3>2. SubSeq(text, 1, k) \o SubSeq(text, k + 1, n) = SubSeq(text, 1, n)
      BY <1>3, <3>1, ConcatAdjacentSubSeq
    <3> QED  BY <3>2 DEF k, n
  <2>7. pos - 1 + 1 = pos
    BY <1>3
  <2>8. SubSeq(text, 1, pos - 1) \o token = SubSeq(text, 1, pos + best - 1)
    BY <2>6, <2>7, Zenon DEF token
  <2>9. pos' - 1 = pos + best - 1
    BY <1>3, <2>3
  <2> QED  BY <2>1, <2>5, <2>8, <2>9, Zenon
<1> QED
  BY <1>1, <1>2, <1>4 DEF Spells, WalkSpells, MergeSpells, EmitSpells, IdleSpells

LEMMA TrieDoneSpells ==
  ASSUME TypeOK, WalkSound, Spells, TrieDone
  PROVE  Spells'
<1>1. /\ phase = "walk" /\ phase' = "idle" /\ pos > Len(text)
      /\ UNCHANGED <<vocab, merges, text, pieces, pos, out>>
  BY DEF TrieDone, Done
<1>2. Sayable' <=> Sayable
  BY <1>1, SayableKept
<1>3. Decode(out)' = Decode(out)
  BY <1>1, DecodeKept
<1>4. SubSeq(text, 1, pos - 1) = text
  <2>1. text \in Seq(Byte) /\ Len(text) \in Nat /\ pos \in Nat /\ Len(node) \in Nat
    BY TextTyped DEF TypeOK
  <2>2. pos - 1 = Len(text)
    BY <1>1, <2>1 DEF WalkSound
  <2> QED  BY <2>1, <2>2, SubSeqFull
<1> QED
  BY <1>1, <1>2, <1>3, <1>4 DEF Spells, WalkSpells, MergeSpells, EmitSpells, IdleSpells


\* A text whose bytes all have tokens (visible ones, when there are merges) comes
\* back from decode, whatever the rest of the vocabulary, the merges and their
\* order: neither loop of encode (src/tokenizer.cpp) drops, doubles or changes a
\* byte.
THEOREM TextComesBack == Spec => []RoundTrip
<1>1. Init => Greedy /\ Spells
  BY InitGreedy, InitSpells
<1>2. IInv /\ Greedy /\ Spells /\ [Next]_vars => Spells'
  <2> SUFFICES ASSUME IInv, Greedy, Spells, [Next]_vars
               PROVE  Spells'
    OBVIOUS
  <2> USE DEF IInv
  <2>1. ASSUME NEW t \in Texts, Encode(t)
        PROVE  Spells'
    BY <2>1, EncodeSpells
  <2>2. CASE MergeBest
    BY <2>2, MergeBestSpells
  <2>3. CASE MergesDone
    BY <2>3, MergesDoneSpells
  <2>4. CASE EmitPiece
    BY <2>4, EmitPieceSpells
  <2>5. CASE EmitDone
    BY <2>5, EmitDoneSpells
  <2>6. CASE Walk
    BY <2>6, WalkKeepsSpells
  <2>7. CASE WalkEnds
    BY <2>7, WalkEndsSpells
  <2>8. CASE TrieDone
    BY <2>8, TrieDoneSpells
  <2>9. CASE UNCHANGED vars
    <3>1. UNCHANGED <<vocab, merges, text, phase, pieces, pos, out>>
      BY <2>9 DEF vars
    <3>2. (Sayable' <=> Sayable) /\ Good' = Good /\ Decode(out)' = Decode(out)
      BY <3>1, SayableKept, DecodeKept
    <3> QED
      BY <3>1, <3>2
      DEF Spells, WalkSpells, MergeSpells, EmitSpells, IdleSpells, PiecesSpell
  <2> QED
    BY <2>1, <2>2, <2>3, <2>4, <2>5, <2>6, <2>7, <2>8, <2>9 DEF Next, Work
<1>3. Spells => RoundTrip
  BY DEF Spells, IdleSpells, Sayable, RoundTrip
<1> QED  BY <1>1, <1>2, <1>3, Invariance, GreedyHolds, PTL DEF Spec


-----------------------------------------------------------------------------
(* One merge applied wherever it fits: by induction from the end. *)

\* Two pieces joined, or one left alone, before what g gives of the rest.
Joint(s, g, i)  == <<s[i] \o s[i + 1]>> \o g[i + 2]
Passed(s, g, i) == <<s[i]>> \o g[i + 1]

\* What Apply makes of the pieces from position i on, when g gives the rest.
ApplyFrom(m, s, g, i) ==
  IF i > Len(s) THEN <<>>
  ELSE IF i < Len(s) /\ <<s[i], s[i + 1]>> = m THEN Joint(s, g, i)
  ELSE Passed(s, g, i)

IsApply(m, s, g) == g = [i \in 1 .. Len(s) + 1 |-> ApplyFrom(m, s, g, i)]

\* m fits nowhere in s.
Skips(m, s) == \A i \in 1 .. Len(s) - 1 : <<s[i], s[i + 1]>> # m

LEMMA ApplyAt ==
  ASSUME NEW m, NEW s, NEW g, IsApply(m, s, g), NEW i \in 1 .. Len(s) + 1
  PROVE  g[i] = ApplyFrom(m, s, g, i)
<1> DEFINE e(j) == ApplyFrom(m, s, g, j)
<1>1. g = [j \in 1 .. Len(s) + 1 |-> e(j)]
  BY DEF IsApply
<1> HIDE DEF e
<1>2. g[i] = e(i)
  BY <1>1
<1> QED  BY <1>2 DEF e

LEMMA ApplyExists ==
  ASSUME NEW E, NEW s \in Seq(E), NEW m
  PROVE  \E g : IsApply(m, s, g)
<1> DEFINE N == Len(s)
           Solves(g, k) == /\ g = [i \in 1 .. N + 1 |-> g[i]]
                           /\ \A i \in 1 .. N + 1 :
                                i > N + 1 - k => g[i] = ApplyFrom(m, s, g, i)
           S == {k \in Nat : \E g : Solves(g, k)}
<1>1. N \in Nat
  OBVIOUS
<1> HIDE DEF N
<1>2. 0 \in S
  <2> DEFINE g == [i \in 1 .. N + 1 |-> <<>>]
  <2>1. Solves(g, 0)
    BY <1>1
  <2> QED  BY <2>1
<1>3. ASSUME NEW k \in Nat, k \in S
      PROVE  k + 1 \in S
  <2>1. PICK g : Solves(g, k)
    BY <1>3
  <2> DEFINE q == N + 1 - k
             h == [i \in 1 .. N + 1 |-> IF i = q THEN ApplyFrom(m, s, g, q) ELSE g[i]]
  <2>2. ASSUME NEW i \in 1 .. N + 1, i > N + 1 - (k + 1)
        PROVE  h[i] = ApplyFrom(m, s, h, i)
    <3>1. i >= q
      BY <1>1, <2>2
    <3>2. h[i] = ApplyFrom(m, s, g, i)
      <4>1. CASE i = q
        BY <4>1
      <4>2. CASE i # q
        <5>1. i > N + 1 - k /\ h[i] = g[i]
          BY <1>1, <3>1, <4>2
        <5> QED  BY <2>1, <5>1
      <4> QED  BY <4>1, <4>2
    <3>3. i + 1 <= N + 1 => h[i + 1] = g[i + 1]
      BY <1>1, <3>1
    <3>4. i + 2 <= N + 1 => h[i + 2] = g[i + 2]
      BY <1>1, <3>1
    <3> HIDE DEF h, q
    <3> QED  BY <1>1, <3>2, <3>3, <3>4 DEF ApplyFrom, Joint, Passed, N
  <2>3. Solves(h, k + 1)
    BY <2>2
  <2> HIDE DEF h, Solves
  <2> QED  BY <2>3
<1> HIDE DEF S
<1>4. N + 1 \in S
  BY <1>1, <1>2, <1>3, SetInduction
<1>5. PICK g : Solves(g, N + 1)
  BY <1>4 DEF S
<1>6. \A i \in 1 .. N + 1 : g[i] = ApplyFrom(m, s, g, i)
  BY <1>1, <1>5
<1> QED  BY <1>5, <1>6 DEF IsApply, N

LEMMA ApplyDef ==
  ASSUME NEW E, NEW s \in Seq(E), NEW m
  PROVE  \E g : IsApply(m, s, g) /\ Apply(m, s) = g[1]
<1> DEFINE f == CHOOSE g : g = [i \in 1 .. Len(s) + 1 |-> ApplyFrom(m, s, g, i)]
<1>1. f = [i \in 1 .. Len(s) + 1 |-> ApplyFrom(m, s, f, i)]
  BY ApplyExists DEF IsApply
<1>2. Apply(m, s) = f[1]
  BY DEF Apply, ApplyFrom, Joint, Passed
<1> HIDE DEF f
<1> QED  BY <1>1, <1>2 DEF IsApply

\* A merge that fits nowhere changes nothing.
LEMMA ApplySkips ==
  ASSUME NEW E, NEW s \in Seq(E), NEW m, Skips(m, s)
  PROVE  Apply(m, s) = s
<1> DEFINE N == Len(s)
<1>1. PICK g : IsApply(m, s, g) /\ Apply(m, s) = g[1]
  BY ApplyDef
<1>2. N \in Nat
  OBVIOUS
<1> DEFINE S == {k \in Nat : \A i \in 1 .. N + 1 : i >= N + 1 - k => g[i] = SubSeq(s, i, N)}
<1>3. 0 \in S
  <2> SUFFICES ASSUME NEW i \in 1 .. N + 1, i = N + 1
               PROVE  g[i] = SubSeq(s, i, N)
    BY <1>2
  <2>1. g[i] = <<>>
    <3>1. g[i] = ApplyFrom(m, s, g, i)
      BY <1>1, ApplyAt
    <3>2. i > Len(s)
      BY <1>2
    <3> QED  BY <3>1, <3>2 DEF ApplyFrom
  <2>2. SubSeq(s, i, N) = <<>>
    BY <1>2, SubSeqEmpty
  <2> QED  BY <2>1, <2>2
<1>4. ASSUME NEW k \in Nat, k \in S
      PROVE  k + 1 \in S
  <2>1. ASSUME NEW i \in 1 .. N + 1, i = N + 1 - (k + 1)
        PROVE  g[i] = SubSeq(s, i, N)
    <3>1. i \in 1 .. N /\ i + 1 \in 1 .. N + 1 /\ i + 1 >= N + 1 - k
      BY <1>2, <2>1
    <3>2. g[i + 1] = SubSeq(s, i + 1, N)
      BY <1>4, <3>1
    <3>3. g[i] = ApplyFrom(m, s, g, i)
      BY <1>1, ApplyAt
    <3>4. ~(i < N /\ <<s[i], s[i + 1]>> = m)
      BY <1>2, <3>1 DEF Skips
    <3>5. g[i] = <<s[i]>> \o g[i + 1]
      <4>1. ~(i > Len(s))
        BY <1>2, <3>1
      <4>2. g[i] = Passed(s, g, i)
        BY <3>3, <3>4, <4>1 DEF ApplyFrom
      <4> QED  BY <4>2, Zenon DEF Passed
    <3>6. SubSeq(s, i, N) = <<s[i]>> \o SubSeq(s, i + 1, N)
      BY <1>2, <3>1, SubSeqRecursiveFirst
    <3> QED  BY <3>2, <3>5, <3>6
  <2>2. ASSUME NEW i \in 1 .. N + 1, i >= N + 1 - (k + 1)
        PROVE  g[i] = SubSeq(s, i, N)
    <3>1. i = N + 1 - (k + 1) \/ i >= N + 1 - k
      BY <1>2, <2>2
    <3> QED  BY <1>4, <2>1, <3>1
  <2> QED  BY <2>2
<1> HIDE DEF S
<1>5. N \in S
  BY <1>2, <1>3, <1>4, SetInduction
<1>6. g[1] = SubSeq(s, 1, N)
  BY <1>2, <1>5 DEF S
<1>7. SubSeq(s, 1, N) = s
  BY SubSeqFull
<1> QED  BY <1>1, <1>6, <1>7

\* What joining two neighbours makes of a sequence of pieces.
Joined(s, i) == RemoveAt([s EXCEPT ![i] = @ \o s[i + 1]], i + 1)

Shortens(s, t, i, z) ==
  /\ Len(t) = Len(s) - 1
  /\ \A j \in 1 .. i - 1 : t[j] = s[j]
  /\ t[i] = z
  /\ \A j \in i + 1 .. Len(s) - 1 : t[j] = s[j + 1]

Shrinks(s, t, i) == Shortens(s, t, i, s[i] \o s[i + 1])

LEMMA ReplacedAt ==
  ASSUME NEW S, NEW s \in Seq(S), NEW i \in 1 .. Len(s) - 1, NEW z \in S
  PROVE  Replaced(s, i, z) \in Seq(S) /\ Shortens(s, Replaced(s, i, z), i, z)
<1> DEFINE N == Len(s)
           t == Replaced(s, i, z)
           joined == [s EXCEPT ![i] = z]
           a == SubSeq(joined, 1, i)
           b == SubSeq(joined, i + 2, N)
<1>1. N \in Nat /\ i \in 1 .. N /\ i \in Nat /\ i + 1 <= N
  OBVIOUS
<1>3. /\ joined \in Seq(S) /\ Len(joined) = N
      /\ \A j \in 1 .. N : joined[j] = IF j = i THEN z ELSE s[j]
  BY <1>1, ExceptSeq
<1> HIDE DEF joined, N
<1>4. /\ a \in Seq(S) /\ Len(a) = i
      /\ \A j \in 1 .. i : a[j] = joined[j]
  BY <1>1, <1>3, FirstPart
<1>5. /\ b \in Seq(S) /\ Len(b) = N - i - 1
      /\ \A j \in 1 .. N - i - 1 : b[j] = joined[i + j + 1]
  <2>1. i + 2 \in 1 .. N + 1
    BY <1>1
  <2>2. /\ b \in Seq(S) /\ Len(b) = N - (i + 2) + 1
        /\ \A j \in 1 .. N - (i + 2) + 1 : b[j] = joined[i + 2 + j - 1]
    BY <1>3, <2>1, LastPart
  <2> HIDE DEF b
  <2>3. Len(b) = N - i - 1 /\ N - (i + 2) + 1 = N - i - 1
    BY <1>1, <2>2
  <2>4. ASSUME NEW j \in 1 .. N - i - 1
        PROVE  b[j] = joined[i + j + 1]
    <3>1. i + 2 + j - 1 = i + j + 1
      BY <1>1
    <3>2. b[j] = joined[i + 2 + j - 1]
      BY <2>2, <2>3, <2>4
    <3> QED  BY <3>1, <3>2
  <2> QED  BY <2>2, <2>3, <2>4
<1>6. t = a \o b
  <2> DEFINE k == i + 1
  <2>1. k - 1 = i /\ k + 1 = i + 2
    BY <1>1
  <2> HIDE DEF k
  <2>2. RemoveAt(joined, k) = SubSeq(joined, 1, k - 1) \o SubSeq(joined, k + 1, Len(joined))
    BY DEF RemoveAt
  <2>3. RemoveAt(joined, k) = a \o b
    BY <1>3, <2>1, <2>2, Zenon
  <2>4. Replaced(s, i, z) = RemoveAt(joined, k)
    BY Zenon DEF k, joined, Replaced
  <2> QED  BY <2>3, <2>4, Zenon
<1> HIDE DEF a, b, t
<1>7. /\ t \in Seq(S) /\ Len(t) = Len(a) + Len(b)
      /\ \A j \in 1 .. Len(a) + Len(b) : t[j] = IF j <= Len(a) THEN a[j] ELSE b[j - Len(a)]
  <2>1. /\ a \o b \in Seq(S) /\ Len(a \o b) = Len(a) + Len(b)
        /\ \A j \in 1 .. Len(a) + Len(b) :
             (a \o b)[j] = IF j <= Len(a) THEN a[j] ELSE b[j - Len(a)]
    BY <1>4, <1>5, ConcatProperties
  <2> QED  BY <1>6, <2>1, Zenon
<1>8. Len(t) = N - 1 /\ Len(a) + Len(b) = N - 1
  <2>1. Len(t) = Len(a) + Len(b) /\ Len(a) = i /\ Len(b) = N - i - 1
    BY <1>4, <1>5, <1>7
  <2> QED  BY <1>1, <2>1
<1>9. ASSUME NEW j \in 1 .. i
      PROVE  t[j] = joined[j]
  <2>1. j \in 1 .. Len(a) + Len(b) /\ j <= Len(a)
    BY <1>1, <1>4, <1>8
  <2>2. t[j] = a[j]
    BY <1>7, <2>1
  <2>3. a[j] = joined[j]
    BY <1>4
  <2> QED  BY <2>2, <2>3
<1>10. ASSUME NEW j \in i + 1 .. N - 1
       PROVE  t[j] = s[j + 1]
  <2>1. /\ j - i \in 1 .. N - i - 1 /\ i + (j - i) + 1 = j + 1 /\ j + 1 \in 1 .. N
        /\ j \in 1 .. N - 1 /\ ~(j <= i)
    BY <1>1
  <2>2. t[j] = b[j - i]
    <3>1. Len(a) = i
      BY <1>4
    <3> QED  BY <1>7, <1>8, <2>1, <3>1
  <2>3. b[j - i] = joined[j + 1]
    BY <1>5, <2>1
  <2>4. j + 1 # i
    BY <1>1
  <2> QED  BY <1>3, <2>1, <2>2, <2>3, <2>4
<1>11. ASSUME NEW j \in 1 .. i - 1
       PROVE  t[j] = s[j]
  <2>1. j \in 1 .. i /\ j \in 1 .. N /\ j # i
    BY <1>1
  <2> QED  BY <1>3, <1>9, <2>1
<1>12. t[i] = z
  <2>1. i \in 1 .. i
    BY <1>1
  <2> QED  BY <1>1, <1>3, <1>9, <2>1
<1>13. Shortens(s, t, i, z)
  BY <1>8, <1>10, <1>11, <1>12, Zenon DEF N, Shortens
<1> QED  BY <1>7, <1>13, Zenon DEF t

LEMMA JoinedAt ==
  ASSUME NEW E, NEW s \in Seq(Seq(E)), NEW i \in 1 .. Len(s) - 1
  PROVE  Joined(s, i) \in Seq(Seq(E)) /\ Shrinks(s, Joined(s, i), i)
<1>1. s[i] \o s[i + 1] \in Seq(E)
  <2>1. s[i] \in Seq(E) /\ s[i + 1] \in Seq(E)
    OBVIOUS
  <2> QED  BY <2>1
<1>2. Joined(s, i) = Replaced(s, i, s[i] \o s[i + 1])
  BY DEF Joined, Replaced
<1> QED  BY <1>1, <1>2, ReplacedAt DEF Shrinks

\* m is the pair at i, fits nowhere before, and does not fit what it makes.
FitsFirst(m, s, i) ==
  /\ m = <<s[i], s[i + 1]>>
  /\ \A j \in 1 .. i - 1 : <<s[j], s[j + 1]>> # m
  /\ s[i] \o s[i + 1] \notin {s[i], s[i + 1]}

\* Joining the leftmost pair that a merge fits is the first thing that applying
\* the merge does, when it does not fit what it makes.
LEMMA ApplyJoins ==
  ASSUME NEW s, NEW t, NEW m, NEW g, NEW h, Len(s) \in Nat, NEW i \in 1 .. Len(s) - 1,
         Shrinks(s, t, i), FitsFirst(m, s, i), IsApply(m, s, g), IsApply(m, t, h)
  PROVE  h[1] = g[1]
<1> DEFINE N == Len(s)
           c == s[i] \o s[i + 1]
<1>0. Len(s) = N /\ Len(t) = N - 1
  BY DEF Shrinks, Shortens
<1>1. N \in Nat /\ i \in 1 .. N /\ i \in Nat /\ i + 1 <= N
  OBVIOUS
<1>2. /\ \A j \in 1 .. i - 1 : t[j] = s[j]
      /\ t[i] = c
      /\ \A j \in i + 1 .. N - 1 : t[j] = s[j + 1]
  BY Zenon DEF Shrinks, Shortens, c
<1>3. /\ m = <<s[i], s[i + 1]>>
      /\ \A j \in 1 .. i - 1 : <<s[j], s[j + 1]>> # m
      /\ c # s[i] /\ c # s[i + 1]
  BY Zenon DEF FitsFirst
<1>5. \A j \in 1 .. N + 1 : g[j] = ApplyFrom(m, s, g, j)
  BY ApplyAt
<1> HIDE DEF N, c
<1>6. \A j \in 1 .. N : h[j] = ApplyFrom(m, t, h, j)
  <2>1. \A j \in 1 .. Len(t) + 1 : h[j] = ApplyFrom(m, t, h, j)
    BY ApplyAt
  <2>2. Len(t) + 1 = N
    BY <1>0, <1>1
  <2> QED  BY <2>1, <2>2
<1>7. h[i + 1] = g[i + 2]
  <2> DEFINE S == {k \in Nat : \A j \in i + 1 .. N : j >= N - k => h[j] = g[j + 1]}
  <2>1. 0 \in S
    <3> SUFFICES ASSUME NEW j \in i + 1 .. N, j = N
                 PROVE  h[j] = g[j + 1]
      BY <1>1
    <3>1. j > Len(t) /\ j \in 1 .. N /\ j + 1 \in 1 .. N + 1 /\ j + 1 > Len(s)
      BY <1>0, <1>1
    <3>2. h[j] = <<>>
      BY <1>6, <3>1 DEF ApplyFrom
    <3>3. g[j + 1] = <<>>
      BY <1>5, <3>1 DEF ApplyFrom
    <3> QED  BY <3>2, <3>3
  <2>2. ASSUME NEW k \in Nat, k \in S
        PROVE  k + 1 \in S
    <3>1. ASSUME NEW j \in i + 1 .. N, j = N - (k + 1)
          PROVE  h[j] = g[j + 1]
      <4>1. /\ j + 1 \in i + 1 .. N /\ j \in i + 1 .. N - 1 /\ j \in 1 .. N
            /\ j + 1 \in 1 .. N + 1 /\ j + 1 + 1 = j + 2 /\ j + 1 + 2 = j + 3
            /\ j + 1 >= N - k
        BY <1>1, <3>1
      <4>2. h[j + 1] = g[j + 2]
        BY <2>2, <4>1
      <4>3. t[j] = s[j + 1]
        BY <1>2, <4>1
      <4>4. ASSUME j < N - 1
            PROVE  t[j + 1] = s[j + 2] /\ h[j + 2] = g[j + 3]
        <5>1. /\ j + 1 \in i + 1 .. N - 1 /\ j + 2 \in i + 1 .. N /\ j + 2 >= N - k
              /\ j + 2 + 1 = j + 3
          BY <1>1, <4>1, <4>4, <3>1
        <5>2. t[j + 1] = s[j + 1 + 1]
          BY <1>2, <5>1
        <5>3. h[j + 2] = g[j + 2 + 1]
          BY <2>2, <5>1
        <5> QED  BY <4>1, <5>1, <5>2, <5>3
      <4>5. h[j] = ApplyFrom(m, t, h, j) /\ g[j + 1] = ApplyFrom(m, s, g, j + 1)
        BY <1>5, <1>6, <4>1
      <4>6. /\ ~(j > Len(t)) /\ ~(j + 1 > Len(s))
            /\ j < N - 1 <=> j < Len(t)
            /\ j < N - 1 <=> j + 1 < Len(s)
        BY <1>0, <1>1, <4>1
      <4>7. CASE j < N - 1 /\ <<t[j], t[j + 1]>> = m
        <5>1. h[j] = Joint(t, h, j)
          BY <4>5, <4>6, <4>7 DEF ApplyFrom
        <5>2. <<s[j + 1], s[j + 1 + 1]>> = m
          BY <4>1, <4>3, <4>4, <4>7, Zenon
        <5>3. g[j + 1] = Joint(s, g, j + 1)
          BY <4>5, <4>6, <4>7, <5>2 DEF ApplyFrom
        <5> QED  BY <4>1, <4>3, <4>4, <4>7, <5>1, <5>3, Zenon DEF Joint
      <4>8. CASE ~(j < N - 1 /\ <<t[j], t[j + 1]>> = m)
        <5>1. h[j] = Passed(t, h, j)
          BY <4>5, <4>6, <4>8 DEF ApplyFrom
        <5>2. ~(j < N - 1 /\ <<s[j + 1], s[j + 1 + 1]>> = m)
          BY <4>1, <4>3, <4>4, <4>8, Zenon
        <5>3. g[j + 1] = Passed(s, g, j + 1)
          BY <4>5, <4>6, <5>2 DEF ApplyFrom
        <5> QED  BY <4>1, <4>2, <4>3, <5>1, <5>3, Zenon DEF Passed
      <4> QED  BY <4>7, <4>8
    <3>2. ASSUME NEW j \in i + 1 .. N, j >= N - (k + 1)
          PROVE  h[j] = g[j + 1]
      <4>1. j = N - (k + 1) \/ j >= N - k
        BY <1>1, <3>2
      <4> QED  BY <2>2, <3>1, <4>1
    <3> QED  BY <3>2
  <2> HIDE DEF S
  <2>3. N \in S
    BY <1>1, <2>1, <2>2, SetInduction
  <2>4. i + 1 \in i + 1 .. N /\ i + 1 >= N - N /\ i + 1 + 1 = i + 2
    BY <1>1
  <2> QED  BY <2>3, <2>4 DEF S
<1>8. h[i] = g[i]
  <2>1. /\ i \in 1 .. N + 1 /\ ~(i > Len(s)) /\ i < Len(s) /\ ~(i > Len(t))
    BY <1>0, <1>1
  <2>2. g[i] = Joint(s, g, i)
    BY <1>3, <1>5, <2>1 DEF ApplyFrom
  <2>3. ~(i < Len(t) /\ <<t[i], t[i + 1]>> = m)
    BY <1>2, <1>3
  <2>4. h[i] = Passed(t, h, i)
    BY <1>1, <1>6, <2>1, <2>3 DEF ApplyFrom
  <2> QED  BY <1>2, <1>7, <2>2, <2>4, Zenon DEF Joint, Passed, c
<1>9. h[1] = g[1]
  <2> DEFINE S == {k \in Nat : \A j \in 1 .. i : j >= i - k => h[j] = g[j]}
  <2>1. 0 \in S
    BY <1>1, <1>8
  <2>2. ASSUME NEW k \in Nat, k \in S
        PROVE  k + 1 \in S
    <3>1. ASSUME NEW j \in 1 .. i, j = i - (k + 1)
          PROVE  h[j] = g[j]
      <4>1. /\ j \in 1 .. i - 1 /\ j + 1 \in 1 .. i /\ j + 1 >= i - k
            /\ j \in 1 .. N /\ j \in 1 .. N + 1 /\ ~(j > Len(s)) /\ ~(j > Len(t))
        BY <1>0, <1>1, <3>1
      <4>2. h[j + 1] = g[j + 1]
        BY <2>2, <4>1
      <4>3. t[j] = s[j] /\ <<s[j], s[j + 1]>> # m
        BY <1>2, <1>3, <4>1
      <4>4. <<t[j], t[j + 1]>> # m
        <5>1. CASE j + 1 \in 1 .. i - 1
          BY <1>2, <4>3, <5>1
        <5>2. CASE j + 1 = i
          <6>1. t[j + 1] = c
            BY <1>2, <5>2
          <6> QED  BY <1>3, <6>1
        <5>3. j + 1 \in 1 .. i - 1 \/ j + 1 = i
          BY <1>1, <4>1
        <5> QED  BY <5>1, <5>2, <5>3
      <4>5. h[j] = ApplyFrom(m, t, h, j) /\ g[j] = ApplyFrom(m, s, g, j)
        BY <1>5, <1>6, <4>1
      <4>6. h[j] = Passed(t, h, j)
        BY <4>1, <4>4, <4>5 DEF ApplyFrom
      <4>7. g[j] = Passed(s, g, j)
        BY <4>1, <4>3, <4>5 DEF ApplyFrom
      <4> QED  BY <4>2, <4>3, <4>6, <4>7, Zenon DEF Passed
    <3>2. ASSUME NEW j \in 1 .. i, j >= i - (k + 1)
          PROVE  h[j] = g[j]
      <4>1. j = i - (k + 1) \/ j >= i - k
        BY <1>1, <3>2
      <4> QED  BY <2>2, <3>1, <4>1
    <3> QED  BY <3>2
  <2> HIDE DEF S
  <2>3. i \in S
    BY <1>1, <2>1, <2>2, SetInduction
  <2>4. 1 \in 1 .. i /\ 1 >= i - i
    BY <1>1
  <2> QED  BY <2>3, <2>4 DEF S
<1> QED  BY <1>9

-----------------------------------------------------------------------------
(* The merges in order: by induction over the list. *)

\* What the first k merges make of s, when g gives what fewer of them do.
AfterFrom(s, g, k) ==
  IF k = 0 THEN s ELSE IF k \in Ranked THEN Apply(merges[k], g[k - 1]) ELSE g[k - 1]

IsAfter(s, g) == g = [k \in 0 .. Len(merges) |-> AfterFrom(s, g, k)]

\* All of them.
SweptFrom(s) ==
  LET after[k \in 0 .. Len(merges)] ==
        IF k = 0 THEN s
        ELSE IF k \in Ranked THEN Apply(merges[k], after[k - 1])
        ELSE after[k - 1]
  IN  after[Len(merges)]

LEMMA MergesTyped ==
  ASSUME TypeOK
  PROVE  merges \in Seq(Seq(Byte) \X Seq(Byte)) /\ Len(merges) \in Nat
<1>1. merges \in Seq(Seq(Byte) \X Seq(Byte))
  <2>1. CASE merges \in MergeLists
    BY <2>1, MergesAssumption
  <2>2. CASE merges = <<>>
    BY <2>2, EmptySeq
  <2> QED  BY <2>1, <2>2 DEF TypeOK
<1> QED  BY <1>1

LEMMA AfterAt ==
  ASSUME NEW s, NEW g, IsAfter(s, g), NEW k \in 0 .. Len(merges)
  PROVE  g[k] = AfterFrom(s, g, k)
<1> DEFINE e(j) == AfterFrom(s, g, j)
<1>1. g = [j \in 0 .. Len(merges) |-> e(j)]
  BY DEF IsAfter
<1> HIDE DEF e
<1>2. g[k] = e(k)
  BY <1>1
<1> QED  BY <1>2 DEF e

LEMMA AfterExists ==
  ASSUME TypeOK, NEW s
  PROVE  \E g : IsAfter(s, g)
<1> DEFINE N == Len(merges)
           Solves(g, n) == /\ g = [k \in 0 .. N |-> g[k]]
                           /\ \A k \in 0 .. N : k <= n => g[k] = AfterFrom(s, g, k)
           S == {n \in Nat : \E g : Solves(g, n)}
<1>1. N \in Nat
  BY MergesTyped
<1> HIDE DEF N
<1>2. 0 \in S
  <2> DEFINE g == [k \in 0 .. N |-> s]
  <2>1. Solves(g, 0)
    BY DEF AfterFrom
  <2> QED  BY <2>1
<1>3. ASSUME NEW n \in Nat, n \in S
      PROVE  n + 1 \in S
  <2>1. PICK g : Solves(g, n)
    BY <1>3
  <2> DEFINE h == [k \in 0 .. N |-> IF k = n + 1 THEN AfterFrom(s, g, k) ELSE g[k]]
  <2>2. ASSUME NEW k \in 0 .. N, k <= n + 1
        PROVE  h[k] = AfterFrom(s, h, k)
    <3>1. h[k] = AfterFrom(s, g, k)
      BY <2>1, <2>2
    <3>2. k # 0 => h[k - 1] = g[k - 1]
      BY <1>1, <2>2
    <3> HIDE DEF h
    <3> QED  BY <3>1, <3>2 DEF AfterFrom
  <2>3. Solves(h, n + 1)
    BY <2>2
  <2> HIDE DEF h, Solves
  <2> QED  BY <2>3
<1> HIDE DEF S
<1>4. N \in S
  BY <1>1, <1>2, <1>3, SetInduction
<1>5. PICK g : Solves(g, N)
  BY <1>4 DEF S
<1>6. \A k \in 0 .. N : g[k] = AfterFrom(s, g, k)
  BY <1>1, <1>5
<1> QED  BY <1>5, <1>6 DEF IsAfter, N

LEMMA SweptFromDef ==
  ASSUME TypeOK, NEW s
  PROVE  \E g : IsAfter(s, g) /\ SweptFrom(s) = g[Len(merges)]
<1> DEFINE f == CHOOSE g : g = [k \in 0 .. Len(merges) |-> AfterFrom(s, g, k)]
<1>1. f = [k \in 0 .. Len(merges) |-> AfterFrom(s, f, k)]
  BY AfterExists DEF IsAfter
<1>2. SweptFrom(s) = f[Len(merges)]
  BY DEF SweptFrom, AfterFrom
<1> HIDE DEF f
<1> QED  BY <1>1, <1>2 DEF IsAfter

\* None of the first n merges fits s.
SkipsFirst(s, n) == \A k \in 1 .. n : k \in Ranked => Skips(merges[k], s)

LEMMA AfterSkips ==
  ASSUME TypeOK, NEW s \in Seq(Seq(Byte)), NEW g, IsAfter(s, g),
         NEW n \in 0 .. Len(merges), SkipsFirst(s, n)
  PROVE  g[n] = s
<1> DEFINE S == {k \in Nat : k <= n => g[k] = s}
<1>1. Len(merges) \in Nat /\ n \in Nat
  BY MergesTyped
<1>2. 0 \in S
  <2>1. g[0] = AfterFrom(s, g, 0)
    BY <1>1, AfterAt
  <2> QED  BY <2>1 DEF AfterFrom
<1>3. ASSUME NEW k \in Nat, k \in S
      PROVE  k + 1 \in S
  <2> SUFFICES ASSUME k + 1 <= n
               PROVE  g[k + 1] = s
    OBVIOUS
  <2>1. g[k] = s
    BY <1>1, <1>3
  <2>2. g[k + 1] = AfterFrom(s, g, k + 1)
    <3>1. k + 1 \in 0 .. Len(merges)
      BY <1>1
    <3> QED  BY <3>1, AfterAt
  <2>3. k + 1 # 0 /\ k + 1 - 1 = k /\ k + 1 \in 1 .. n
    BY <1>1
  <2>4. CASE k + 1 \in Ranked
    <3>1. Skips(merges[k + 1], s)
      BY <2>3, <2>4 DEF SkipsFirst
    <3>2. Apply(merges[k + 1], s) = s
      BY <3>1, ApplySkips
    <3> QED  BY <2>1, <2>2, <2>3, <2>4, <3>2 DEF AfterFrom
  <2>5. CASE k + 1 \notin Ranked
    BY <2>1, <2>2, <2>3, <2>5 DEF AfterFrom
  <2> QED  BY <2>4, <2>5
<1> HIDE DEF S
<1>4. n \in S
  BY <1>1, <1>2, <1>3, SetInduction
<1> QED  BY <1>1, <1>4 DEF S

\* What is equal after r merges is equal after all of them.
LEMMA AfterSame ==
  ASSUME TypeOK, NEW s, NEW t, NEW g, NEW h, IsAfter(s, g), IsAfter(t, h),
         NEW r \in 0 .. Len(merges), g[r] = h[r]
  PROVE  g[Len(merges)] = h[Len(merges)]
<1> DEFINE N == Len(merges)
           S == {k \in Nat : r + k <= N => g[r + k] = h[r + k]}
<1>1. N \in Nat /\ r \in Nat /\ r <= N
  BY MergesTyped
<1>2. 0 \in S
  <2>1. r + 0 = r
    BY <1>1
  <2> QED  BY <2>1
<1>3. ASSUME NEW k \in Nat, k \in S
      PROVE  k + 1 \in S
  <2> SUFFICES ASSUME r + (k + 1) <= N
               PROVE  g[r + (k + 1)] = h[r + (k + 1)]
    OBVIOUS
  <2> DEFINE q == r + (k + 1)
  <2>1. g[q - 1] = h[q - 1]
    <3>1. r + k <= N /\ q - 1 = r + k
      BY <1>1
    <3> QED  BY <1>3, <3>1
  <2>2. q \in 0 .. N
    BY <1>1
  <2>3. g[q] = AfterFrom(s, g, q) /\ h[q] = AfterFrom(t, h, q)
    BY <2>2, AfterAt
  <2>4. q # 0
    BY <1>1
  <2> HIDE DEF q
  <2> QED  BY <2>1, <2>3, <2>4 DEF AfterFrom, q
<1> HIDE DEF S
<1>4. N - r \in S
  BY <1>1, <1>2, <1>3, SetInduction
<1>5. r + (N - r) = N
  BY <1>1
<1> QED  BY <1>1, <1>4, <1>5 DEF S


-----------------------------------------------------------------------------
(* The loop of encode_bpe and the merges in order. *)

\* Merging the best pair leaves what the merges in order make of the pieces.
LEMMA MergeBestSweeps ==
  ASSUME TypeOK, WellOrdered, MergeBest
  PROVE  SweptFrom(pieces') = SweptFrom(pieces)
<1> DEFINE i == BestPair
           r == Rank(BestPair)
           x == pieces[i]
           y == pieces[i + 1]
           t == pieces'
<1>1. /\ Pairs # {}
      /\ t = RemoveAt([pieces EXCEPT ![i] = @ \o pieces[i + 1]], i + 1)
      /\ pieces \in Seq(Seq(Byte)) /\ Len(pieces) \in Nat
  BY DEF MergeBest, TypeOK
<1>2. i \in Pairs /\ \A j \in Pairs : r <= Rank(j)
                  /\ (Rank(j) = r => i <= j)
  BY <1>1, BestPairIsBest
<1>3. i \in 1 .. Len(pieces) - 1
  BY <1>2 DEF Pairs
<1>4. r \in Ranked /\ merges[r] = <<x, y>> /\ r \in 1 .. Len(merges)
  BY <1>2, RankIsLeast DEF Ranks, Ranked
<1>5. Len(merges) \in Nat
  BY MergesTyped
<1> HIDE DEF i, r, t, x, y
<1>6. ASSUME NEW j \in 1 .. Len(pieces) - 1, NEW k \in Ranked,
             <<pieces[j], pieces[j + 1]>> = merges[k]
      PROVE  r <= k /\ (k = r => i <= j)
  <2>1. k \in Ranks(pieces[j], pieces[j + 1])
    BY <1>6 DEF Ranks
  <2>2. j \in Pairs
    BY <2>1 DEF Pairs
  <2>3. Rank(j) <= k /\ Rank(j) \in Nat /\ k \in Nat
    BY <2>1, <2>2, RankIsLeast DEF Ranks, Ranked
  <2>4. r <= Rank(j) /\ (Rank(j) = r => i <= j)
    BY <1>2, <2>2
  <2> QED  BY <1>4, <2>3, <2>4
<1>7. ASSUME NEW k \in Ranked, x \o y \in {merges[k][1], merges[k][2]}
      PROVE  r < k
  <2>1. merges[r][1] \o merges[r][2] = x \o y
    BY <1>4
  <2> QED  BY <1>4, <1>7, <2>1 DEF WellOrdered
<1>8. x \o y \notin {x, y}
  <2>1. merges[r][1] = x /\ merges[r][2] = y
    BY <1>4
  <2> QED  BY <1>4, <1>7, <2>1
<1>0. t \in Seq(Seq(Byte)) /\ Shrinks(pieces, t, i)
  <2>1. t = Joined(pieces, i)
    BY <1>1, Zenon DEF Joined
  <2>2. Joined(pieces, i) \in Seq(Seq(Byte)) /\ Shrinks(pieces, Joined(pieces, i), i)
    BY <1>1, <1>3, JoinedAt
  <2> QED  BY <2>1, <2>2, Zenon
<1>9. /\ t \in Seq(Seq(Byte)) /\ Len(t) = Len(pieces) - 1
      /\ \A j \in 1 .. i - 1 : t[j] = pieces[j]
      /\ t[i] = x \o y
      /\ \A j \in i + 1 .. Len(pieces) - 1 : t[j] = pieces[j + 1]
  BY <1>0, Zenon DEF Shrinks, Shortens, x, y
<1>10. SkipsFirst(pieces, r - 1)
  <2> SUFFICES ASSUME NEW k \in 1 .. r - 1, k \in Ranked,
                      NEW j \in 1 .. Len(pieces) - 1
               PROVE  <<pieces[j], pieces[j + 1]>> # merges[k]
    BY DEF SkipsFirst, Skips
  <2> QED  BY <1>4, <1>6
<1>11. SkipsFirst(t, r - 1)
  <2> SUFFICES ASSUME NEW k \in 1 .. r - 1, k \in Ranked,
                      NEW j \in 1 .. Len(t) - 1,
                      <<t[j], t[j + 1]>> = merges[k]
               PROVE  FALSE
    BY DEF SkipsFirst, Skips
  <2>1. j \in Nat /\ j <= Len(pieces) - 2 /\ i \in Nat /\ j >= 1
    <3>1. Len(t) = Len(pieces) - 1 /\ Len(pieces) \in Nat
      BY <1>1, <1>9
    <3> QED  BY <1>3, <3>1
  <2>2. merges[k][1] = t[j] /\ merges[k][2] = t[j + 1]
    <3>1. merges[k] = <<t[j], t[j + 1]>>
      OBVIOUS
    <3> QED  BY <3>1
  <2>3. CASE j < i - 1
    <3>1. t[j] = pieces[j] /\ t[j + 1] = pieces[j + 1]
      <4>1. j \in 1 .. i - 1 /\ j + 1 \in 1 .. i - 1
        BY <1>3, <2>1, <2>3
      <4> QED  BY <1>9, <4>1
    <3>2. j \in 1 .. Len(pieces) - 1
      BY <1>1, <2>1
    <3> QED  BY <1>4, <1>6, <3>1, <3>2
  <2>4. CASE j = i - 1
    <3>1. t[j + 1] = x \o y
      BY <1>9, <2>1, <2>4
    <3>2. r < k
      BY <1>7, <2>2, <3>1
    <3> QED  BY <1>4, <3>2
  <2>5. CASE j = i
    <3>1. t[j] = x \o y
      BY <1>9, <2>5
    <3>2. r < k
      BY <1>7, <2>2, <3>1
    <3> QED  BY <1>4, <3>2
  <2>6. CASE j > i
    <3>1. t[j] = pieces[j + 1] /\ t[j + 1] = pieces[j + 1 + 1]
      <4>1. j \in i + 1 .. Len(pieces) - 1 /\ j + 1 \in i + 1 .. Len(pieces) - 1
        BY <1>1, <2>1, <2>6
      <4> QED  BY <1>9, <4>1
    <3>2. j + 1 \in 1 .. Len(pieces) - 1
      BY <1>1, <2>1
    <3> QED  BY <1>4, <1>6, <3>1, <3>2
  <2> QED  BY <2>1, <2>3, <2>4, <2>5, <2>6
<1>12. PICK g : IsAfter(pieces, g) /\ SweptFrom(pieces) = g[Len(merges)]
  BY SweptFromDef
<1>13. PICK h : IsAfter(t, h) /\ SweptFrom(t) = h[Len(merges)]
  BY SweptFromDef
<1>14. r - 1 \in 0 .. Len(merges) /\ r \in 0 .. Len(merges) /\ r # 0
  BY <1>4, <1>5
<1>15. g[r - 1] = pieces /\ h[r - 1] = t
  BY <1>1, <1>9, <1>10, <1>11, <1>12, <1>13, <1>14, AfterSkips
<1>16. Apply(merges[r], t) = Apply(merges[r], pieces)
  <2>1. \A j \in 1 .. i - 1 : <<pieces[j], pieces[j + 1]>> # merges[r]
    <3> SUFFICES ASSUME NEW j \in 1 .. i - 1, <<pieces[j], pieces[j + 1]>> = merges[r]
                 PROVE  FALSE
      OBVIOUS
    <3>1. j \in 1 .. Len(pieces) - 1 /\ ~(i <= j)
      BY <1>1, <1>3
    <3> QED  BY <1>4, <1>6, <3>1
  <2>2. FitsFirst(merges[r], pieces, i)
    BY <1>4, <1>8, <2>1, Zenon DEF FitsFirst, x, y
  <2>3. PICK p : IsApply(merges[r], pieces, p) /\ Apply(merges[r], pieces) = p[1]
    BY <1>1, ApplyDef
  <2>4. PICK q : IsApply(merges[r], t, q) /\ Apply(merges[r], t) = q[1]
    <3>1. t \in Seq(Seq(Byte))
      BY <1>0
    <3> QED  BY <3>1, ApplyDef
  <2>5. q[1] = p[1]
    BY <1>0, <1>1, <1>3, <2>2, <2>3, <2>4, ApplyJoins
  <2> QED  BY <2>3, <2>4, <2>5
<1>17. g[r] = h[r]
  <2>1. g[r] = AfterFrom(pieces, g, r) /\ h[r] = AfterFrom(t, h, r)
    BY <1>12, <1>13, <1>14, AfterAt
  <2> QED  BY <1>4, <1>14, <1>15, <1>16, <2>1 DEF AfterFrom
<1>18. g[Len(merges)] = h[Len(merges)]
  BY <1>12, <1>13, <1>14, <1>17, AfterSame
<1> QED  BY <1>12, <1>13, <1>18 DEF t

\* When no merge fits, the merges in order change nothing.
LEMMA NoPairsSwept ==
  ASSUME TypeOK, Pairs = {}
  PROVE  SweptFrom(pieces) = pieces
<1>1. Len(merges) \in Nat /\ pieces \in Seq(Seq(Byte))
  BY MergesTyped DEF TypeOK
<1>2. SkipsFirst(pieces, Len(merges))
  <2> SUFFICES ASSUME NEW k \in 1 .. Len(merges), k \in Ranked,
                      NEW j \in 1 .. Len(pieces) - 1,
                      <<pieces[j], pieces[j + 1]>> = merges[k]
               PROVE  FALSE
    BY DEF SkipsFirst, Skips
  <2>1. k \in Ranks(pieces[j], pieces[j + 1])
    BY DEF Ranks
  <2> QED  BY <2>1 DEF Pairs
<1>3. PICK g : IsAfter(pieces, g) /\ SweptFrom(pieces) = g[Len(merges)]
  BY SweptFromDef
<1>4. Len(merges) \in 0 .. Len(merges)
  BY <1>1
<1> QED  BY <1>1, <1>2, <1>3, <1>4, AfterSkips

LEMMA SweptKept ==
  ASSUME UNCHANGED <<merges, text>>
  PROVE  (WellOrdered' <=> WellOrdered) /\ Swept' = Swept
  BY DEF WellOrdered, Swept, Ranked

LEMMA SweptFromKept ==
  ASSUME UNCHANGED merges
  PROVE  SweptFrom(pieces)' = SweptFrom(pieces')
  BY DEF SweptFrom, Ranked

\* The merges in order still make of the pieces what they make of the text.
Exact ==
  WellOrdered => /\ phase = "merge" => SweptFrom(pieces) = Swept
                 /\ phase = "emit" => pieces = Swept

LEMMA EncodeExact ==
  ASSUME NEW t \in Texts, Encode(t)
  PROVE  Exact'
<1>1. /\ text' = t /\ merges' = merges /\ phase' \in {"merge", "walk"}
      /\ phase' = "merge" => pieces' = [i \in 1 .. Len(t) |-> BytePiece(t[i])]
  BY DEF Encode
<1>2. ASSUME phase' = "merge"
      PROVE  (SweptFrom(pieces) = Swept)'
  <2>1. pieces' = [i \in 1 .. Len(text') |-> BytePiece(text'[i])]
    BY <1>1, <1>2
  <2>2. Swept' = SweptFrom([i \in 1 .. Len(text') |-> BytePiece(text'[i])])
    BY <1>1 DEF Swept, SweptFrom, Ranked
  <2> QED  BY <1>1, <2>1, <2>2, SweptFromKept
<1> QED  BY <1>1, <1>2 DEF Exact

\* The loop of encode_bpe (src/tokenizer.cpp) merges one pair at a time and looks
\* for the least rank again; for a merge list as training makes it that comes to
\* the merges in order, each applied wherever it fits, from the left: for every
\* such list, repeated merges and merges without a rank included, and every text.
THEOREM LoopIsBPE == Spec => []MergesAreExact
<1>1. Init => Exact
  BY DEF Init, Exact
<1>2. IInv /\ Exact /\ [Next]_vars => Exact'
  <2> SUFFICES ASSUME IInv, Exact, [Next]_vars
               PROVE  Exact'
    OBVIOUS
  <2> USE DEF IInv
  <2>1. ASSUME NEW t \in Texts, Encode(t)
        PROVE  Exact'
    BY <2>1, EncodeExact
  <2>2. CASE MergeBest
    <3>1. /\ phase = "merge" /\ phase' = "merge" /\ UNCHANGED <<merges, text>>
      BY <2>2 DEF MergeBest
    <3>2. (WellOrdered' <=> WellOrdered) /\ Swept' = Swept
      BY <3>1, SweptKept
    <3>3. WellOrdered => SweptFrom(pieces)' = SweptFrom(pieces)
      BY <2>2, <3>1, MergeBestSweeps, SweptFromKept
    <3> QED  BY <3>1, <3>2, <3>3 DEF Exact
  <2>3. CASE MergesDone
    <3>1. /\ phase = "merge" /\ phase' = "emit" /\ Pairs = {}
          /\ UNCHANGED <<merges, text, pieces>>
      BY <2>3 DEF MergesDone
    <3>2. (WellOrdered' <=> WellOrdered) /\ Swept' = Swept
      BY <3>1, SweptKept
    <3>3. SweptFrom(pieces) = pieces
      BY <3>1, NoPairsSwept
    <3> QED  BY <3>1, <3>2, <3>3 DEF Exact
  <2>4. CASE EmitPiece \/ Walk \/ WalkEnds
    <3>1. /\ phase' = phase /\ phase # "merge" /\ UNCHANGED <<merges, text, pieces>>
      BY <2>4 DEF EmitPiece, Walk, WalkEnds
    <3>2. (WellOrdered' <=> WellOrdered) /\ Swept' = Swept
      BY <3>1, SweptKept
    <3> QED  BY <3>1, <3>2 DEF Exact
  <2>5. CASE EmitDone \/ TrieDone
    BY <2>5 DEF EmitDone, TrieDone, Done, Exact
  <2>6. CASE UNCHANGED vars
    <3>1. UNCHANGED <<merges, text, phase, pieces>>
      BY <2>6 DEF vars
    <3>2. /\ (WellOrdered' <=> WellOrdered) /\ Swept' = Swept
          /\ SweptFrom(pieces)' = SweptFrom(pieces)
      BY <3>1, SweptKept, SweptFromKept
    <3> QED  BY <3>1, <3>2 DEF Exact
  <2> QED  BY <2>1, <2>2, <2>3, <2>4, <2>5, <2>6 DEF Next, Work
<1>3. Exact => MergesAreExact
  BY DEF Exact, MergesAreExact
<1> QED  BY <1>1, <1>2, <1>3, Invariance, PTL DEF Spec

-----------------------------------------------------------------------------
(* Progress. *)

LEMMA RemoveShorter ==
  ASSUME NEW S, NEW s \in Seq(S), NEW i \in 1 .. Len(s)
  PROVE  Len(RemoveAt(s, i)) = Len(s) - 1
<1>1. i - 1 \in 0 .. Len(s) /\ i + 1 \in 1 .. Len(s) + 1
  OBVIOUS
<1>2. SubSeq(s, 1, i - 1) \in Seq(S) /\ Len(SubSeq(s, 1, i - 1)) = i - 1
  BY <1>1, FirstPart
<1>3. SubSeq(s, i + 1, Len(s)) \in Seq(S) /\ Len(SubSeq(s, i + 1, Len(s))) = Len(s) - i
  <2>1. Len(SubSeq(s, i + 1, Len(s))) = Len(s) - (i + 1) + 1
    BY <1>1, LastPart
  <2> QED  BY <1>1, <2>1, LastPart
<1> DEFINE a == SubSeq(s, 1, i - 1)
           b == SubSeq(s, i + 1, Len(s))
<1>4. RemoveAt(s, i) = a \o b
  BY DEF RemoveAt
<1>5. a \in Seq(S) /\ b \in Seq(S) /\ Len(a) = i - 1 /\ Len(b) = Len(s) - i
  BY <1>2, <1>3
<1> HIDE DEF a, b
<1>6. Len(a \o b) = Len(a) + Len(b)
  BY <1>5
<1>7. Len(s) \in Nat
  OBVIOUS
<1> QED  BY <1>4, <1>5, <1>6, <1>7

\* Every step of encode brings it nearer to its return: a merge leaves fewer
\* pieces, the loops go forward and never beyond their ends, and the walk goes
\* deeper before it goes on.  An empty token never matches.
EncodeAdvances ==
  [][phase # "idle" =>
       \/ phase' = "idle"
       \/ phase = "merge" /\ (phase' = "emit" \/ Len(pieces') < Len(pieces))
       \/ /\ phase = "emit" /\ UNCHANGED <<phase, pieces>>
          /\ pos < pos' /\ pos' <= Len(pieces) + 1
       \/ /\ phase = "walk" /\ UNCHANGED <<phase, text>>
          /\ pos < pos' \/ (pos = pos' /\ Len(node) < Len(node'))
          /\ pos' + Len(node') <= Len(text) + 1]_vars

\* What a step of encode does, one disjunct for each of its loops.
Returns == phase' = "idle"

Merges == phase = "merge" /\ (phase' = "emit" \/ Len(pieces') < Len(pieces))

Emits ==
  /\ phase = "emit" /\ UNCHANGED <<phase, pieces>>
  /\ pos < pos' /\ pos' <= Len(pieces) + 1

Walks ==
  /\ phase = "walk" /\ UNCHANGED <<phase, text>>
  /\ pos < pos' \/ (pos = pos' /\ Len(node) < Len(node'))
  /\ pos' + Len(node') <= Len(text) + 1

\* A merge leaves one piece less.
LEMMA MergeBestAdvances ==
  ASSUME TypeOK, MergeBest
  PROVE  Merges
<1>1. BestPair \in 1 .. Len(pieces) - 1
  BY BestPairIsPair DEF MergeBest
<1> DEFINE i == BestPair
           joined == [pieces EXCEPT ![i] = @ \o pieces[i + 1]]
<1>2. joined \in Seq(Seq(Byte)) /\ Len(joined) = Len(pieces)
  <2>1. pieces \in Seq(Seq(Byte))
    BY DEF TypeOK
  <2> HIDE DEF i
  <2>2. i \in 1 .. Len(pieces) - 1
    BY <1>1 DEF i
  <2> QED  BY <2>1, <2>2, ExceptTyped
<1>3. i + 1 \in 1 .. Len(joined) /\ Len(pieces) \in Nat
  BY <1>1, <1>2 DEF TypeOK
<1>4. pieces' = RemoveAt(joined, i + 1) /\ phase = "merge"
  BY DEF MergeBest
<1> HIDE DEF joined, i
<1>5. Len(pieces') = Len(joined) - 1
  BY <1>2, <1>3, <1>4, RemoveShorter
<1> QED  BY <1>2, <1>3, <1>4, <1>5 DEF Merges

\* The walk goes one byte deeper, inside the text.
LEMMA WalkAdvances ==
  ASSUME IInv, Walk
  PROVE  Walks
<1>1. IInv'
  BY WalkKeeps
<1>2. phase = "walk" /\ phase' = "walk" /\ text' = text /\ pos' = pos /\ node' = Longer
  BY DEF Walk
<1>3. pos' + Len(node') <= Len(text') + 1
  BY <1>1, <1>2 DEF IInv, WalkSound
<1>4. Len(Longer) = Len(node) + 1 /\ Len(node) \in Nat
  BY DEF Longer, IInv, TypeOK
<1> QED  BY <1>2, <1>3, <1>4 DEF Walks

\* After a token or the fallback the next walk begins further on.
LEMMA WalkEndsAdvances ==
  ASSUME IInv, WalkEnds
  PROVE  Walks
<1>1. IInv'
  BY WalkEndsKeeps
<1>2. phase = "walk" /\ phase' = "walk" /\ text' = text
  BY DEF WalkEnds
<1>3. pos' + Len(node') <= Len(text') + 1
  BY <1>1, <1>2 DEF IInv, WalkSound
<1>4. pos \in Nat /\ best \in Nat
  BY DEF IInv, TypeOK
<1>5. pos < pos'
  BY <1>4 DEF WalkEnds
<1> QED  BY <1>2, <1>3, <1>5 DEF Walks

LEMMA NextAdvances == IInv /\ [Next]_vars => [phase # "idle" => Returns \/ Merges \/ Emits \/ Walks]_vars
<1> SUFFICES ASSUME IInv, Next, phase # "idle"
             PROVE  Returns \/ Merges \/ Emits \/ Walks
  OBVIOUS
<1>1. ASSUME NEW t \in Texts
      PROVE  ~Encode(t)
  BY DEF Encode
<1>2. CASE MergeBest
  BY <1>2, MergeBestAdvances DEF IInv
<1>3. CASE MergesDone
  BY <1>3 DEF MergesDone, Merges
<1>4. CASE EmitPiece
  <2>1. pos \in Nat /\ Len(pieces) \in Nat
    BY DEF IInv, TypeOK
  <2> QED  BY <1>4, <2>1 DEF EmitPiece, Emits
<1>5. CASE Walk
  BY <1>5, WalkAdvances
<1>6. CASE WalkEnds
  BY <1>6, WalkEndsAdvances
<1>7. CASE EmitDone \/ TrieDone
  BY <1>7 DEF EmitDone, TrieDone, Done, Returns
<1> QED  BY <1>1, <1>2, <1>3, <1>4, <1>5, <1>6, <1>7 DEF Next, Work

\* No step of encode is taken in vain: it returns, merges two pieces into one,
\* or moves forward in what it reads and not beyond its end (tokenizer.cpp,
\* encode_bpe and encode_trie).
THEOREM EncodeNeverLoops == Spec => EncodeAdvances
<1>1. [phase # "idle" => Returns \/ Merges \/ Emits \/ Walks]_vars =>
        [phase # "idle" =>
           \/ phase' = "idle"
           \/ phase = "merge" /\ (phase' = "emit" \/ Len(pieces') < Len(pieces))
           \/ /\ phase = "emit" /\ UNCHANGED <<phase, pieces>>
              /\ pos < pos' /\ pos' <= Len(pieces) + 1
           \/ /\ phase = "walk" /\ UNCHANGED <<phase, text>>
              /\ pos < pos' \/ (pos = pos' /\ Len(node) < Len(node'))
              /\ pos' + Len(node') <= Len(text) + 1]_vars
  BY DEF Returns, Merges, Emits, Walks
<1> QED  BY <1>1, NextAdvances, Invariance, PTL DEF Spec, EncodeAdvances
=============================================================================
