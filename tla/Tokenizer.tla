------------------------------- MODULE Tokenizer -------------------------------
(***************************************************************************)
(* The tokenizer (src/tokenizer.cpp): byte-level BPE when the vocabulary   *)
(* comes with merges, longest match in a trie when it does not, and the    *)
(* byte fallback of both.  A tokenizer is built once and encodes texts.    *)
(*                                                                         *)
(* A text, a token and a piece are sequences of bytes.  Visible bytes      *)
(* stand for themselves in a BPE piece; the others are spelled by a        *)
(* sequence of visible ones, "<0xNN>".  A node of the trie is the prefix   *)
(* that leads to it.  Token ids count from 0, positions from 1.            *)
(***************************************************************************)
EXTENDS Integers, Sequences, SequencesExt

CONSTANTS
  Byte,         \* the bytes
  Visible,      \* those from 33 to 126
  Spelling,     \* how byte_piece spells each of the others
  Vocabs,       \* vocabularies, none of them empty: from_gguf refuses that
  DefaultVocab, \* what the one-argument constructor makes of none
  MergeLists,   \* merge lists, each merge split at its first space
  Texts         \* texts that are encoded

ASSUME BytesAssumption == Visible \subseteq Byte /\ Spelling \in [Byte \ Visible -> Seq(Visible)]
ASSUME VocabsAssumption == Vocabs \cup {DefaultVocab} \subseteq Seq(Seq(Byte)) \ {<<>>}
ASSUME MergesAssumption == MergeLists \subseteq Seq(Seq(Byte) \X Seq(Byte))
ASSUME TextsAssumption == Texts \subseteq Seq(Byte)

VARIABLES
  vocab, merges,  \* of the tokenizer
  text,           \* what is or was encoded
  phase,          \* "idle", "merge" and "emit" (BPE), "walk" (trie)
  pieces,         \* BPE: the pieces so far
  pos,            \* the next byte of the trie loop, the next piece of the BPE one
  node, best,     \* the trie node reached from pos, and the longest match, 0 if none
  out             \* the ids

vars == <<vocab, merges, text, phase, pieces, pos, node, best, out>>

Init ==
  /\ \/ vocab \in Vocabs /\ merges \in MergeLists
     \/ vocab = DefaultVocab /\ merges = <<>>
  /\ text = <<>> /\ out = <<>>
  /\ phase = "idle"
  /\ pieces = <<>> /\ pos = 1 /\ node = <<>> /\ best = 0

-----------------------------------------------------------------------------
(* The indices. *)

\* byte_piece
BytePiece(b) == IF b \in Visible THEN <<b>> ELSE Spelling[b]

Ids(s)   == {k \in 1 .. Len(vocab) : vocab[k] = s}
Known(s) == Ids(s) # {}

\* token_to_id_ keeps the first of equal tokens, the trie the last.
FirstId(s) == Min(Ids(s)) - 1

\* Mutant of LastId: ids count from one.
LastId_FromOne(s) == Max(Ids(s))

LastId(s)  == Max(Ids(s)) - 1

\* The id of one byte, and id 0 when there is none.
ByteId(b) == IF Known(BytePiece(b)) THEN FirstId(BytePiece(b)) ELSE 0

\* Merges with two parts have a rank, their place; of equal ones the first.
Ranked     == {k \in 1 .. Len(merges) : <<>> \notin {merges[k][1], merges[k][2]}}
Ranks(a, b) == {k \in Ranked : merges[k] = <<a, b>>}

\* The trie's nodes other than the root.
IsNode(s) == \E k \in 1 .. Len(vocab) : IsPrefix(s, vocab[k])

-----------------------------------------------------------------------------
(* encode *)

Encode(t) ==
  /\ phase = "idle"
  /\ text' = t
  /\ out' = <<>>
  /\ pos' = 1 /\ node' = <<>> /\ best' = 0
  /\ IF Ranked # {}
       THEN phase' = "merge" /\ pieces' = [i \in 1 .. Len(t) |-> BytePiece(t[i])]
       ELSE phase' = "walk"  /\ pieces' = <<>>
  /\ UNCHANGED <<vocab, merges>>

Done ==
  /\ phase' = "idle"
  /\ UNCHANGED <<vocab, merges, text, pieces, pos, node, best, out>>

(* encode_bpe: merge the pair of least rank, the leftmost of equals. *)

Pairs   == {i \in 1 .. Len(pieces) - 1 : Ranks(pieces[i], pieces[i + 1]) # {}}
Rank(i) == Min(Ranks(pieces[i], pieces[i + 1]))

\* Mutant of BestPair: the rank does not matter.
BestPair_Leftmost == Min(Pairs)

BestPair == Min({i \in Pairs : \A j \in Pairs : Rank(i) <= Rank(j)})

\* Mutant of MergeBest: the second piece is not erased.
MergeBest_KeepsSecond ==
  /\ phase = "merge"
  /\ Pairs # {}
  /\ Len(pieces) <= Len(text) + 1
  /\ pieces' = [pieces EXCEPT ![BestPair] = @ \o pieces[BestPair + 1]]
  /\ UNCHANGED <<vocab, merges, text, phase, pos, node, best, out>>

MergeBest ==
  /\ phase = "merge"
  /\ Pairs # {}
  /\ pieces' = RemoveAt([pieces EXCEPT ![BestPair] = @ \o pieces[BestPair + 1]],
                        BestPair + 1)
  /\ UNCHANGED <<vocab, merges, text, phase, pos, node, best, out>>

MergesDone ==
  /\ phase = "merge"
  /\ Pairs = {}
  /\ phase' = "emit"
  /\ UNCHANGED <<vocab, merges, text, pieces, pos, node, best, out>>

\* A piece that is no token falls apart into its bytes, all of them visible.
EmitPiece ==
  /\ phase = "emit"
  /\ pos <= Len(pieces)
  /\ out' = out \o (IF Known(pieces[pos]) THEN <<FirstId(pieces[pos])>>
                    ELSE [i \in 1 .. Len(pieces[pos]) |-> ByteId(pieces[pos][i])])
  /\ pos' = pos + 1
  /\ UNCHANGED <<vocab, merges, text, phase, pieces, node, best>>

EmitDone == phase = "emit" /\ pos > Len(pieces) /\ Done

(* encode_trie *)

Longer  == Append(node, text[pos + Len(node)])
CanWalk == pos + Len(node) <= Len(text) /\ IsNode(Longer)

\* Mutant of Walk: the first match is kept, not the longest.
Walk_KeepsFirst ==
  /\ phase = "walk"
  /\ CanWalk
  /\ node' = Longer
  /\ best' = IF best = 0 /\ Known(Longer) THEN Len(Longer) ELSE best
  /\ UNCHANGED <<vocab, merges, text, phase, pieces, pos, out>>

Walk ==
  /\ phase = "walk"
  /\ CanWalk
  /\ node' = Longer
  /\ best' = IF Known(Longer) THEN Len(Longer) ELSE best
  /\ UNCHANGED <<vocab, merges, text, phase, pieces, pos, out>>

\* Mutant of WalkEnds: the fallback does not step over the byte.
WalkEnds_Stays ==
  /\ phase = "walk"
  /\ pos <= Len(text)
  /\ ~CanWalk
  /\ IF best > 0
       THEN /\ out' = Append(out, LastId(SubSeq(text, pos, pos + best - 1)))
            /\ pos' = pos + best
       ELSE UNCHANGED <<out, pos>>
  /\ node' = <<>> /\ best' = 0
  /\ UNCHANGED <<vocab, merges, text, phase, pieces>>

\* The token of the longest match, or the fallback for one byte.
WalkEnds ==
  /\ phase = "walk"
  /\ pos <= Len(text)
  /\ ~CanWalk
  /\ IF best > 0
       THEN /\ out' = Append(out, LastId(SubSeq(text, pos, pos + best - 1)))
            /\ pos' = pos + best
       ELSE out' = Append(out, ByteId(text[pos])) /\ pos' = pos + 1
  /\ node' = <<>> /\ best' = 0
  /\ UNCHANGED <<vocab, merges, text, phase, pieces>>

TrieDone == phase = "walk" /\ pos > Len(text) /\ Done

-----------------------------------------------------------------------------
Work ==
  \/ MergeBest \/ MergesDone \/ EmitPiece \/ EmitDone
  \/ Walk \/ WalkEnds \/ TrieDone

Next == Work \/ \E t \in Texts : Encode(t)

\* encode runs on its caller's thread until it returns.
Spec == Init /\ [][Next]_vars /\ WF_vars(Work)

\* decode; every id here is one of the vocabulary.
Decode(ids) == FlattenSeq([k \in 1 .. Len(ids) |-> vocab[ids[k] + 1]])

-----------------------------------------------------------------------------
(* Properties. *)

\* Types; in particular every id that encode returns is one of the vocabulary.
TypeOK ==
  /\ vocab \in Vocabs \cup {DefaultVocab}
  /\ merges \in MergeLists \cup {<<>>}
  /\ text \in Texts \cup {<<>>}
  /\ phase \in {"idle", "merge", "emit", "walk"}
  /\ pieces \in Seq(Seq(Byte))
  /\ pos \in Nat \ {0} /\ node \in Seq(Byte) /\ best \in Nat
  /\ out \in Seq(0 .. Len(vocab) - 1)

\* Greedy longest match from position p, by definition: the longest token that
\* the rest of the text begins with, or one byte.
LongestMatch[p \in Nat \ {0}] ==
  LET fits == {n \in 1 .. Len(text) + 1 - p : Known(SubSeq(text, p, p + n - 1))}
  IN  IF p > Len(text) THEN <<>>
      ELSE IF fits = {} THEN <<ByteId(text[p])>> \o LongestMatch[p + 1]
      ELSE <<LastId(SubSeq(text, p, p + Max(fits) - 1))>> \o LongestMatch[p + Max(fits)]

\* The trie loop computes greedy longest match, at every point of it.
TrieIsLongestMatch ==
  /\ phase = "walk" => out \o LongestMatch[pos] = LongestMatch[1]
  /\ phase = "idle" /\ Ranked = {} => out = LongestMatch[1]

\* Byte-level BPE by definition: the merges in order, each applied wherever it
\* fits, from the left.
Apply(merge, s) ==
  LET from[i \in 1 .. Len(s) + 1] ==
        IF i > Len(s) THEN <<>>
        ELSE IF i < Len(s) /\ <<s[i], s[i + 1]>> = merge
               THEN <<s[i] \o s[i + 1]>> \o from[i + 2]
             ELSE <<s[i]>> \o from[i + 1]
  IN  from[1]

Swept ==
  LET after[k \in 0 .. Len(merges)] ==
        IF k = 0 THEN [i \in 1 .. Len(text) |-> BytePiece(text[i])]
        ELSE IF k \in Ranked THEN Apply(merges[k], after[k - 1])
        ELSE after[k - 1]
  IN  after[Len(merges)]

\* A merge list as training makes it: what a merge joins was made before it.
WellOrdered ==
  \A k, m \in Ranked :
    merges[m][1] \o merges[m][2] \in {merges[k][1], merges[k][2]} => m < k

\* For a merge list as training makes it the loop of encode_bpe, which merges
\* one pair at a time and looks for the least rank again, is exactly BPE.
MergesAreExact == phase = "emit" /\ WellOrdered => pieces = Swept

\* A text of bytes that have tokens of their own (visible ones, for BPE) comes
\* back from decode.
RoundTrip ==
  phase = "idle" /\ (\A i \in 1 .. Len(text) :
                       Known(<<text[i]>>) /\ (Ranked # {} => text[i] \in Visible)) =>
    Decode(out) = text

\* encode returns.
EncodeReturns == phase # "idle" ~> phase = "idle"

-----------------------------------------------------------------------------
\* "Byte fallback: keeps unsupported bytes representable"
\* (docs/tokenizer_parity.md:19): decoding gives back every text.
BytesRepresentable == phase = "idle" => Decode(out) = text
=============================================================================
