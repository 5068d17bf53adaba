------------------------------ MODULE MCTokenizer ------------------------------
(***************************************************************************)
(* Instance of Tokenizer for TLC: two letters and a blank, which is        *)
(* spelled "<>"; vocabularies with and without single bytes, a repeated    *)
(* and an empty token; merge lists in and out of order.                    *)
(***************************************************************************)
EXTENDS Tokenizer

CONSTANT MaxText

MCByte     == {"a", "b", "<", ">", " "}
MCVisible  == MCByte \ {" "}
MCSpelling == [b \in {" "} |-> <<"<", ">">>]

Unk == <<"<", "b", ">">>
MCVocabs ==
  {<<Unk, <<"a">>, <<"b">>, <<"a", "b">>, <<"a", "b", "a">> >>,
   <<Unk, <<"a">>, <<"a", "b">>, <<"a", "b">>, <<" ">>, <<"b", "b", "a">> >>,
   <<Unk, <<"b">>, <<"a">>, <<"<", ">">>, <<>>, <<"a", "a">> >>}
MCDefaultVocab == <<Unk>>

MCMergeLists ==
  {<<>>,
   << <<<<"a">>, <<>>>> >>,
   << <<<<"a">>, <<"b">>>>, <<<<"a", "b">>, <<"a">>>> >>,
   << <<<<"a", "b">>, <<"a">>>>, <<<<"a">>, <<"b">>>> >>,
   << <<<<"b">>, <<"a">>>>, <<<<"<">>, <<">">>>>, <<<<"a">>, <<"a">>>>,
      <<<<"a">>, <<"b">>>>, <<<<"b", "a">>, <<"a", "b">>>> >>}

MCTexts == UNION {[1 .. n -> {"a", "b", " "}] : n \in 0 .. MaxText}
=============================================================================
