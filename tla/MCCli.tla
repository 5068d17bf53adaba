--------------------------------- MODULE MCCli ---------------------------------
(***************************************************************************)
(* Instance of Cli for TLC: every command line of a few words over two     *)
(* files, and command lines without valued options over many files.        *)
(***************************************************************************)
EXTENDS Cli

MCGgufPath == {"m.gguf"}
MCDashed   == Word \cap (Flags \cup Options \cup {"--seed"})
MCNumber   == Word \cap {"4"}

Globals == {<<Global, "token_embd.weight">>, <<Global, "output_norm.weight">>}
Common  == {"attn_norm.weight", "ffn_norm.weight", "attn_output.weight"} \cup ShortConv
Varied  == {"attn_q.weight", "attn_qkv.bias", "ffn_up.weight", "ffn_gate_inp.weight"}
Rest    == {"attn_k.weight", "attn_v.weight", "ffn_down.weight"}
Layer(l, parts) == {l} \X parts

Complete == Globals \cup Layer(0, Common \cup Varied \cup Rest) \cup Layer(1, Common \cup Varied \cup Rest)
Manifest == [kind |-> "manifest", architecture |-> "toy"]

\* A file whose tensors are of type d, but for the token embedding.
Gguf(a, blocks, tensors, merges, d, embedding) ==
  [kind |-> "gguf", architecture |-> a, mtpKey |-> FALSE,
   counts |-> [k \in {a} \X {"block_count", "embedding_length", "vocab_size"} |->
                 IF k[2] = "block_count" THEN blocks ELSE 64],
   tokens |-> TRUE, merges |-> merges, tensors |-> tensors,
   dtype |-> [t \in tensors |-> IF t = <<Global, "token_embd.weight">> THEN embedding ELSE d]]

FewFiles == {Manifest, Gguf("lfm2", 0, Globals, TRUE, "q4_0", "q4_0")}

\* Two layers: all of both but one tensor, or the second with any of the
\* tensors that can stand for each other; types of tensors that have a kernel
\* and that have not; every other architecture; and layer counts that do not
\* fit 32 bits, or 64.
ManyFiles ==
  FewFiles
    \cup {Gguf("lfm2", 2, (Complete \ Layer(1, Varied)) \cup Layer(1, parts), TRUE, "f16", "f16") :
            parts \in SUBSET Varied}
    \cup {Gguf("lfm2", 2, Complete \ {t}, TRUE, "f16", "q8_0") :
            t \in Globals \cup Layer(0, Common \cup Varied \cup Rest)}
    \cup {Gguf("lfm2", 1, Globals, merges, d, embedding) : merges \in BOOLEAN,
            d \in {"q4_0", "k_quant", "unknown"}, embedding \in {"f32", "k_quant", "q5", "bf16"}}
    \cup {Gguf(a, 1, tensors, TRUE, "q8_0", "q8_0") :
            a \in DOMAIN Registry \cup {"rwkv"}, tensors \in {{}, Complete}}
    \cup {Gguf("lfm2", blocks, Globals, TRUE, "f16", "f16") :
            blocks \in {UInt32, UInt32 + 1, UInt64}}

\* Bound: only command lines of "--check" and positional words are followed
\* further when they load one of the many files.
ManyFilesBound ==
  file \in FewFiles \cup {NoFile} \/ (read = <<>> /\ flags \subseteq {"--check"})
=============================================================================
