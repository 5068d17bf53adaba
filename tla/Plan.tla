--------------------------------- MODULE Plan ---------------------------------
(***************************************************************************)
(* Model::load (src/model.cpp) and build_execution_plan (src/plan.cpp), as *)
(* operators: what a file makes of the model's metadata, and which issues  *)
(* the planner finds in it.                                                *)
(*                                                                         *)
(* A GGUF file is what its directory says: its architecture, the numbers   *)
(* in its metadata by prefix and key ("lfm2.block_count" is <<"lfm2",      *)
(* "block_count">>), whether it has tokens and merges, the tensors         *)
(* ("blk.1.attn_q.weight" is <<1, "attn_q.weight">>) and the data type of  *)
(* each, by families.  A number is the first run of digits in a value; a   *)
(* key without one is like a key that is absent.  An issue is a code and   *)
(* the layer, or the tensor, it is about.                                  *)
(***************************************************************************)
EXTENDS Integers, FiniteSets

CONSTANTS
  Profile,  \* architecture profiles by name: [hybrid, moe : BOOLEAN]
  UInt32,   \* 2^32, for std::uint32_t
  UInt64    \* 2^64, for the unsigned long of std::stoul

ASSUME ProfileAssumption ==
  \A a \in DOMAIN Profile : Profile[a] \in [hybrid : BOOLEAN, moe : BOOLEAN]
ASSUME WidthAssumption == UInt32 \in Nat \ {0} /\ UInt64 \in Nat \ {0}

\* profiles_vec: the architectures the program knows.
Registry ==
  LET dense  == {"llama", "qwen2", "qwen3", "mistral", "gemma", "gemma2", "gemma3", "phi2",
                 "phi3", "granite", "gptneox", "falcon", "baichuan", "mpt", "starcoder",
                 "cpullm_tiny"}
      moe    == {"qwen3moe", "mixtral", "deepseek2"}
      hybrid == {"lfm2"}
  IN  [a \in dense \cup moe \cup hybrid |-> [hybrid |-> a \in hybrid, moe |-> a \in moe]]

Global == -1  \* the layer of a tensor that belongs to none

-----------------------------------------------------------------------------
(* Model::load *)

\* What parse_u32 looks for: numbers under "lfm2." whatever the architecture.
Looked(file) ==
  DOMAIN file.counts \cap
    ({"lfm2"} \X {"block_count", "context_length", "embedding_length", "feed_forward_length",
                  "attention.head_count", "attention.head_count_kv", "vocab_size"})

\* std::stoul throws for a number beyond its range.
Readable(file) ==
  file.kind = "gguf" => \A k \in Looked(file) : file.counts[k] < UInt64

\* parse_u32: the number, narrowed to 32 bits.
Count(file, key) ==
  IF <<"lfm2", key>> \in Looked(file) THEN file.counts[<<"lfm2", key>>] % UInt32 ELSE 0

\* Tensor names that contain "mtp" or "draft".
HeadParts == {"mtp.weight", "draft.weight"}

LoadGguf(file) ==
  [format |-> "gguf", architecture |-> file.architecture,
   blocks |-> Count(file, "block_count"),
   embedding |-> Count(file, "embedding_length"),
   vocab |-> Count(file, "vocab_size"),
   heads |-> file.mtpKey \/ \E t \in file.tensors : t[2] \in HeadParts]

LoadManifest(file) ==
  [format |-> "manifest", architecture |-> file.architecture,
   blocks |-> 0, embedding |-> 0, vocab |-> 0, heads |-> FALSE]

Load(file) == IF file.kind = "gguf" THEN LoadGguf(file) ELSE LoadManifest(file)

-----------------------------------------------------------------------------
(* build_execution_plan *)

\* An issue, unless the condition holds.
Unless(condition, code, about) == IF condition THEN {} ELSE {<<code, about>>}

\* The issue a data type is reported by, if it has no kernel.  Q5_0 and Q5_1
\* ("q5") have no case of their own and go the way of an unknown type.
KernelCode ==
  [bf16     |-> "kernel.bf16.matmul_missing",
   k_quant  |-> "kernel.k_quant.pending",
   iq_quant |-> "kernel.iq_quant.pending",
   tq_quant |-> "kernel.tq_quant.pending",
   q5       |-> "kernel.unknown_type",
   unknown  |-> "kernel.unknown_type"]

\* analyze_kernels, of the types of some tensors.
KernelIssues(types) == {<<KernelCode[d], Global>> : d \in types \cap DOMAIN KernelCode}

\* Tensor names of a layer that contain "attn_qkv", and those that contain
\* "ffn_gate_inp", "ffn_gate_exps" or "expert".
FusedParts == {"attn_qkv.weight", "attn_qkv.bias"}
MoeParts   == {"ffn_gate_inp.weight", "ffn_gate_exps.weight", "experts.weight"}

\* Mutant of LayerIssues: a fused projection is an issue beside a split one.
LayerIssues_OneProjection(tensors, l) ==
  LET has(part)  == <<l, part>> \in tensors
      some(parts) == \E part \in parts : has(part)
      split == has("attn_q.weight") /\ has("attn_k.weight") /\ has("attn_v.weight")
  IN  Unless(split # some(FusedParts), "tensor.attention_qkv.missing", l)

LayerIssues(tensors, l) ==
  LET has(part)  == <<l, part>> \in tensors
      some(parts) == \E part \in parts : has(part)
      split == has("attn_q.weight") /\ has("attn_k.weight") /\ has("attn_v.weight")
      dense == has("ffn_up.weight") /\ has("ffn_down.weight")
  IN  UNION {Unless(has("attn_norm.weight"), "tensor.attn_norm.missing", l),
             Unless(has("ffn_norm.weight"), "tensor.ffn_norm.missing", l),
             Unless(split \/ some(FusedParts), "tensor.attention_qkv.missing", l),
             Unless(has("attn_output.weight"), "tensor.attention_output.missing", l),
             Unless(dense \/ some(MoeParts), "tensor.ffn.missing", l)}

\* validate_generic_decoder
DecoderIssues(model, tensors) ==
  UNION ({Unless(model.blocks # 0, "metadata.block_count", Global),
          Unless(model.embedding # 0, "metadata.embedding_length", Global),
          Unless(model.vocab # 0, "metadata.vocab_size", Global),
          Unless(<<Global, "token_embd.weight">> \in tensors,
                 "tensor.token_embedding.missing", Global),
          Unless(\E part \in {"output_norm.weight", "token_embd_norm.weight"} :
                   <<Global, part>> \in tensors, "tensor.final_norm.missing", Global)}
         \cup {LayerIssues(tensors, l) : l \in 0 .. model.blocks - 1})

ShortConv == {"shortconv.conv.weight", "shortconv.in_proj.weight", "shortconv.out_proj.weight"}

\* validate_hybrid_lfm
HybridIssues(model, tensors) ==
  DecoderIssues(model, tensors) \cup
    UNION {Unless(t \in tensors, "tensor.shortconv.missing", t) :
             t \in (0 .. model.blocks - 1) \X ShortConv}

\* Mutant of ArchitectureIssues: the hybrid graph is taken for wired.
ArchitectureIssues_HybridWired(model, file) ==
  IF model.architecture = "lfm2" THEN HybridIssues(model, file.tensors)
  ELSE {<<"architecture.unrecognized", Global>>}

\* What the branch for the architecture finds; every one finds something.
ArchitectureIssues(model, file) ==
  LET a       == model.architecture
      decoder == DecoderIssues(model, file.tensors)
  IN  IF a \notin DOMAIN Profile THEN {<<"architecture.unrecognized", Global>>}
      ELSE IF Profile[a].hybrid /\ a = "lfm2"
        THEN HybridIssues(model, file.tensors) \cup {<<"executor.hybrid.graph_unwired", Global>>}
      ELSE IF Profile[a].moe THEN decoder \cup {<<"executor.moe.unwired", Global>>}
      ELSE IF a = "cpullm_tiny" THEN {<<"executor.cpullm_tiny.missing", Global>>}
      ELSE decoder \cup {<<"executor.transformer.graph_unwired", Global>>}

Issues(file) ==
  IF file.kind = "manifest" THEN {<<"model.not_gguf", Global>>}
  ELSE UNION {Unless(file.tokens, "tokenizer.missing", Global),
              Unless(file.merges, "tokenizer.merges_missing", Global),
              KernelIssues({file.dtype[t] : t \in file.tensors}),
              ArchitectureIssues(LoadGguf(file), file)}

BuildPlan(file) ==
  [recognized |-> file.architecture \in DOMAIN Profile,
   layers     |-> Load(file).blocks,
   issues     |-> Issues(file),
   runnable   |-> file.kind = "gguf" /\ Issues(file) = {}]
=============================================================================
