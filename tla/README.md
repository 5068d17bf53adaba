# TLA+ specifications of cpullm.cpp

cpullm.cpp is a CPU inference engine for language models: a memory-mapped GGUF
loader, a tokenizer, a planner that says whether a model can run, an inference
session with a KV cache, a sampler, a speculative decoding loop, decoder blocks
over a shared workspace, the numeric kernels they need, and a command line
program. This directory holds TLA+ models of those parts, the configurations
with which TLC checks them, and proofs, checked by TLAPS, of their safety
properties for every value of the constants. Paths are relative to the
repository's root.

## The system

| Component | State | Operations | Modules |
| --- | --- | --- | --- |
| Speculative decoding, `src/mtp.cpp` | the caller's context; statistics; the draft and the verifier's answer of a round | `speculative_greedy_decode`, `mtp_greedy_decode`, with draft, verify and accept callbacks | TargetModel, GreedyDecode, SpecDecode |
| Engine, session, KV cache, `src/engine.cpp`, `src/session.cpp` | slots used, why speculation is off; per call the hash, the sampler and the position | `generate`, `generate_stream` of both, construction, destruction | Session |
| Arena, `src/arena.cpp` | buffer, capacity and offset of an arena | construct, move, assign, `allocate`, `reset`, destroy | Arena |
| GGUF loader, `src/gguf.cpp` | descriptor, mapping, directory, validity of an `Impl`; the handle that owns it | `open`, `probe_gguf`, moves, `tensor_bytes`, `prefetch_tensors` | GgufLoader |
| Tokenizer, `src/tokenizer.cpp` | vocabulary, its two indices, merge ranks | construct, `encode` (merges or trie), `decode` | Tokenizer |
| Model and planner, `src/model.cpp`, `src/plan.cpp` | metadata; a plan with its issues | `Model::load`, `build_execution_plan` | Plan |
| Command line and residency, `apps/cpullm-cli.cpp`, `src/residency.cpp` | the options, the loaded model, the exit status | `parse_args`, `main`, `apply_residency_policy` | Cli |
| Block executors, `src/executor.cpp` | the workspace: four vectors, one cut in three, logits, indices | `execute_dense_block`, `execute_moe_block`, `route_topk` | BlockMath, Block, Executor |
| Quantized kernels, `src/quant.cpp` | none; tensors are mapped bytes | matrix-vector products by data type, `fp16_to_f32`, `quantize_q4_0` | Quant, Numeric |
| Numeric operations, `src/ops.cpp`, `src/matmul.cpp` | none | `rms_norm`, `rope_inplace`, `causal_attention`, `short_convolution_1d`, `swiglu_mlp`, `logits_projection`, `matmul_f32` | Ops, Numeric |
| Sampler, `src/sampler.cpp` | the generator | `sample` | Sampler, Numeric |
| Tensor store, llama.cpp API, CPU features, graph | see below | | not modelled |

How they interact. `main` parses the options, calls `Model::load` (which opens a
`GgufFile`), applies the residency policy (which prefetches its tensors), and
then either asks the planner or hands the model to an `Engine`. `Engine` refuses
every GGUF model through `greedy_decode_real` and gives every other one a
temporary `InferenceSession`. A client may also make an `InferenceSession` of its
own. Sessions and the speculative loop call back into client code, which may
stop them, throw, or call in again. The block
executors call the kernels over a workspace the caller keeps; nothing in the
repository joins them to a session yet. Nothing is shared between threads: there is
no lock, no queue and no persistent state in the code, so no module models
threads or crashes.

What is hard here, and what each component must get right:

* **Speculative decoding.** Callbacks may answer short, long or not at all, stop
  the loop in mid-round, or throw. Correct means: the tokens are exactly those of
  greedy decoding, the statistics account for them, the budget is kept, `accept`
  hears of each token, and the loop ends.
* **Sessions.** A callback can call into the session that is calling it. Correct
  means: what a call emits depends on its prompt alone, slots are never
  over-drawn, an unavailable speculation is reported with the true reason.
* **Arena.** Ownership moves between objects, and sums can wrap. Correct means:
  one owner, one free, blocks inside the buffer and apart from one another as long
  as no sum has wrapped.
* **Loader.** Every system call, read and check of `open` can fail; counts,
  offsets and alignment come from the file, and sums wrap. Correct means: nothing
  leaks, no access outside a live mapping, tensors that `open` looked at stay usable,
  and `open` returns.
* **Tokenizer.** Merging changes the pairs that are still to be merged; equal
  tokens have two ids. Correct means: the loops compute byte-level BPE and greedy
  longest match, they end, and representable text survives the round trip.
* **Executors.** One workspace serves blocks of different sizes: its vectors only
  grow, hold what earlier blocks left, are cut anew for each expert, and serve
  several purposes in one block. An expert of the wrong shape is found in the
  middle of the loop. Correct means: the output is what the block's definition
  says, whatever was left in the workspace, or a throw that left it alone.
* **Kernels.** Sizes are checked by each kernel on its own, the file's sizes are
  computed elsewhere, and weights are halves of bytes in blocks. Correct means:
  reads stay inside, each weight is read where the file keeps it, and conversions
  keep their numbers.
* **Sampler.** Sums of rounded probabilities miss 1, ties have no order. Correct
  means: the token is one of the nucleus and drawn as often as its weight says.
* **Planner and program.** Tensors can stand for each other; the planner and the
  engine decide apart from each other; options depend on their order. Correct
  means: no model is called runnable that generation refuses, removing a tensor
  hides no issue (but one of its own data type), and the exit status says what
  happened.

`PROJECT.json` lists the hazards one by one, with their lines and the properties
that cover them.

## Modules

* **TargetModel**: the model behind the verify callback, a function of the last
  `Window` tokens. It stands for code outside the repository.
* **GreedyDecode**: what a decode call promises. The context grows by greedy
  tokens, a completed call delivered all it owed, an aborted one left a correct
  prefix.
* **SpecDecode**: `speculative_greedy_decode`, one action per step of the loop:
  `Draft` (lines 18-24), `Verify` (26-30), `AcceptToken`, `RejectToken` (32-44),
  `BonusToken`, `EndRound` (46-51), `Notify` for the accept callback at each of
  its three places. It implements GreedyDecode by the mapping at its end:
  `owed` is what remains of the budget, stopped, failed and invalid calls are
  aborted ones.
* **Session**: calls form a stack of frames, because a callback may make a nested
  call. Session 0 is the client's, session d the temporary one `Engine` makes at
  depth d. The 64-bit rolling hash is idealised as the sequence of tokens it was
  computed from, and `Pick` is what logits and sampler make of it; collisions of
  the hash are therefore not modelled, and no property is about them.
* **Arena**: objects, buffers and blocks. The size of a buffer (line 14), alignment
  and sums (lines 47-49) are computed modulo `Word`. A buffer has an address, of
  which only the alignment matters: a multiple of `BaseAlign`, 64 in the code. The
  history variable `wrapped` holds the buffers that have answered a request of which
  a sum wrapped (`Wraps`). The caller's contract is assumed: an alignment is a power
  of two, and a block is not used after a reset. The branch without `_MSC_VER` is
  modelled; the other one differs in not rounding the size.
* **GgufLoader**: `open` in the phases open, fstat, mmap, header, metadata,
  tensors, bounds, any of which may throw. The content of an entry is chosen when
  it is read, so every file is a behaviour. A file that shrinks after it was
  mapped, and the Windows branch, are left out.
* **Tokenizer**: the two loops of `encode`, one action per step. The trie's
  nodes are the prefixes of the vocabulary.
* **BlockMath**: what a block computes, with the float kernels as uninterpreted
  operators, so that nothing depends on rounding; and the shapes that fit.
* **Block**: what a block call promises: it throws when the shapes are wrong and
  leaves the output alone, or writes the output of BlockMath once. A MoE block may
  choose any of equal experts.
* **Executor**: `executor.cpp` statement by statement: the check (`DenseCheck`,
  `MoeCheck`, `Fits`), `Reserve` (the resizes), one action for each kernel call,
  `RouteLogits` and `RouteSelect` for `route_topk`, `NextExpert` and `Accumulate`
  for the loop over experts, `Output`. A resize invalidates spans, and cutting
  `hidden` anew leaves nothing of use in it. Input and output may be the same
  span. It implements Block by the mapping at its end. Keys and values of earlier
  tokens are not in it because the code attends to the current token only.
* **Quant**, **Ops**: a kernel is the calls it accepts and, for each output, the
  sequence of terms it adds up with the reads of each: buffer, first byte or
  element, width, half of a byte. The sums themselves are left out. `Fp16ToF32`
  works on the fields of the two formats; of the unsigned exponent it keeps the
  nine bits that a shift by 23 leaves of 32. `Quantize` works on integers and a
  scale that is a fraction; a quotient near a tie goes either way. The values are
  thus multiples of a unit whose seventh a float holds: for a block of the smallest
  subnormals `amax / 7.0f` is 0 and divided by, which is not modelled.
* **Sampler**: top-k, top-p and the draw. Probabilities are multiples of `1 / Grid`,
  every division rounds down or up, `partial_sort` orders equal logits in any way,
  and the generator gives any number.
* **Numeric**, which extends these three: a client that makes one call at a time.
* **Plan**: `Model::load` and `build_execution_plan` as operators on a file's
  directory; `Registry` is the program's list of architectures. A tensor name is a
  layer and a part, each tensor has a data type, and an issue is a code and what it
  is about. The names of a file are taken to be distinct. Metadata numbers are
  narrowed to 32 bits (`Count`), and one beyond `unsigned long` makes `Model::load`
  throw (`Readable`).
* **Cli**, which extends Plan: `parse_args` chooses one word at a time, so every
  command line is a behaviour; then `main` in its order, to an exit status. One
  option stands for its aliases, and `-n` for all options that take a number.
* **MC\*** give TLC its instances, and **\*_proofs** hold the proofs.

## Runs

| Run | Shows | Bounds, and why they are enough |
| --- | --- | --- |
| spec_decode | lossless output, accounting, budget, accept callback, progress, refinement of GreedyDecode | two tokens and a target model that looks at the last two, so a wrong draft changes the later verdicts; drafts of up to 3 for a maximum of 2, so truncation happens; 3 tokens per call and a context of 4, so several rounds and several calls |
| session | reproducibility under nested calls, slots, fallback | KV floor 3 or a context of 4 with 2 tokens per call, so the cache runs out in the second call; depth 2 |
| arena | ownership, capacity and blocks, with and without wrapping sums | two objects and three buffers, so that an assignment frees one of two and one is left; a word of 16, a capacity of 6, whose buffer is rounded to 8, and one of 14, whose buffer is rounded to 0; requests of 0, 2 and 13, so padding occurs, requests fail and sums wrap; buffers aligned to 4 and to 8, alignments 1, 4 and 8; up to three blocks, so that a block lies between two others |
| gguf_loader | release, bounds, later use, `open` returns | two handles and two blocks; files of 0, 3 and 14 bytes, so a file is empty, cut or complete; entries whose offset or end wraps a word of 128; an alignment that 32 bits cut; a tensor of 0 bytes far outside; counts of 1 and 2 |
| tokenizer | both loops, round trip, termination | four bytes allow a merge chain of three and overlapping pairs; vocabularies with repeated and empty tokens; merge lists in and out of order |
| executor | refinement of Block, spans, indices | blocks of 2, 4 and 3 (odd) elements, hidden sizes 1 to 3, so that each vector grows and is then too large; two MoE blocks of 3 and 2 experts with ties, one of more experts chosen than there are; an expert that does not fit, reached before or after one that does was added; every check failing once; in place or not, in every order of calls. Kernels are terms, so two values are equal only if computed alike |
| numeric | reads, layout, tiles, conversions, sampling | columns at the edges of a block (0, 1, 2, 31, 32, 33, 64), buffers of the needed size and one less or more; products at the edges of a tile; all 65536 halves; every list of up to three values of 7, and lists of 31, 32, 33 and 65; up to three logits of three values, `top_k` beyond them, `top_p` on and off a sum, a temperature at which weights underflow to 0. Without rounding in between (a grid of 12 divides the common sums) draws are counted exactly |
| cli | options, what each exit status says, planner | command lines of four words, so that two valued options, or one and two positional words, meet; files of every branch of the planner, with each single tensor missing and every subset of those that replace each other, and tensors of each family of data types; no, one and two layers, counts that 32 bits cut and one that does not fit `unsigned long` (`UInt32` and `UInt64` are scaled down). `ManyFilesBound` follows only command lines of `--check` and positional words into the many files |

Runs that end in a violation show where a document and the code disagree. Each
checks the document's sentence, quoted with its place in `PROJECT.json`:

* session_gguf_never_synthetic: `docs/real_executor.md` excludes synthetic text for
  GGUF models; a session made without `Engine` emits it.
* gguf_advises_pages: `docs/universal_acceleration.md` promises prefetch advice;
  `madvise` refuses unaligned addresses.
* tokenizer_bytes: `docs/tokenizer_parity.md` says byte fallback keeps bytes
  representable; a byte without a token becomes id 0.
* cli_missing_tensors: `docs/architecture_registry.md` says missing tensor names
  are reported; counts are read under `lfm2.` only, so the layers of other
  architectures are not looked at.

Five more sentences of the documents differ from the code as it is modelled, each
in a way that one line of the model shows, so no run is spent on them:

* `docs/mtp.md:24` promises an error for MTP on a model without heads; the session
  falls back unless `strict` is set (`FallbackReason` and `ConstructorThrows` in
  Session, `src/session.cpp:43`). `docs/speculative_fallback.md` describes the code.
* `docs/speculative_fallback.md:11` promises normal decoding for a GGUF file without
  heads; `Engine` refuses every GGUF file (`EngineRefuses`, `src/engine.cpp:11`).
* `README.md:92` calls a session reusable generation state; its slots are never
  given back, so a session of capacity c emits c tokens in its life (`Sample`,
  `src/session.cpp:82`).
* `docs/gguf_loader.md:8` lists version validation; any version is accepted
  (`ReadHeader`, `src/gguf.cpp:253`).
* `docs/gguf_tensor_types.md:27` says Q5_0 and Q5_1 are reported as pending rather
  than unknown; the planner has no case for them (`KernelCode`, `src/plan.cpp:104`).

Deadlock is checked in every run but those of Cli, whose program exits. Model values
are symmetric in the runs that check invariants only.

Some properties hold in a form that names where the code stops short. No document
contradicts these; the properties state them exactly, so that more of the kind
would be a violation:

* `UsedWithinCapacity`: an arena made with one of the last 63 sizes of the word has
  a buffer smaller than its capacity, because rounding up wraps
  (`src/arena.cpp:14`).
* `BlocksApart`: once a request wraps, `allocate` may answer it with a block that
  overlaps an earlier one or leaves the buffer (line 49). Only the offset is
  aligned, so an alignment above 64 is that of the block's address only if the
  buffer happens to have it.
* `CheckedOnce`: `open` does not look at tensors of 0 bytes, an unknown type among
  them, so `tensor_bytes` may throw for one that starts outside the file
  (`src/gguf.cpp:295` and 338). `prefetch_tensors` skips them as `open` does.
* `IssuesGrow`: the issues about kernels are about the types of the tensors that are
  there, so taking away the only BF16 tensor takes away its issue.
* `ReadsInside` in Numeric: two calls are accepted although a buffer is too small
  (`Unchecked`), and read outside it. `matvec_gguf_any_f32` for f32 looks neither at
  `x.size()` nor at `cols` (`src/quant.cpp:204`), and `short_convolution_1d` allows a
  width of 0 (`src/ops.cpp:72`) and then reads the first tap of an empty kernel
  (line 74). No other call reads outside.
* `ProductsExact`: a mapped tensor is read a row at a time in whole blocks, while its
  size is computed for all elements together. If its columns are no multiple of 32
  and it has several rows, the product is refused, or, as for 31 columns and 2 rows
  of a four-bit type, the sizes happen to agree and the second row is read from the
  wrong place. In all other cases, and in those only, the product is right
  (`WholeRows`).
* `SampledFromNucleus`: the fall-back of the sampler is the last candidate, the least
  likely one, whose weight may have underflowed to 0; it is allowed there only.

## Fairness

All code runs on its caller's thread, without waiting for anything but its
callbacks. The fairness assumed is weak fairness of the steps of a call in
progress (`Work` in SpecDecode, Session and Tokenizer, `Opening` in GgufLoader): a
call that can take a step takes one, and a callback answers. Cli assumes none,
since `main` is a straight line behind a loop over the arguments. It is never assumed that a client makes a
call. Which answer a callback gives, and which entry a file holds, is free, so
termination never rests on a fortunate choice.

## Proofs

Every invariant and every action property of the runs is stated by a theorem, for
every value of the constants that satisfies the assumptions of the module, which
TLC evaluates in the runs. For an invariant the argument is always the same: a
strengthened invariant `IInv` holds initially and is kept by each action, one
lemma for each action or group of actions of the same kind, and implies the
property. An action property follows from `IInv` and the action. Two action
properties more are proved that no run checks: `OpenAdvances` and
`EncodeAdvances`, stated beside their proofs.

The definitions that loops are compared with are recursive functions. What such a
function computes is proved by induction over a set, `SetInduction`: a set of
numbers that were a counterexample would have a least element. A lemma first shows
that the function exists, then that it satisfies its equation.

* **SpecDecode_proofs.** `IInv` adds to the properties: the shape of a round
  (which locals are meaningful at which point); `VerdictAhead`, that between
  verify and the end of a round the rest of the answer is the greedy
  continuation of the context as it is now, as long as the drafts matched;
  and what rounds have contributed to the statistics so far. Without
  `VerdictAhead` neither an accepted draft nor a bonus token can be shown to be
  greedy, because the answer was computed for an older context. `Refinement`
  shows that every step is one of GreedyDecode or a stutter, and `AcceptHearsAll`
  is proved from an invariant of its own, with a lemma on the cardinality of the
  set of drafted tokens.
* **Arena_proofs.** Nothing is assumed of sizes but that they fit the word, so sums
  wrap in the proofs as they do in the code. `Within` shows where the rounded size
  of a buffer falls below the capacity: in the last `BaseAlign - 1` sizes and
  nowhere else. For `Disjoint` the invariant adds, for buffers that are not in
  `wrapped`, that the blocks of an arena end at or before its offset and start at
  multiples of their alignment.
* **GgufLoader_proofs.** `IInv` adds the shape of the call in progress (what exists
  in which phase) and that a valid file satisfies the bounds check for every tensor
  that `open` looks at, which is why for these the checks repeated later never fail. The 64-bit wrap is in the proof: the check
  `start <= size /\ bytes <= size - start` is safe for every word. `OpenMovesOn`
  needs that an entry is not empty, as each begins with a length of its name.
* **Executor_proofs.** `Safe` and `Known` are inductive together. `Known` says, for
  every statement, what each vector of the workspace holds as a term over the
  input and the block (`Contents`), which shapes have been checked by then
  (`Shapes`), and what the router chose (`Routing`); vectors that hold nothing of
  use are not mentioned, which is why no statement can have used what an earlier
  block left. A step outside `Output` and `Throw` is a stutter of Block; `Output`
  writes what `Known` says. Nothing is assumed of the kernels, and the calls may
  be any set.
* **Session_proofs.** Nothing is assumed of the logits and the sampler except that
  they give token ids (`PickTyped`), and nesting is as deep as the constant says.
  `IInv` adds: `FramesSound`, that a call's hash is that of its prompt and of what it
  has emitted, and that its index and its draws have advanced with it, which is what
  makes each id a function of the prompt; `Owned`, that a session made for a depth
  lives as long as the call at that depth and has paid for exactly its tokens, so
  ending one call never takes another's session away; and `Paid`, that the pairs
  (call, token) on the client's session are a finite set no larger than the slots
  used. Each token adds one pair, ending a call only removes pairs, and destroying
  the session needs an empty stack.
* **Cli_proofs.** `Staged` says what is known at which stage: what was printed,
  planned or generated when the program exits. Every branch of the
  planner finds an issue (`ArchitectureIssuesNonempty`), so a plan is never
  runnable. `NoMock` therefore holds in the strongest way, with no runnable plan
  at all; the theorem fails as soon as a branch stops reporting. `Parsed` is the
  invariant of the command line: `Declared` and `ModeIs` name the last
  `--spec-type` and relate it to the mode, which a step that reads a value keeps by
  cases on the option. `IssuesOnlyGrow` rests on `IssuesAntitone`, one lemma for
  each level of the planner, down to a condition that is harder to meet; the types of
  fewer tensors are those of the rest.
* **Tokenizer_proofs.** That `encode` returns ids of the vocabulary only needs
  `WalkSound`: the trie node is the text from the position on and the longest
  match so far a token, so the id that is appended exists. The least rank and the
  least position that a merge takes exist because numbers are well founded.
  * `TrieIsGreedy` adds `Tested`, that no part of the node longer than the best match
    is a token. A token longer than the node would have let the walk go on
    (`TokenIsWalked`), so where it ends the best match is the longest that fits.
  * `LoopIsBPE` is about merge lists that are `WellOrdered`. The invariant is that
    the pieces, with all merges applied in their order, become what the text does.
    Merging one pair of least rank keeps that: merges of lower rank find nothing to
    do before or after it, since what it joins cannot occur in them, and its own
    merge, applied from the left, passes the leftmost pair first. When no pair is
    left the merges change nothing.
  * `TextComesBack` follows what ids and pieces spell: `decode` of the ids so far
    and the rest of the text, or of the pieces, is the text.
  * `EncodeNeverLoops` gives, for each loop, what gets less with every step: the
    number of pieces, or the distance to the end.
* **Numeric_proofs.** `KernelsReadInside` assumes only that sizes are numbers: a
  kernel that accepts its buffers, whatever their sizes, makes reads of the set
  `Inner` alone. The arithmetic is in `RowFits`, `IndexFits` and `BlocksCover`: row
  `i` of `m` rows ends within them, and a column falls in a block of its row. For
  `swiglu_mlp` each product is shown separately, since it may throw between two.
  Of the calls of `Unchecked` one read outside is shown in each (`ReadOutside`).
  * `ProductsKept`. A nest of loops is a sequence of steps; `Sums` picks the terms a
    step adds to one output. The sum over a sequence of loops is that of the one
    loop that adds to the output (the tiles that do not hold it add nothing), and
    within its tile the `k`-th round adds the `k`-th term, at one step. For a mapped
    tensor each element is computed from its number in the row, block and place in
    the block, and compared with what the file's layout says.
  * `NumbersKept`. By induction over the rounds of the loop a subnormal half has been
    doubled once for each that the exponent was lowered (`OneRound`), and after
    the last its leading bit is in place; nine bits of the exponent are enough for
    the decrement below zero to come back. A quantized value is rounded
    to within half a step of the scale, because the greatest magnitude is seven
    steps; odd and even nibbles of a byte are unpacked apart.
  * `SamplerDrawsFromNucleus`. Each share is rounded by less than 1, so a total of
    `n` shares is off by less than `n`, which bounds what the cut at `top_p` keeps.
    Two partial sorts of the same logits have the same weights, place by place,
    by counting: were one smaller, more candidates would be above it than there are
    places. The numbers `u` that draw a candidate are an interval, which is as long
    as its share but for the one `u` that a comparison with `<=` moves. Of the
    exponential it is assumed that it is positive at 0 and not greater for less,
    and of the grid that it has a place for every candidate (`WeightsAssumption`).

Only model-checked: liveness (`CallReturns`, `CallsReturn`, `OpenReturns`,
`EncodeReturns`) and with it the fairness part of the refinement of
GreedyDecode, since fairness and ENABLED are beyond the prover. `EveryRoundAdvances`,
`OpenAdvances` and `EncodeAdvances`, which are proved, are what the first, third
and fourth rest on.

## Not modelled

* Floating-point sums, roots and exponentials in `src/ops.cpp`, `src/quant.cpp` and
  `src/executor.cpp`: out of TLC's reach. What they are applied to, and in which
  order, is modelled. `softmax_inplace` is part of it; its throw needs a sum of 0,
  which the term of the greatest value excludes.
* Which half of which byte holds a weight of four bits: the code and its tests take
  them in turn, and the repository has no other description of the format to
  compare it with.
* NaN and infinite logits, kernel sizes near the range of `size_t`, and a scale of
  `quantize_q4_0` that underflows to 0.
* `src/tensor.cpp`: a list with a linear search. All finds of a thread share one
  view, but nothing in the repository uses what `find` returns, so no property
  could be about it.
* `src/llama_compat.cpp`: stubs that allocate and free handles; nothing is read
  through them.
* `src/cpu.cpp`, `src/graph.cpp`: no behaviour beyond reading registers and
  appending names.
* `KVCache::reset`: nothing can call it on the cache of a session.
* Parsing of manifests, the search for the digits of a number in metadata, report
  formatting and logging: data that no property tells apart. Memory exhaustion is modelled only where the
  code handles it (Arena).
* Lifetime of the `Model` a session refers to: a caller's duty.

## Plan

The order follows the weight of the behaviour. Done: TargetModel, GreedyDecode and
SpecDecode with the refinement and all safety proofs; Session, Arena and
GgufLoader with proofs; Tokenizer, Plan and Cli with proofs; Executor with its
refinement, proved; Quant, Ops and Sampler with proofs. All invariants and action
properties are proved.

Left: a composition of Cli with GgufLoader, where loading, prefetching and closing
meet the program's exits.
