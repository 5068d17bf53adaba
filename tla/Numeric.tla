------------------------------- MODULE Numeric -------------------------------
(***************************************************************************)
(* Clients of the numeric code: one call at a time of a kernel, of a       *)
(* conversion or of the sampler, for any of the given arguments.           *)
(***************************************************************************)
EXTENDS Quant, Ops, Sampler

CONSTANTS
  Cols, Rows,      \* columns and rows of quantized matrices
  Plans,           \* plans of matmul_f32
  Dims,            \* sizes of vectors, heads, pasts, channels, widths
  Slack,           \* by how much buffers differ from the size they should have
  Halves,          \* bit patterns of halves
  ValueLists,      \* lists of values to quantize
  LogitLists, TopKs, TopPs, Temperatures

ASSUME SizesAssumption == Cols \cup Rows \cup Dims \subseteq Nat /\ Slack \subseteq Int
ASSUME PlansAssumption == Plans \subseteq [m : Nat, n : Nat, k : Nat, transpose : BOOLEAN]
ASSUME NumbersAssumption == Halves \subseteq 0 .. 2 ^ 16 - 1 /\ ValueLists \subseteq Seq(Int)

ASSUME LogitsAssumption ==
  LogitLists \subseteq Seq(Int) /\ TopKs \subseteq Nat /\ TopPs \subseteq Int

\* How far one logit may be below another.
Distances ==
  Nat \cap UNION {{logits[i] - logits[j] : i, j \in DOMAIN logits} : logits \in LogitLists}

\* exp(0) is positive, and the exponential of less is not more; and the grid has
\* a place for every candidate, as floats have.
ASSUME WeightsAssumption ==
  /\ \A t \in Temperatures \ {0} :
       /\ Weight(0, t) \in Nat \ {0}
       /\ \A d \in Distances : Weight(d, t) \in 0 .. Weight(0, t)
  /\ \A logits \in LogitLists : Len(logits) <= Grid

VARIABLE call  \* the last call: operation, arguments, how it ended, its result

vars == <<call>>

Idle == [op |-> "idle"]

Init == call = Idle

\* Buffers of about the needed sizes.
Sizes(needed) ==
  {size \in {[b \in DOMAIN needed |-> needed[b] + slack[b]] : slack \in [DOMAIN needed -> Slack]} :
     \A b \in DOMAIN needed : size[b] >= 0}

\* A call of a kernel that computes these outputs, or throws after them.
Kernel(op, args, size, accepted, outputs) ==
  call' = [op |-> op, args |-> args, size |-> size,
           verdict |-> IF accepted THEN "done" ELSE "throw", outputs |-> outputs]

\* A kernel that checks everything before its first step.
Checked(op, args, size, accepted, outputs) ==
  Kernel(op, args, size, accepted, IF accepted THEN outputs ELSE <<>>)

-----------------------------------------------------------------------------

\* matvec_gguf_any_f32, for buffers of about the size of the tensor.
MatvecGguf ==
  \E dtype \in Dispatched, cols \in Cols, rows \in Rows :
    \E size \in Sizes([rows |-> TensorBytes(dtype, rows * cols), x |-> cols, y |-> rows]) :
      Checked("matvec", [dtype |-> dtype, cols |-> cols, rows |-> rows], size,
              MatvecAccepts(dtype, size, cols), MatvecOutputs(dtype, size, cols))

\* What the library says of a type: dtype_size, dtype_has_low_ram_matvec, and
\* whether matvec_gguf_any_f32 returns true.
Describe ==
  \E dtype \in DataType :
    call' = [op |-> "describe", dtype |-> dtype, bytes |-> DtypeSize[dtype],
             lowRam |-> dtype \in LowRam, dispatched |-> dtype \in Dispatched]

MatvecQ4 ==
  \E cols \in Cols, rows \in Rows :
    \E size \in Sizes([blocks |-> rows * Blocks(cols), x |-> cols, y |-> rows]) :
      Checked("matvec_q4", [cols |-> cols], size,
              MatvecQ4Accepts(size, cols), MatvecQ4Outputs(size, cols))

\* The caller's arrays have the sizes of the plan.
MatmulF32 ==
  \E plan \in Plans :
    Checked("matmul", plan, [a |-> plan.m * plan.k, b |-> plan.k * plan.n],
            MatmulAccepts(plan), MatmulOutputs(plan))

RmsNorm ==
  \E n \in Dims : \E size \in Sizes([x |-> n, weight |-> n, y |-> n]) :
    Checked("rms_norm", [dim |-> n], size, RmsNormAccepts(size), RmsNormOutputs(size))

RopeInplace ==
  \E heads, headDim \in Dims : \E size \in Sizes([v |-> heads * headDim]) :
    Checked("rope", [headDim |-> headDim], size, RopeAccepts(size, headDim),
            RopeOutputs(size, headDim))

CausalAttention ==
  \E past, headDim \in Dims :
    \E size \in Sizes([q |-> headDim, keys |-> past * headDim,
                       values |-> past * headDim, out |-> headDim]) :
      Checked("attention", [past |-> past, headDim |-> headDim],
              [b \in DOMAIN size \cup {"scores"} |-> IF b = "scores" THEN past ELSE size[b]],
              AttentionAccepts(size, past, headDim), AttentionOutputs(past, headDim))

ShortConvolution ==
  \E channels, width \in Dims :
    \E size \in Sizes([current |-> channels, out |-> channels, kernel |-> channels * width,
                       history |-> channels * width - channels]) :
      Checked("short_conv", [channels |-> channels, width |-> width], size,
              ShortConvAccepts(size, channels, width), ShortConvOutputs(channels, width))

\* The buffers gate and up are the function's own.
SwigluMlp ==
  \E dim, hidden \in Dims :
    \E given \in Sizes([x |-> dim, gate_w |-> hidden * dim, up_w |-> hidden * dim,
                        down_w |-> dim * hidden, hidden |-> hidden, out |-> dim]) :
      LET size == [b \in DOMAIN given \cup {"gate", "up"} |->
                     IF b \in {"gate", "up"} THEN hidden ELSE given[b]]
          accepts == SwigluAccepts(size, dim, hidden)
      IN  Kernel("swiglu", [dim |-> dim, hidden |-> hidden], size,
                 \A s \in DOMAIN accepts : accepts[s], SwigluOutputs(size, dim, hidden))

LogitsProjection ==
  \E vocab, dim \in Dims :
    \E size \in Sizes([w |-> vocab * dim, x |-> dim, logits |-> vocab]) :
      Checked("logits", [vocab |-> vocab, dim |-> dim], size,
              RowMajorAccepts(size, "w", "x", "logits", vocab, dim),
              RowMajorOutputs("w", "x", vocab, dim))

Convert ==
  \E h \in Halves : call' = [op |-> "half", half |-> h, float |-> Fp16ToF32(h)]

QuantizeQ4 ==
  \E values \in ValueLists, tie \in {"down", "up"} :
    call' = [op |-> "quantize", values |-> values, blocks |-> Quantize(values, tie)]

\* What a call of the sampler was given, and what it chose from and drew.  For
\* no logits it throws, here with the token 0.
Sampled(logits, topK, topP, temperature, ids, probs, token) ==
  call' = [op |-> "sample", logits |-> logits, topK |-> topK, topP |-> topP,
           temperature |-> temperature, ids |-> ids, probs |-> probs, token |-> token]

Sample ==
  \E logits \in LogitLists, topK \in TopKs, topP \in TopPs, temperature \in Temperatures :
    \/ /\ logits = <<>>
       /\ Sampled(logits, topK, topP, temperature, <<>>, <<>>, 0)
    \/ /\ logits # <<>>
       /\ temperature = 0
       /\ Sampled(logits, topK, topP, temperature, <<>>, <<>>, Greedy(logits))
    \/ /\ logits # <<>>
       /\ temperature # 0
       /\ \E ids \in PartialSorts(Candidates(topK, logits), logits) :
            \E probs \in Shares(Weights(ids, logits, temperature)) :
              \E final \in Renormalised(probs, topP), u \in 0 .. Grid - 1 :
                Sampled(logits, topK, topP, temperature, SubSeq(ids, 1, Len(final)),
                        final, ids[Drawn(final, u)])

Return == call' = Idle

Next ==
  \/ /\ call = Idle
     /\ \/ MatvecGguf \/ Describe \/ MatvecQ4 \/ MatmulF32 \/ RmsNorm \/ RopeInplace
        \/ CausalAttention \/ ShortConvolution \/ SwigluMlp \/ LogitsProjection
        \/ Convert \/ QuantizeQ4 \/ Sample
  \/ call # Idle /\ Return

Spec == Init /\ [][Next]_vars

-----------------------------------------------------------------------------
(* What the calls promise. *)

HasReads == "outputs" \in DOMAIN call

AllReads ==
  UNION {UNION {{call.outputs[y][p][r] : r \in DOMAIN call.outputs[y][p]} :
                  p \in DOMAIN call.outputs[y]} : y \in DOMAIN call.outputs}

InItsBuffer(read) == read[2] >= 0 /\ read[2] + read[3] <= call.size[read[1]]

\* The two calls that are accepted although a buffer is too small: an f32
\* product does not look at x, and a convolution of width 0 has no kernel but
\* reads its first tap.
Unchecked ==
  /\ call.verdict = "done"
  /\ \/ /\ call.op = "matvec" /\ call.args.dtype = "f32"
        /\ call.size["x"] < call.args.cols /\ call.size["y"] # 0
     \/ call.op = "short_conv" /\ call.args.width = 0 /\ call.args.channels # 0

\* A kernel reads outside the buffers it was given, whatever sizes they have and
\* also when it throws halfway, in the two calls above and in no other.
ReadsInside ==
  HasReads => ((\A read \in AllReads : InItsBuffer(read)) <=> ~Unchecked)

\* Element e of a tensor by the sizes of the file format: blocks one after the
\* other, each with its header before its weights.  The loader does not say
\* which half of which byte holds a four-bit weight.
OfItsBlock(dtype, e, reads) ==
  LET block  == TensorBlock[dtype]
      start  == (e \div block.elements) * block.bytes
      header == block.bytes - IF dtype = "q8_0" THEN 32 ELSE 16
  IN  IF block.elements = 1 THEN reads = << <<"rows", start, block.bytes, "whole">> >>
      ELSE /\ reads[1] = <<"rows", start, header, "whole">>
           /\ reads[2][2] \in start + header .. start + block.bytes - 1

\* The buffers have the sizes the loader computes for a tensor.
IsTensor ==
  LET a == call.args
  IN  /\ a.cols # 0
      /\ call.size = [rows |-> TensorBytes(a.dtype, a.rows * a.cols),
                      x |-> a.cols, y |-> a.rows]

\* Every row has whole blocks, or there is no second row.
WholeRows ==
  LET a == call.args IN a.cols % TensorBlock[a.dtype].elements = 0 \/ a.rows <= 1

\* The product with a tensor is accepted, and row r of it adds up, for every
\* column c in order, x[c] times element r * cols + c, read from the block the
\* file keeps it in and from a place of its own.
TensorProduct ==
  LET a == call.args
      terms == (1 .. a.rows) \X (1 .. a.cols)
      reads(t) == SubSeq(call.outputs[t[1]][t[2]], 1, Len(call.outputs[t[1]][t[2]]) - 1)
  IN  /\ call.verdict = "done"
      /\ DOMAIN call.outputs = 1 .. a.rows
      /\ \A y \in 1 .. a.rows : DOMAIN call.outputs[y] = 1 .. a.cols
      /\ \A t \in terms : /\ OfItsBlock(a.dtype, (t[1] - 1) * a.cols + t[2] - 1, reads(t))
                          /\ Last(call.outputs[t[1]][t[2]]) = At("x", t[2] - 1)
      /\ Cardinality({reads(t) : t \in terms}) = a.rows * a.cols

\* Each output of the tiled product adds every product of its row and column
\* once, in ascending order.
TiledProduct ==
  LET plan == call.args
  IN  call.outputs =
        [y \in 1 .. plan.m * plan.n |-> [p \in 1 .. plan.k |->
           Product(plan, (y - 1) \div plan.n, (y - 1) % plan.n, p - 1)]]

\* Every element is turned once, together with its neighbour.
Rotated ==
  call.outputs =
    [y \in 1 .. call.size["v"] |->
       LET even == ((y - 1) \div 2) * 2 IN << <<At("v", even), At("v", even + 1)>> >>]

\* The kernels visit what they should: a mapped tensor where its file keeps it,
\* exactly if its rows have whole blocks or it has one row at most (others are
\* refused, or read from the second row on in the wrong place); a tiled product
\* like a plain one; a rotation pair by pair; and the two tables of sizes, and
\* the two lists of types with a kernel, agree.
ProductsExact ==
  /\ call.op = "matvec" /\ IsTensor => (TensorProduct <=> WholeRows)
  /\ call.op = "matmul" /\ call.verdict = "done" => TiledProduct
  /\ call.op = "rope" /\ call.verdict = "done" => Rotated
  /\ call.op = "describe" =>
       /\ call.bytes = TensorBytes(call.dtype, TensorBlock[call.dtype].elements)
       /\ call.lowRam = call.dispatched

-----------------------------------------------------------------------------

\* A float is the half it was converted from: the same sign; infinite or not a
\* number only when that was; otherwise the same significand and scale.
HalfExact(h, float) ==
  LET exp  == (h \div 1024) % 32
      mant == h % 1024
      significand == IF exp = 0 THEN mant ELSE 1024 + mant
      scale == IF exp = 0 THEN -24 ELSE exp - 25  \* powers of two
  IN  /\ float.sign = h \div 32768
      /\ exp = 31 => float.exp = 255 /\ float.mant = mant * 8192
      /\ exp # 31 /\ significand = 0 => float.exp = 0 /\ float.mant = 0
      /\ exp # 31 /\ significand # 0 =>
           /\ float.exp \in 1 .. 254
           /\ scale - (float.exp - 150) \in 0 .. 23
           /\ significand * 2 ^ (scale - (float.exp - 150)) = 8388608 + float.mant

\* Unpacked again, a weight is within half a step of its value, and beyond the
\* values it is 0.
QuantizedClosely(values, blocks) ==
  /\ Len(blocks) = Blocks(Len(values))
  /\ \A b \in DOMAIN blocks, i \in 0 .. 31 :
       LET e == (b - 1) * 32 + i
           q == Unpacked(blocks[b].packed, i)
           scale == blocks[b].scale
       IN  IF e < Len(values)
             THEN 2 * Magnitude(q * scale.num - values[e + 1] * scale.den) <= scale.num
             ELSE q = 0

\* Conversion and quantization keep the numbers they are given.
NumbersExact ==
  /\ call.op = "half" => HalfExact(call.half, call.float)
  /\ call.op = "quantize" => QuantizedClosely(call.values, call.blocks)

-----------------------------------------------------------------------------
(* Sampling. *)

\* The candidates are those of greatest logits, at most top_k of them.
FromTheTop ==
  LET chosen == Range(call.ids)
  IN  /\ Cardinality(chosen) = Len(call.ids)
      /\ call.topK # 0 => Len(call.ids) <= call.topK
      /\ \A t \in chosen, o \in DOMAIN call.logits \ chosen :
           call.logits[o] <= call.logits[t]

\* The weights of the candidates kept, and of all that the cut was made from.
KeptWeights == Weights(call.ids, call.logits, call.temperature)

PoolWeights ==
  LET pool == CHOOSE ids \in PartialSorts(Candidates(call.topK, call.logits), call.logits) :
                SubSeq(ids, 1, Len(call.ids)) = call.ids
  IN  Weights(pool, call.logits, call.temperature)

\* All but the last of the candidates kept are not enough for top_p, and all of
\* them are, up to the rounding of each; a top_p of 1 or more cuts nothing.
CutAtTopP ==
  LET n == Len(call.ids)
      k == Candidates(call.topK, call.logits)
      w == KeptWeights
  IN  /\ call.topP < Grid =>
           /\ n > 1 => Total(SubSeq(w, 1, n - 1)) * Grid < (call.topP + n) * Total(PoolWeights)
           /\ n = k \/ Total(w) * Grid > (call.topP - n) * Total(PoolWeights)
      /\ call.topP >= Grid => n = k

\* How often each candidate is drawn, over all u.
Times(i) == Cardinality({u \in 0 .. Grid - 1 : Drawn(call.probs, u) = i})

\* No rounding was needed for these candidates.
Even(ws) == \A i \in DOMAIN ws : (ws[i] * Grid) % Total(ws) = 0

\* Where nothing is rounded, each is drawn as often as its weight says, but for
\* the one u that a comparison with <= moves; and a token of weight 0 is drawn
\* only as the last.
DrawnByWeight ==
  LET w == KeptWeights
      n == Len(call.ids)
  IN  /\ Even(PoolWeights) /\ Even(w) =>
           \A i \in 1 .. n : Magnitude(Times(i) * Total(w) - w[i] * Grid) <= Total(w)
      /\ \A i \in 1 .. n : call.ids[i] = call.token /\ w[i] = 0 => i = n

\* The token is the first of greatest logit.
DrawnGreedily ==
  /\ \A t \in DOMAIN call.logits : call.logits[t] <= call.logits[call.token]
  /\ \A t \in 1 .. call.token - 1 : call.logits[t] < call.logits[call.token]

\* A draw follows nucleus sampling: one of the candidates, which are of the
\* greatest logits, cut where top_p says, and drawn by their weights.
SampledFromNucleus ==
  call.op = "sample" /\ call.logits # <<>> =>
    IF call.temperature = 0 THEN DrawnGreedily
    ELSE call.token \in Range(call.ids) /\ FromTheTop /\ CutAtTopP /\ DrawnByWeight
=============================================================================
