--------------------------------- MODULE Ops ---------------------------------
(***************************************************************************)
(* The operators of src/ops.cpp and the matrix product of src/matmul.cpp:  *)
(* which calls they accept, and what every output they compute reads, in   *)
(* the vocabulary of Quant.  Outputs of intermediate buffers come first,   *)
(* so a call that throws halfway has a prefix of them.                     *)
(***************************************************************************)
EXTENDS Quant, SequencesExt

\* What output y adds up after these steps of a loop, in order: a step adds
\* its term to the outputs in to.
Sums(steps, y) ==
  LET upTo[n \in 0 .. Len(steps)] ==
        IF n = 0 THEN <<>>
        ELSE IF y \in steps[n].to THEN Append(upTo[n - 1], steps[n].term) ELSE upTo[n - 1]
  IN  upTo[Len(steps)]

-----------------------------------------------------------------------------
(* matmul_f32 *)

BlockM == 4
BlockN == 8

\* The tiles of a column of steps, and the steps inside a tile.
Steps(n, block) == (n + block - 1) \div block

\* What a step multiplies, and adds to c[i * n + j].
Product(plan, i, j, k) ==
  <<At("a", i * plan.k + k),
    At("b", IF plan.transpose THEN j * plan.k + k ELSE k * plan.n + j)>>

Step(plan, i, j, k) == [to |-> {i * plan.n + j + 1}, term |-> Product(plan, i, j, k)]

\* Mutant of Tile: a tile at the right edge keeps its full width.
Tile_FullWidth(plan, ii, jj) ==
  LET h == Least(ii + BlockM, plan.m) - ii
      w == BlockN
  IN  [p \in 1 .. plan.k * (h * w) |->
         Step(plan, ii + (((p - 1) \div w) % h), jj + ((p - 1) % w), (p - 1) \div (h * w))]

\* The loops over kk, i and j of the tile at ii, jj.
Tile(plan, ii, jj) ==
  LET h == Least(ii + BlockM, plan.m) - ii
      w == Least(jj + BlockN, plan.n) - jj
  IN  [p \in 1 .. plan.k * (h * w) |->
         Step(plan, ii + (((p - 1) \div w) % h), jj + ((p - 1) % w), (p - 1) \div (h * w))]

\* Every step of the blocked loops, in order.
Visits(plan) ==
  LET across == Steps(plan.n, BlockN)
  IN  FlattenSeq([t \in 1 .. Steps(plan.m, BlockM) * across |->
                    Tile(plan, ((t - 1) \div across) * BlockM, ((t - 1) % across) * BlockN)])

MatmulAccepts(plan) == plan.m # 0 /\ plan.n # 0 /\ plan.k # 0

MatmulOutputs(plan) ==
  LET visits == Visits(plan)
  IN  [y \in 1 .. plan.m * plan.n |-> Sums(visits, y)]

-----------------------------------------------------------------------------
(* rms_norm, rope_inplace, causal_attention, short_convolution_1d *)

RmsNormAccepts(size) == size["x"] = size["weight"] /\ size["x"] = size["y"]

\* The sum of squares, then the outputs.
RmsNormOutputs(size) ==
  << [p \in 1 .. size["x"] |-> <<At("x", p - 1), At("x", p - 1)>>] >>
    \o [y \in 1 .. size["x"] |-> << <<At("x", y - 1), At("weight", y - 1)>> >>]

RopeAccepts(size, headDim) ==
  headDim # 0 /\ size["v"] % headDim = 0 /\ headDim % 2 = 0

\* The pairs rotated, in order: each element of a pair reads both.
Rotations(size, headDim) ==
  LET pairs == headDim \div 2
  IN  [p \in 1 .. (size["v"] \div headDim) * pairs |->
         LET first == ((p - 1) \div pairs) * headDim + 2 * ((p - 1) % pairs)
         IN  [to   |-> {first + 1, first + 2},
              term |-> <<At("v", first), At("v", first + 1)>>]]

RopeOutputs(size, headDim) ==
  LET turns == Rotations(size, headDim)
  IN  [y \in 1 .. size["v"] |-> Sums(turns, y)]

AttentionAccepts(size, past, headDim) ==
  /\ size["q"] = headDim /\ size["out"] = headDim
  /\ size["keys"] >= past * headDim /\ size["values"] >= past * headDim

\* The scores of the past tokens, then the outputs; none without a past.
AttentionOutputs(past, headDim) ==
  [t \in 1 .. past |->
     [p \in 1 .. headDim |-> <<At("q", p - 1), At("keys", (t - 1) * headDim + p - 1)>>]]
    \o [y \in 1 .. headDim |->
          [t \in 1 .. past |-> <<At("scores", t - 1), At("values", (t - 1) * headDim + y - 1)>>]]

ShortConvAccepts(size, channels, width) ==
  /\ size["current"] = channels /\ size["out"] = channels
  /\ size["kernel"] = channels * width
  /\ size["history"] >= channels * IF width > 0 THEN width - 1 ELSE 0

\* The tap on the current value is read before the loop over the others.
ShortConvOutputs(channels, width) ==
  [y \in 1 .. channels |->
     << <<At("current", y - 1), At("kernel", (y - 1) * width)>> >>
       \o [k \in 1 .. width - 1 |-> <<At("history", (k - 1) * channels + y - 1),
                                      At("kernel", (y - 1) * width + k)>>]]

-----------------------------------------------------------------------------
(* swiglu_mlp and logits_projection *)

RowMajorAccepts(size, w, x, y, rows, cols) ==
  size[w] = rows * cols /\ size[x] = cols /\ size[y] = rows

RowMajorOutputs(w, x, rows, cols) ==
  [y \in 1 .. rows |->
     [p \in 1 .. cols |-> <<At(w, (y - 1) * cols + p - 1), At(x, p - 1)>>]]

\* The products of swiglu_mlp in order, each with the condition to go on.
SwigluAccepts(size, dim, hidden) ==
  <<size["x"] = dim /\ size["hidden"] = hidden /\ size["out"] = dim,
    RowMajorAccepts(size, "gate_w", "x", "gate", hidden, dim),
    RowMajorAccepts(size, "up_w", "x", "up", hidden, dim),
    RowMajorAccepts(size, "down_w", "hidden", "out", dim, hidden)>>

SwigluStages(dim, hidden) ==
  << <<>>,
     RowMajorOutputs("gate_w", "x", hidden, dim),
     RowMajorOutputs("up_w", "x", hidden, dim)
       \o [y \in 1 .. hidden |-> << <<At("gate", y - 1), At("up", y - 1)>> >>],
     RowMajorOutputs("down_w", "hidden", dim, hidden)>>

\* What was computed before the first condition that does not hold.
SwigluOutputs(size, dim, hidden) ==
  LET accepts == SwigluAccepts(size, dim, hidden)
      stages  == SwigluStages(dim, hidden)
      reached(s) == IF \A t \in 1 .. s : accepts[t] THEN stages[s] ELSE <<>>
  IN  reached(2) \o reached(3) \o reached(4)
=============================================================================
