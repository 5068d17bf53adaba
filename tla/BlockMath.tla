------------------------------ MODULE BlockMath ------------------------------
(***************************************************************************)
(* What a decoder block computes: the attention part, one feed-forward     *)
(* network, and the experts a router selects.  The float kernels are       *)
(* uninterpreted operators, so whatever is shown of the executor holds     *)
(* for every rounding and every instruction set; a vector is whatever they *)
(* return.                                                                 *)
(*                                                                         *)
(* A weight vector is a record [id, size]; a LinearView is a record        *)
(* [id, rows, cols, size] (size: of its weight span); a block has the      *)
(* fields of DenseBlockWeights or MoeBlockWeights, with its kind.          *)
(***************************************************************************)
EXTENDS Integers, Sequences

CONSTANTS
  Zero,                \* a span filled with 0.0f
  Norm(_, _),          \* rms_norm(x, weight)
  Linear(_, _),        \* linear_f32(view, x)
  Rope(_, _),          \* rope_inplace(v, position)
  Attend(_, _, _),     \* causal_attention(q, k, v) over one token
  Add(_, _),           \* x[i] + q[i]
  SwiGlu(_, _),        \* silu_local(gate[i]) * up[i]
  AddScaled(_, _, _),  \* q[i] + weight * v[i]
  Logit(_, _, _),      \* element e of linear_f32(router, x)
  Share(_, _)          \* exp of the i-th of these logits over the sum of all

-----------------------------------------------------------------------------
(* The values. *)

Attention(b, x, position) ==
  LET n == Norm(x, b.attn_norm)
  IN  Add(x, Linear(b.o_proj, Attend(Rope(Linear(b.q_proj, n), position),
                                     Rope(Linear(b.k_proj, n), position),
                                     Linear(b.v_proj, n))))

\* e is a dense block or one expert of a MoE block.
FeedForward(e, n) ==
  Linear(e.down_proj, SwiGlu(Linear(e.gate_proj, n), Linear(e.up_proj, n)))

DenseOutput(b, x, position) ==
  LET h == Attention(b, x, position)
  IN  Add(h, FeedForward(b, Norm(h, b.ffn_norm)))

Injective(s) == \A i, j \in DOMAIN s : s[i] = s[j] => i = j

\* The k best of n experts, best first; equal logits come in any order.
TopK(score, n, k) ==
  {s \in [1 .. k -> 1 .. n] :
     /\ Injective(s)
     /\ \A i, j \in 1 .. k : i < j => score[s[i]] >= score[s[j]]
     /\ \A e \in 1 .. n : (\A i \in 1 .. k : s[i] # e)
                             => \A i \in 1 .. k : score[s[i]] >= score[e]}

\* What partial_sort may leave of 1 .. n, with its first k in order.
PartialSorts(score, n, k) ==
  {s \in [1 .. n -> 1 .. n] :
     /\ Injective(s)
     /\ \A e \in 1 .. n : \E i \in 1 .. n : s[i] = e
     /\ \A i \in 1 .. k, j \in 1 .. n : i < j => score[s[i]] >= score[s[j]]}

\* The experts of s with their weights: what route_topk returns.
Weighted(score, s) ==
  [i \in 1 .. Len(s) |->
     [index  |-> s[i],
      weight |-> Share([j \in 1 .. Len(s) |-> score[s[j]]], i)]]

-----------------------------------------------------------------------------
(* The shapes. *)

ValidLinear(l) == l.rows # 0 /\ l.cols # 0 /\ l.size = l.rows * l.cols

\* A matrix linear_f32 can apply to n elements to give m.
Maps(l, n, m) == ValidLinear(l) /\ l.cols = n /\ l.rows = m

AttentionFits(b, dim) ==
  /\ dim # 0
  /\ dim % 2 = 0                       \* rope_inplace turns pairs
  /\ b.attn_norm.size = dim
  /\ b.ffn_norm.size = dim
  /\ Maps(b.q_proj, dim, dim)
  /\ Maps(b.k_proj, dim, dim)
  /\ Maps(b.v_proj, dim, dim)
  /\ Maps(b.o_proj, dim, dim)

FeedForwardFits(e, dim) ==
  /\ Maps(e.gate_proj, dim, e.gate_proj.rows)
  /\ Maps(e.up_proj, dim, e.gate_proj.rows)
  /\ Maps(e.down_proj, e.gate_proj.rows, dim)

Smaller(a, b) == IF a < b THEN a ELSE b
Larger(a, b)  == IF a < b THEN b ELSE a

Chosen(b) == Smaller(b.top_k, b.router.rows)

RouterFits(b, dim) ==
  /\ Maps(b.router, dim, Len(b.experts))
  /\ Chosen(b) # 0

=============================================================================
