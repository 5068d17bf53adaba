------------------------------ MODULE Executor ------------------------------
(***************************************************************************)
(* execute_dense_block, execute_moe_block and route_topk of                *)
(* src/executor.cpp, one statement per step, over the ExecutorWorkspace    *)
(* that the caller keeps from block to block.  Its vectors only grow, hold *)
(* what earlier blocks left, and are used several times in one block: a is *)
(* normed, attn and ffn_in; b is q, the projection and the sum of experts; *)
(* c is k and then the residual stream; d is v and an expert's output;     *)
(* hidden is cut into gate, up and act at offsets that depend on the       *)
(* block.  Statements work through spans, taken of a vector once and       *)
(* invalid when the vector is resized.                                     *)
(***************************************************************************)
EXTENDS BlockMath

CONSTANTS
  Calls,      \* [block, dim, ySize, position, inPlace]: calls that are made
  Inputs,     \* vectors a caller may pass
  Untouched,  \* what the output span holds before the call
  None        \* no value

ASSUME CallsAssumption ==
  \A c \in Calls :
    /\ c.dim \in Nat /\ c.ySize \in Nat /\ c.inPlace \in BOOLEAN
    /\ c.block.kind \in {"dense", "moe"}
    /\ c.block.kind = "dense" =>
         c.block.gate_proj.rows \in Nat
    /\ c.block.kind = "moe" =>
         /\ c.block.top_k \in Nat /\ c.block.router.rows \in Nat
         /\ Len(c.block.experts) \in Nat
         /\ \A i \in 1 .. Len(c.block.experts) :
              c.block.experts[i].gate_proj.rows \in Nat

VARIABLES
  pc,         \* "idle" between calls, else the statement the call is at
  call,       \* the arguments
  x, y,       \* contents of the input and of the output span
  ws,         \* contents of the workspace: a, b, c, d, and hidden's parts
  size,       \* sizes of the vectors a, b, c, d and hidden
  spans,      \* vectors of which the call holds valid spans
  logits,     \* ws.logits
  indices,    \* ws.indices
  selected,   \* the experts route_topk returned
  done,       \* experts accumulated so far
  result      \* how the last call ended; "none" while one runs

vars == <<pc, call, x, y, ws, size, spans, logits, indices, selected, done,
          result>>

Rows  == {"a", "b", "c", "d"}          \* the vectors of dim elements
Parts == {"gate", "up", "act"}         \* the parts of hidden
PCs   == {"idle", "check", "attn_norm", "q_proj", "k_proj", "v_proj", "rope_q",
          "rope_k", "attention", "o_proj", "residual", "ffn_norm", "route",
          "select", "fill", "expert", "gate_proj", "up_proj", "silu",
          "down_proj", "accumulate", "output"}

b       == call.block
Dim     == call.dim
IsDense == b.kind = "dense"

\* The network the feed-forward statements run: the block's own, or that of
\* the expert the loop is at.
Net    == IF IsDense THEN b ELSE b.experts[selected[done + 1].index]
Hidden == Net.gate_proj.rows

Init ==
  /\ pc = "idle" /\ call = None
  /\ x = None /\ y = None
  /\ ws = [v \in Rows \cup Parts |-> None]
  /\ size = [v \in Rows \cup {"hidden"} |-> 0]
  /\ spans = {}
  /\ logits = <<>> /\ indices = <<>>
  /\ selected = <<>> /\ done = 0
  /\ result = "none"

\* Mutant of Begin: the index of the loop over experts outlives its call.
Begin_LoopIndexKept(c, v) ==
  /\ pc = "idle"
  /\ pc' = "check"
  /\ call' = c
  /\ x' = v
  /\ y' = IF c.inPlace THEN v ELSE Untouched
  /\ spans' = {} /\ selected' = <<>>
  /\ result' = "none"
  /\ UNCHANGED <<ws, size, logits, indices, done>>

Begin(c, v) ==
  /\ pc = "idle"
  /\ pc' = "check"
  /\ call' = c
  /\ x' = v
  /\ y' = IF c.inPlace THEN v ELSE Untouched
  /\ spans' = {} /\ selected' = <<>> /\ done' = 0
  /\ result' = "none"
  /\ UNCHANGED <<ws, size, logits, indices>>

-----------------------------------------------------------------------------
(* Shape checks: those made before anything is computed, and the one each  *)
(* kernel makes.                                                           *)

DenseCheck ==
  /\ Dim # 0 /\ call.ySize = Dim
  /\ b.attn_norm.size = Dim /\ b.ffn_norm.size = Dim
  /\ \A l \in {b.q_proj, b.k_proj, b.v_proj, b.o_proj} :
       ValidLinear(l) /\ l.rows = Dim /\ l.cols = Dim
  /\ \A l \in {b.gate_proj, b.up_proj, b.down_proj} : ValidLinear(l)
  /\ b.up_proj.rows = b.gate_proj.rows
  /\ b.down_proj.rows = Dim /\ b.down_proj.cols = b.gate_proj.rows
  /\ b.gate_proj.cols = Dim /\ b.up_proj.cols = Dim

MoeCheck ==
  /\ Dim # 0 /\ call.ySize = Dim
  /\ Len(b.experts) # 0
  /\ \A l \in {b.q_proj, b.k_proj, b.v_proj, b.o_proj, b.router} : ValidLinear(l)
  /\ b.router.cols = Dim /\ b.router.rows = Len(b.experts)

\* Does the statement the call is at accept its arguments?
Fits ==
  /\ pc = "check"     => IF IsDense THEN DenseCheck ELSE MoeCheck
  /\ pc = "attn_norm" => b.attn_norm.size = Dim
  /\ pc = "q_proj"    => Maps(b.q_proj, Dim, Dim)
  /\ pc = "k_proj"    => Maps(b.k_proj, Dim, Dim)
  /\ pc = "v_proj"    => Maps(b.v_proj, Dim, Dim)
  /\ pc \in {"rope_q", "rope_k"} => Dim # 0 /\ Dim % 2 = 0
  /\ pc = "o_proj"    => Maps(b.o_proj, Dim, Dim)
  /\ pc = "ffn_norm"  => b.ffn_norm.size = Dim
  /\ pc = "route"     => ValidLinear(b.router) /\ b.router.cols = Dim /\ Chosen(b) # 0
  /\ pc = "gate_proj" => Maps(Net.gate_proj, Dim, Hidden)
  /\ pc = "up_proj"   => Maps(Net.up_proj, Dim, Hidden)
  /\ pc = "down_proj" => Maps(Net.down_proj, Hidden, Dim)

Throw ==
  /\ pc # "idle"
  /\ ~Fits
  /\ pc' = "idle"
  /\ result' = "threw"
  /\ UNCHANGED <<call, x, y, ws, size, spans, logits, indices, selected, done>>

-----------------------------------------------------------------------------
(* The statements. *)


\* resize_at_least for the vectors vs.  A vector that grows may move, and the
\* spans taken of it are lost.
Grown(vs, n) ==
  [v \in DOMAIN size |-> IF v \in vs THEN Larger(size[v], n[v]) ELSE size[v]]

\* Cutting hidden anew leaves nothing of use in its parts.
Recut == [v \in DOMAIN ws |-> IF v \in Parts THEN None ELSE ws[v]]

Reserve ==
  /\ pc = "check"
  /\ Fits
  /\ LET vs == IF IsDense THEN DOMAIN size ELSE Rows
         n  == [v \in DOMAIN size |-> IF v = "hidden" THEN 3 * Hidden ELSE Dim]
     IN  size' = Grown(vs, n) /\ spans' = vs
  /\ ws' = Recut
  /\ pc' = "attn_norm"
  /\ UNCHANGED <<call, x, y, logits, indices, selected, done, result>>

\* A kernel runs: span "out" of the workspace becomes "value".
Kernel(at, out, value, next) ==
  /\ pc = at
  /\ Fits
  /\ ws' = [ws EXCEPT ![out] = value]
  /\ pc' = next
  /\ UNCHANGED <<call, x, y, size, spans, logits, indices, selected, done, result>>

AttnNorm  == Kernel("attn_norm", "a", Norm(x, b.attn_norm), "q_proj")
QProj     == Kernel("q_proj", "b", Linear(b.q_proj, ws["a"]), "k_proj")
KProj     == Kernel("k_proj", "c", Linear(b.k_proj, ws["a"]), "v_proj")
VProj     == Kernel("v_proj", "d", Linear(b.v_proj, ws["a"]), "rope_q")
RopeQ     == Kernel("rope_q", "b", Rope(ws["b"], call.position), "rope_k")
RopeK     == Kernel("rope_k", "c", Rope(ws["c"], call.position), "attention")
CausalAttention ==
  Kernel("attention", "a", Attend(ws["b"], ws["c"], ws["d"]), "o_proj")
OProj     == Kernel("o_proj", "b", Linear(b.o_proj, ws["a"]), "residual")
Residual  == Kernel("residual", "c", Add(x, ws["b"]), "ffn_norm")
FfnNorm   == Kernel("ffn_norm", "a", Norm(ws["c"], b.ffn_norm),
                    IF IsDense THEN "gate_proj" ELSE "route")
GateProj  == Kernel("gate_proj", "gate", Linear(Net.gate_proj, ws["a"]), "up_proj")
UpProj    == Kernel("up_proj", "up", Linear(Net.up_proj, ws["a"]), "silu")
Silu      == Kernel("silu", "act", SwiGlu(ws["gate"], ws["up"]), "down_proj")

\* A dense block is done with b, an expert must not disturb the sum in it.
DownProj ==
  Kernel("down_proj", IF IsDense THEN "b" ELSE "d",
         Linear(Net.down_proj, ws["act"]),
         IF IsDense THEN "output" ELSE "accumulate")

\* Mutant of FillZero: the experts are added to what o_proj left in q.
FillZero_Dropped == Kernel("fill", "b", ws["b"], "expert")

FillZero == Kernel("fill", "b", Zero, "expert")

Accumulate ==
  /\ pc = "accumulate"
  /\ ws' = [ws EXCEPT !["b"] = AddScaled(@, selected[done + 1].weight, ws["d"])]
  /\ done' = done + 1
  /\ pc' = "expert"
  /\ UNCHANGED <<call, x, y, size, spans, logits, indices, selected, result>>

\* The last loop: the output is written, over the input when they are one.
Output ==
  /\ \/ pc = "output"
     \/ pc = "expert" /\ done = Len(selected)
  /\ y' = Add(ws["c"], ws["b"])
  /\ x' = IF call.inPlace THEN y' ELSE x
  /\ pc' = "idle"
  /\ result' = "ok"
  /\ UNCHANGED <<call, ws, size, spans, logits, indices, selected, done>>

-----------------------------------------------------------------------------
(* The router and the loop over the experts it chose. *)

\* logits only grows: behind the router's rows are those of an earlier one.
RouteLogits ==
  /\ pc = "route"
  /\ Fits
  /\ logits' = [e \in 1 .. Larger(Len(logits), b.router.rows) |->
                  IF e <= b.router.rows THEN Logit(b.router, ws["a"], e)
                                        ELSE logits[e]]
  /\ pc' = "select"
  /\ UNCHANGED <<call, x, y, ws, size, spans, indices, selected, done, result>>

\* Mutant of RouteSelect: indices only grows, and all of it is sorted.
RouteSelect_IndicesOnlyGrow ==
  /\ pc = "select"
  /\ \E s \in PartialSorts(logits, Larger(Len(indices), b.router.rows), Chosen(b)) :
       /\ indices' = s
       /\ selected' = Weighted(logits, SubSeq(s, 1, Chosen(b)))
  /\ pc' = "fill"
  /\ UNCHANGED <<call, x, y, ws, size, spans, logits, done, result>>

\* indices is resized to the router's rows exactly, and all of it sorted.
RouteSelect ==
  /\ pc = "select"
  /\ \E s \in PartialSorts(logits, b.router.rows, Chosen(b)) :
       /\ indices' = s
       /\ selected' = Weighted(logits, SubSeq(s, 1, Chosen(b)))
  /\ pc' = "fill"
  /\ UNCHANGED <<call, x, y, ws, size, spans, logits, done, result>>

\* hidden grows for an expert larger than those before, and is cut anew.
NextExpert ==
  /\ pc = "expert"
  /\ done < Len(selected)
  /\ size' = Grown({"hidden"}, [hidden |-> 3 * Hidden])
  /\ spans' = spans \cup {"hidden"}
  /\ ws' = Recut
  /\ pc' = "gate_proj"
  /\ UNCHANGED <<call, x, y, logits, indices, selected, done, result>>

-----------------------------------------------------------------------------
Next ==
  \/ \E c \in Calls, v \in Inputs : Begin(c, v)
  \/ Throw
  \/ Reserve
  \/ AttnNorm \/ QProj \/ KProj \/ VProj \/ RopeQ \/ RopeK
  \/ CausalAttention \/ OProj \/ Residual \/ FfnNorm
  \/ GateProj \/ UpProj \/ Silu \/ DownProj
  \/ RouteLogits \/ RouteSelect \/ FillZero \/ NextExpert \/ Accumulate
  \/ Output

Spec == Init /\ [][Next]_vars

-----------------------------------------------------------------------------
(* Properties. *)

\* The workspace stays a workspace: its vectors have sizes, its contents
\* places, and a call is at a statement of executor.cpp.
TypeOK ==
  /\ pc \in PCs
  /\ pc # "idle" => call \in Calls
  /\ DOMAIN ws = Rows \cup Parts
  /\ size \in [Rows \cup {"hidden"} -> Nat]
  /\ spans \subseteq Rows \cup {"hidden"}
  /\ done \in 0 .. Len(selected)
  /\ result \in {"none", "ok", "threw"}

UsesHidden == pc \in {"gate_proj", "up_proj", "silu", "down_proj"}

\* A workspace used before, for blocks of other sizes, is as good as a new
\* one: a statement works through spans taken since their vector was last
\* resized, no longer than the vector is, and the router chooses among the
\* experts of this block, whatever an earlier one left in logits and indices.
SpansValid ==
  pc \notin {"idle", "check"} =>
    /\ Rows \subseteq spans
    /\ \A v \in Rows : Dim <= size[v]
    /\ UsesHidden => "hidden" \in spans /\ 3 * Hidden <= size["hidden"]
    /\ ~IsDense => \A i \in 1 .. Len(selected) :
                     selected[i].index \in 1 .. Len(b.experts)

InExperts ==
  /\ pc \in {"expert", "gate_proj", "up_proj", "silu", "down_proj", "accumulate"}
  /\ ~IsDense

Abstract == INSTANCE Block WITH
  phase    <- IF pc = "idle" THEN "idle"
              ELSE IF InExperts THEN "experts" ELSE "running",
  h        <- IF InExperts THEN ws["c"] ELSE None,
  acc      <- IF InExperts THEN ws["b"] ELSE None,
  selected <- IF InExperts THEN selected ELSE <<>>,
  done     <- IF InExperts THEN done ELSE 0

\* The executor does what Block says: whatever the reuse of the workspace,
\* the output is the block's function of the input as it was when the call
\* began, written once at the end; the call throws only when a shape is
\* wrong, and then leaves the output span as it was.
ImplementsBlock == Abstract!Spec

=============================================================================
