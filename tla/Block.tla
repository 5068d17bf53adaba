-------------------------------- MODULE Block --------------------------------
(***************************************************************************)
(* What execute_dense_block and execute_moe_block promise their caller,    *)
(* without the workspace they compute in: a call either throws, and only   *)
(* when a shape is wrong, leaving the output span as it was, or writes the *)
(* whole output once, from the input as it was when the call began.        *)
(***************************************************************************)
EXTENDS BlockMath

CONSTANTS
  Calls,      \* [block, dim, ySize, position, inPlace]: calls that are made
  Inputs,     \* vectors a caller may pass
  Untouched,  \* what the output span holds before the call
  None        \* no value

VARIABLES
  phase,      \* "idle", "running", or "experts" once the router has spoken
  call,       \* the arguments
  x, y,       \* contents of the input and of the output span
  h,          \* the residual stream after attention
  acc,        \* the weighted sum of the experts so far
  selected,   \* the experts of this call, with their weights
  done,       \* how many of them are in acc
  result      \* "none", "ok" or "threw"

vars == <<phase, call, x, y, h, acc, selected, done, result>>

Init ==
  /\ phase = "idle" /\ call = None
  /\ x = None /\ y = None /\ h = None /\ acc = None
  /\ selected = <<>> /\ done = 0
  /\ result = "none"

Begin(c, v) ==
  /\ phase = "idle"
  /\ phase' = "running"
  /\ call' = c
  /\ x' = v
  /\ y' = IF c.inPlace THEN v ELSE Untouched
  /\ result' = "none"
  /\ UNCHANGED <<h, acc, selected, done>>

Return(how) ==
  /\ phase' = "idle"
  /\ h' = None /\ acc' = None /\ selected' = <<>> /\ done' = 0
  /\ result' = how
  /\ UNCHANGED call

Write(v) ==
  /\ y' = v
  /\ x' = IF call.inPlace THEN v ELSE x

ShapesFit ==
  /\ call.ySize = call.dim
  /\ AttentionFits(call.block, call.dim)
  /\ IF call.block.kind = "dense"
     THEN FeedForwardFits(call.block, call.dim)
     ELSE RouterFits(call.block, call.dim)

Expert(i) == call.block.experts[selected[i].index]

\* std::invalid_argument: the shapes do not fit, or those of the next expert
\* the router chose.
Throw ==
  /\ \/ phase = "running" /\ ~ShapesFit
     \/ phase = "experts" /\ done < Len(selected)
          /\ ~FeedForwardFits(Expert(done + 1), call.dim)
  /\ Return("threw")
  /\ UNCHANGED <<x, y>>

Dense ==
  /\ phase = "running"
  /\ call.block.kind = "dense"
  /\ ShapesFit
  /\ Write(DenseOutput(call.block, x, call.position))
  /\ Return("ok")

RouterScores(v) ==
  [e \in 1 .. Len(call.block.experts) |-> Logit(call.block.router, v, e)]

Route ==
  /\ phase = "running"
  /\ call.block.kind = "moe"
  /\ ShapesFit
  /\ phase' = "experts"
  /\ h' = Attention(call.block, x, call.position)
  /\ acc' = Zero
  /\ done' = 0
  /\ LET score == RouterScores(Norm(h', call.block.ffn_norm))
     IN  \E s \in TopK(score, Len(call.block.experts), Chosen(call.block)) :
           selected' = Weighted(score, s)
  /\ UNCHANGED <<call, x, y, result>>

AddExpert ==
  /\ phase = "experts"
  /\ done < Len(selected)
  /\ FeedForwardFits(Expert(done + 1), call.dim)
  /\ acc' = AddScaled(acc, selected[done + 1].weight,
                      FeedForward(Expert(done + 1), Norm(h, call.block.ffn_norm)))
  /\ done' = done + 1
  /\ UNCHANGED <<phase, call, x, y, h, selected, result>>

Combine ==
  /\ phase = "experts"
  /\ done = Len(selected)
  /\ Write(Add(h, acc))
  /\ Return("ok")

Next ==
  \/ \E c \in Calls, v \in Inputs : Begin(c, v)
  \/ Throw
  \/ Dense
  \/ Route
  \/ AddExpert
  \/ Combine

Spec == Init /\ [][Next]_vars

=============================================================================
