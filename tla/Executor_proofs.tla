--------------------------- MODULE Executor_proofs ---------------------------
(***************************************************************************)
(* Proofs about Executor, for every kernel, every shape and any number of  *)
(* experts: the workspace keeps its types, every statement works through   *)
(* valid spans whatever earlier blocks left, and the executor implements   *)
(* Block.                                                                  *)
(***************************************************************************)
EXTENDS Executor, SequenceTheorems, TLAPS

-----------------------------------------------------------------------------
(* The router's selection. *)

\* A prefix of a partially sorted permutation is a selection of the best.
LEMMA PrefixIsTopK ==
  ASSUME NEW l, NEW score, NEW n \in Nat, NEW k \in 0 .. n,
         \A e \in 1 .. n : score[e] = l[e],
         NEW s \in PartialSorts(l, n, k)
  PROVE  SubSeq(s, 1, k) \in TopK(score, n, k)
<1> DEFINE t == SubSeq(s, 1, k)
<1>1. s \in [1 .. n -> 1 .. n] /\ Injective(s)
  BY DEF PartialSorts
<1>2. \A e \in 1 .. n : \E i \in 1 .. n : s[i] = e
  BY DEF PartialSorts
<1>3. \A i \in 1 .. k, j \in 1 .. n : i < j => l[s[i]] >= l[s[j]]
  BY DEF PartialSorts
<1>4. s \in Seq(1 .. n) /\ Len(s) = n
  BY <1>1
<1>5. t \in [1 .. k -> 1 .. n] /\ \A i \in 1 .. k : t[i] = s[i]
  <2>1. \A i \in 1 .. k : s[i] \in 1 .. n
    BY <1>1
  <2>2. /\ t \in Seq(1 .. n)
        /\ Len(t) = IF 1 <= k THEN k - 1 + 1 ELSE 0
        /\ \A i \in 1 .. k - 1 + 1 : t[i] = s[1 + i - 1]
    BY <2>1, SubSeqProperties
  <2> HIDE DEF t
  <2>3. Len(t) = k /\ \A i \in 1 .. k : t[i] = s[i]
    BY <2>2
  <2> QED  BY <2>2, <2>3
<1> HIDE DEF t
<1>6. Injective(t)
  BY <1>1, <1>5 DEF Injective
<1>7. \A i, j \in 1 .. k : i < j => score[t[i]] >= score[t[j]]
  <2> SUFFICES ASSUME NEW i \in 1 .. k, NEW j \in 1 .. k, i < j
               PROVE  score[t[i]] >= score[t[j]]
    OBVIOUS
  <2>1. l[s[i]] >= l[s[j]]
    BY <1>3
  <2>2. s[i] \in 1 .. n /\ s[j] \in 1 .. n
    BY <1>1
  <2> QED  BY <2>1, <2>2, <1>5
<1>8. ASSUME NEW e \in 1 .. n, \A i \in 1 .. k : t[i] # e
      PROVE  \A i \in 1 .. k : score[t[i]] >= score[e]
  <2>1. PICK j \in 1 .. n : s[j] = e
    BY <1>2
  <2>2. ~(j \in 1 .. k)
    BY <2>1, <1>5, <1>8
  <2> SUFFICES ASSUME NEW i \in 1 .. k PROVE score[t[i]] >= score[e]
    OBVIOUS
  <2>3. l[s[i]] >= l[s[j]]
    BY <2>2, <1>3
  <2>4. s[i] \in 1 .. n
    BY <1>1
  <2> QED  BY <2>1, <2>3, <2>4, <1>5
<1>9. t \in TopK(score, n, k)
  BY <1>5, <1>6, <1>7, <1>8 DEF TopK
<1> QED  BY <1>9 DEF t

\* A function on 1 .. k has length k.
LEMMA FunctionLength ==
  ASSUME NEW k \in Nat, NEW w, w = [i \in 1 .. k |-> w[i]]
  PROVE  Len(w) = k
<1> DEFINE T == {w[i] : i \in 1 .. k}
<1>1. w \in [1 .. k -> T]
  OBVIOUS
<1> HIDE DEF T
<1> QED  BY <1>1

-----------------------------------------------------------------------------
(* Types and spans. *)

MoeOnly    == {"route", "select", "fill", "expert", "accumulate"}
ExpertLoop == {"expert", "gate_proj", "up_proj", "silu", "down_proj", "accumulate"}

\* A dense block holds its spans on hidden from the start, a MoE block only
\* in its loop, which works on an expert that was selected.
Safe ==
  /\ TypeOK
  /\ SpansValid
  /\ Len(selected) \in Nat /\ Len(logits) \in Nat
  /\ pc = "check" => Len(selected) = 0
  /\ pc \notin {"idle", "check"} /\ IsDense =>
       "hidden" \in spans /\ 3 * b.gate_proj.rows <= size["hidden"]
  /\ pc \in MoeOnly => ~IsDense
  /\ pc \notin {"idle", "check"} /\ ~IsDense => b.router.rows = Len(b.experts)
  /\ pc = "output" => IsDense
  /\ pc # "idle" /\ ~IsDense /\ (UsesHidden \/ pc = "accumulate") =>
       done < Len(selected)
  /\ pc \notin ExpertLoop \cup {"idle"} /\ ~IsDense => done = 0

\* What CallsAssumption says of the call that runs.
LEMMA CallTypes ==
  ASSUME TypeOK, pc # "idle"
  PROVE  /\ Dim \in Nat /\ call.inPlace \in BOOLEAN
         /\ IsDense => b.gate_proj.rows \in Nat
         /\ ~IsDense => /\ b.router.rows \in Nat
                        /\ Chosen(b) \in 0 .. b.router.rows
                        /\ Len(b.experts) \in Nat
                        /\ \A i \in 1 .. Len(b.experts) :
                             b.experts[i].gate_proj.rows \in Nat
<1>1. call \in Calls
  BY DEF TypeOK
<1>2. /\ Dim \in Nat /\ call.inPlace \in BOOLEAN
      /\ b.kind \in {"dense", "moe"}
      /\ IsDense => b.gate_proj.rows \in Nat
      /\ b.kind = "moe" =>
           /\ b.top_k \in Nat /\ b.router.rows \in Nat /\ Len(b.experts) \in Nat
           /\ \A i \in 1 .. Len(b.experts) : b.experts[i].gate_proj.rows \in Nat
  BY <1>1, CallsAssumption DEF Dim, IsDense, b
<1>3. ASSUME ~IsDense PROVE b.kind = "moe" /\ Chosen(b) \in 0 .. b.router.rows
  BY <1>2, <1>3 DEF IsDense, Chosen, Smaller
<1> QED  BY <1>2, <1>3

LEMMA HiddenType ==
  ASSUME Safe, pc # "idle", ~IsDense, done < Len(selected),
         pc \notin {"idle", "check"}
  PROVE  Hidden \in Nat
<1>1. done + 1 \in 1 .. Len(selected)
  BY DEF Safe, TypeOK
<1>2. selected[done + 1].index \in 1 .. Len(b.experts)
  BY <1>1 DEF Safe, SpansValid
<1>3. TypeOK
  BY DEF Safe
<1> QED  BY <1>2, <1>3, CallTypes DEF Hidden, Net

\* A kernel moves the call to its next statement and changes one buffer.
LEMMA KernelSafe ==
  ASSUME Safe,
         NEW at \in PCs \ ({"idle", "check"} \cup {"expert"}),
         NEW next \in PCs \ {"idle", "check"},
         NEW out \in Rows \cup Parts, NEW value,
         Kernel(at, out, value, next),
         next \in MoeOnly => ~IsDense,
         next = "output" => IsDense,
         next \in {"gate_proj", "up_proj", "silu", "down_proj", "accumulate"} =>
           IsDense \/ at \in {"gate_proj", "up_proj", "silu", "down_proj"},
         next \notin ExpertLoop => at \notin ExpertLoop \/ IsDense
  PROVE  Safe'
<1>1. /\ pc = at /\ pc' = next
      /\ ws' = [ws EXCEPT ![out] = value]
      /\ UNCHANGED <<call, x, y, size, spans, logits, indices, selected, done, result>>
  BY DEF Kernel
<1>2. UNCHANGED <<b, Dim, IsDense, Net, Hidden>>
  BY <1>1 DEF b, Dim, IsDense, Net, Hidden
<1>3. TypeOK'
  BY <1>1 DEF Safe, TypeOK
<1>4. IsDense => 3 * Hidden <= size["hidden"] /\ "hidden" \in spans
  BY <1>1 DEF Safe, Hidden, Net
<1>5. SpansValid'
  BY <1>1, <1>2, <1>4 DEF Safe, SpansValid, UsesHidden
<1>6. (pc # "idle" /\ ~IsDense /\ (UsesHidden \/ pc = "accumulate") => done < Len(selected))'
  BY <1>1, <1>2 DEF Safe, UsesHidden
<1>7. (pc \notin ExpertLoop \cup {"idle"} /\ ~IsDense => done = 0)'
  BY <1>1, <1>2 DEF Safe, ExpertLoop, TypeOK
<1> QED
  BY <1>1, <1>2, <1>3, <1>5, <1>6, <1>7 DEF Safe

\* Every step keeps the types and the spans.
LEMMA SafeInvariant == Spec => []Safe
<1>1. Init => Safe
  BY DEF Init, Safe, TypeOK, SpansValid, PCs, MoeOnly, ExpertLoop
<1>2. Safe /\ [Next]_vars => Safe'
  <2> SUFFICES ASSUME Safe, [Next]_vars PROVE Safe'
    OBVIOUS
  <2>0. TypeOK
    BY DEF Safe
  <2>1. ASSUME NEW c \in Calls, NEW v \in Inputs, Begin(c, v) PROVE Safe'
    BY <2>1 DEF Safe, TypeOK, SpansValid, Begin, PCs, MoeOnly, ExpertLoop, UsesHidden
  <2>2. CASE Throw
    BY <2>2 DEF Safe, TypeOK, SpansValid, Throw, PCs, MoeOnly, ExpertLoop, UsesHidden
  <2>3. CASE Reserve
    <3>1. Dim \in Nat /\ (IsDense => b.gate_proj.rows \in Nat)
      BY <2>0, <2>3, CallTypes DEF Reserve
    <3>2. UNCHANGED <<b, Dim, IsDense>> /\ (IsDense => Net' = b /\ Net = b)
      BY <2>3 DEF Reserve, b, Dim, IsDense, Net
    <3>3. DOMAIN size = Rows \cup {"hidden"}
      BY <2>0 DEF TypeOK
    <3>4. /\ \A v \in Rows : size'[v] \in Nat /\ Dim <= size'[v]
          /\ size'["hidden"] \in Nat
          /\ IsDense => 3 * b.gate_proj.rows <= size'["hidden"]
      BY <2>0, <2>3, <3>1, <3>2, <3>3
         DEF Reserve, Grown, Larger, TypeOK, Hidden, Rows
    <3>5. size' \in [Rows \cup {"hidden"} -> Nat]
      BY <2>3, <3>3, <3>4 DEF Reserve, Grown
    <3>6. spans' = IF IsDense THEN Rows \cup {"hidden"} ELSE Rows
      BY <2>3, <3>3 DEF Reserve
    <3>7. DOMAIN ws' = Rows \cup Parts /\ pc' = "attn_norm" /\ pc = "check"
      BY <2>0, <2>3 DEF Reserve, Recut, TypeOK
    <3>8. TypeOK'
      BY <2>3, <3>5, <3>6, <3>7, <2>0 DEF Reserve, TypeOK, PCs
    <3>9. selected' = selected /\ done' = done /\ logits' = logits
      BY <2>3 DEF Reserve
    <3>9a. ~IsDense => b.router.rows = Len(b.experts)
      BY <2>3, <3>7 DEF Reserve, Fits, MoeCheck
    <3>10. SpansValid'
      BY <3>2, <3>4, <3>6, <3>7, <3>9 DEF Safe, SpansValid, UsesHidden
    <3> QED
      BY <3>2, <3>4, <3>6, <3>7, <3>8, <3>9, <3>9a, <3>10
         DEF Safe, MoeOnly, ExpertLoop, UsesHidden
  <2>4. CASE AttnNorm
    BY <2>4, KernelSafe DEF AttnNorm, PCs, Rows, Parts, MoeOnly, ExpertLoop
  <2>5. CASE QProj
    BY <2>5, KernelSafe DEF QProj, PCs, Rows, Parts, MoeOnly, ExpertLoop
  <2>6. CASE KProj
    BY <2>6, KernelSafe DEF KProj, PCs, Rows, Parts, MoeOnly, ExpertLoop
  <2>7. CASE VProj
    BY <2>7, KernelSafe DEF VProj, PCs, Rows, Parts, MoeOnly, ExpertLoop
  <2>8. CASE RopeQ
    BY <2>8, KernelSafe DEF RopeQ, PCs, Rows, Parts, MoeOnly, ExpertLoop
  <2>9. CASE RopeK
    BY <2>9, KernelSafe DEF RopeK, PCs, Rows, Parts, MoeOnly, ExpertLoop
  <2>10. CASE CausalAttention
    BY <2>10, KernelSafe DEF CausalAttention, PCs, Rows, Parts, MoeOnly, ExpertLoop
  <2>11. CASE OProj
    BY <2>11, KernelSafe DEF OProj, PCs, Rows, Parts, MoeOnly, ExpertLoop
  <2>12. CASE Residual
    BY <2>12, KernelSafe DEF Residual, PCs, Rows, Parts, MoeOnly, ExpertLoop
  <2>13. CASE FfnNorm
    BY <2>13, KernelSafe DEF FfnNorm, PCs, Rows, Parts, MoeOnly, ExpertLoop
  <2>14. CASE GateProj
    BY <2>14, KernelSafe DEF GateProj, PCs, Rows, Parts, MoeOnly, ExpertLoop
  <2>15. CASE UpProj
    BY <2>15, KernelSafe DEF UpProj, PCs, Rows, Parts, MoeOnly, ExpertLoop
  <2>16. CASE Silu
    BY <2>16, KernelSafe DEF Silu, PCs, Rows, Parts, MoeOnly, ExpertLoop
  <2>17. CASE DownProj
    BY <2>17, KernelSafe DEF DownProj, PCs, Rows, Parts, MoeOnly, ExpertLoop
  <2>18. CASE FillZero
    <3>1. pc = "fill" /\ ~IsDense
      BY <2>18 DEF FillZero, Kernel, Safe, MoeOnly
    <3> QED
      BY <2>18, <3>1, KernelSafe DEF FillZero, PCs, Rows, Parts, MoeOnly, ExpertLoop
  <2>19. CASE RouteLogits
    <3>1. b.router.rows \in Nat /\ ~IsDense
      BY <2>0, <2>19, CallTypes DEF RouteLogits, Safe, MoeOnly
    <3>2. UNCHANGED <<b, Dim, IsDense>>
      BY <2>19 DEF RouteLogits, b, Dim, IsDense
    <3> DEFINE m == Larger(Len(logits), b.router.rows)
               T == {logits'[e] : e \in 1 .. m}
    <3>3. m \in Nat
      BY <3>1 DEF Safe, Larger
    <3>4. logits' \in [1 .. m -> T]
      BY <2>19 DEF RouteLogits
    <3> HIDE DEF m, T
    <3>5. Len(logits') = m
      BY <3>3, <3>4
    <3> QED
      BY <2>19, <3>1, <3>2, <3>3, <3>5
         DEF RouteLogits, Safe, TypeOK, SpansValid, PCs, MoeOnly, ExpertLoop, UsesHidden
  <2>20. CASE RouteSelect
    <3> DEFINE n == b.router.rows
               k == Chosen(b)
    <3>1. n \in Nat /\ k \in 0 .. n /\ ~IsDense
      BY <2>0, <2>20, CallTypes DEF RouteSelect, Safe, MoeOnly
    <3>2. PICK s \in PartialSorts(logits, n, k) :
            selected' = Weighted(logits, SubSeq(s, 1, k))
      BY <2>20 DEF RouteSelect
    <3>3. UNCHANGED <<b, Dim, IsDense>>
      BY <2>20 DEF RouteSelect, b, Dim, IsDense
    <3> HIDE DEF n, k
    <3>4. SubSeq(s, 1, k) \in TopK(logits, n, k)
      BY <3>1, <3>2, PrefixIsTopK
    <3>4a. SubSeq(s, 1, k) \in [1 .. k -> 1 .. n] /\ k \in Nat
      BY <3>1, <3>4 DEF TopK
    <3>5. Len(selected') = k /\ \A i \in 1 .. k : selected'[i].index \in 1 .. n
      <4> DEFINE t == SubSeq(s, 1, k)
      <4> HIDE DEF t
      <4>1. t \in [1 .. k -> 1 .. n] /\ k \in Nat /\ n \in Nat
        BY <3>1, <3>4a DEF t
      <4>2. Len(t) = k
        BY <4>1, FunctionLength
      <4>3. /\ selected' = [i \in 1 .. k |-> selected'[i]]
            /\ \A i \in 1 .. k : selected'[i].index = t[i]
        BY <3>2, <4>2 DEF Weighted, t
      <4> QED  BY <4>1, <4>3, FunctionLength
    <3>6. n = Len(b.experts)
      BY <2>20, <3>1 DEF RouteSelect, Safe, n
    <3> QED
      BY <2>20, <3>1, <3>3, <3>5, <3>6
         DEF RouteSelect, Safe, TypeOK, SpansValid, PCs, MoeOnly, ExpertLoop, UsesHidden
  <2>21. CASE NextExpert
    <3>1. ~IsDense /\ pc = "expert" /\ done < Len(selected)
      BY <2>21 DEF NextExpert, Safe, MoeOnly
    <3>2. Hidden \in Nat
      BY <3>1, HiddenType
    <3>3. UNCHANGED <<b, Dim, IsDense, Net, Hidden>>
      BY <2>21 DEF NextExpert, b, Dim, IsDense, Net, Hidden
    <3>4. /\ size' = [v \in Rows \cup {"hidden"} |-> size'[v]]
          /\ \A v \in Rows : size'[v] = size[v]
          /\ size'["hidden"] = Larger(size["hidden"], 3 * Hidden)
      <4>1. DOMAIN size = Rows \cup {"hidden"}
        BY <2>0 DEF TypeOK
      <4>2. size' = Grown({"hidden"}, [hidden |-> 3 * Hidden])
        BY <2>21 DEF NextExpert
      <4> QED  BY <4>1, <4>2 DEF Grown, Rows
    <3>4a. size["hidden"] \in Nat /\ \A v \in Rows : size[v] \in Nat
      BY <2>0 DEF TypeOK
    <3>5. size' \in [Rows \cup {"hidden"} -> Nat] /\ 3 * Hidden <= size'["hidden"]
          /\ \A v \in Rows : size'[v] = size[v]
      BY <3>2, <3>4, <3>4a DEF Larger
    <3>6. DOMAIN ws' = Rows \cup Parts
      BY <2>0, <2>21 DEF NextExpert, Recut, TypeOK
    <3> QED
      BY <2>21, <3>1, <3>3, <3>5, <3>6
         DEF NextExpert, Safe, TypeOK, SpansValid, PCs, MoeOnly, ExpertLoop, UsesHidden
  <2>22. CASE Accumulate
    <3>1. ~IsDense /\ pc = "accumulate" /\ done < Len(selected)
      BY <2>22 DEF Accumulate, Safe, MoeOnly
    <3>2. UNCHANGED <<b, Dim, IsDense>>
      BY <2>22 DEF Accumulate, b, Dim, IsDense
    <3> QED
      BY <2>22, <3>1, <3>2
         DEF Accumulate, Safe, TypeOK, SpansValid, PCs, MoeOnly, ExpertLoop, UsesHidden
  <2>23. CASE Output
    BY <2>23 DEF Output, Safe, TypeOK, SpansValid, PCs, MoeOnly, ExpertLoop, UsesHidden
  <2>24. CASE UNCHANGED vars
    BY <2>24 DEF vars, Safe, TypeOK, SpansValid, UsesHidden, b, Dim, IsDense, Net, Hidden
  <2> QED
    BY <2>1, <2>2, <2>3, <2>4, <2>5, <2>6, <2>7, <2>8, <2>9, <2>10, <2>11, <2>12, <2>13, <2>14, <2>15, <2>16, <2>17, <2>18, <2>19, <2>20, <2>21, <2>22, <2>23, <2>24 DEF Next
<1> QED
  BY <1>1, <1>2, PTL DEF Spec

-----------------------------------------------------------------------------
(* What is known at each statement. *)

PastFfnNorm   == {"gate_proj", "up_proj", "silu", "down_proj", "output",
                  "route", "select", "fill", "expert", "accumulate"}
PastResidual  == PastFfnNorm \cup {"ffn_norm"}
PastOProj     == PastResidual \cup {"residual"}
PastAttention == PastOProj \cup {"o_proj"}
PastRope      == PastAttention \cup {"attention"}
PastRopeQ     == PastRope \cup {"rope_k"}
PastVProj     == PastRopeQ \cup {"rope_q"}
PastKProj     == PastVProj \cup {"v_proj"}
PastQProj     == PastKProj \cup {"k_proj"}
PastAttnNorm  == PastQProj \cup {"q_proj"}
PastCheck     == PastAttnNorm \cup {"attn_norm"}

\* Shapes checked so far.
Shapes ==
  /\ pc \in PastCheck => /\ call.ySize = Dim /\ Dim # 0
                         /\ IsDense => FeedForwardFits(b, Dim)
                         /\ ~IsDense => Maps(b.router, Dim, Len(b.experts))
  /\ pc \in PastAttnNorm => b.attn_norm.size = Dim
  /\ pc \in PastQProj    => Maps(b.q_proj, Dim, Dim)
  /\ pc \in PastKProj    => Maps(b.k_proj, Dim, Dim)
  /\ pc \in PastVProj    => Maps(b.v_proj, Dim, Dim)
  /\ pc \in PastRopeQ    => Dim % 2 = 0
  /\ pc \in PastOProj    => Maps(b.o_proj, Dim, Dim)
  /\ pc \in PastFfnNorm  => b.ffn_norm.size = Dim
  /\ pc \in {"select", "fill"} => Chosen(b) # 0
  /\ pc \in {"up_proj", "silu", "down_proj", "accumulate"} =>
       Maps(Net.gate_proj, Dim, Hidden)
  /\ pc \in {"silu", "down_proj", "accumulate"} => Maps(Net.up_proj, Dim, Hidden)
  /\ pc = "accumulate" => Maps(Net.down_proj, Hidden, Dim)

N == Norm(x, b.attn_norm)
A == Attend(Rope(Linear(b.q_proj, N), call.position),
            Rope(Linear(b.k_proj, N), call.position), Linear(b.v_proj, N))
H == Attention(b, x, call.position)
F == Norm(H, b.ffn_norm)
Score == [e \in 1 .. Len(b.experts) |-> Logit(b.router, F, e)]

\* What the buffers hold that later statements read.
Contents ==
  /\ pc \in {"q_proj", "k_proj", "v_proj"} => ws["a"] = N
  /\ pc \in {"k_proj", "v_proj", "rope_q"} => ws["b"] = Linear(b.q_proj, N)
  /\ pc \in {"v_proj", "rope_q", "rope_k"} => ws["c"] = Linear(b.k_proj, N)
  /\ pc \in {"rope_q", "rope_k", "attention"} => ws["d"] = Linear(b.v_proj, N)
  /\ pc \in {"rope_k", "attention"} =>
       ws["b"] = Rope(Linear(b.q_proj, N), call.position)
  /\ pc = "attention" => ws["c"] = Rope(Linear(b.k_proj, N), call.position)
  /\ pc = "o_proj" => ws["a"] = A
  /\ pc = "residual" => ws["b"] = Linear(b.o_proj, A)
  /\ pc \in PastResidual => ws["c"] = H
  /\ pc \in PastFfnNorm => ws["a"] = F
  /\ pc \in {"up_proj", "silu"} => ws["gate"] = Linear(Net.gate_proj, F)
  /\ pc = "silu" => ws["up"] = Linear(Net.up_proj, F)
  /\ pc = "down_proj" =>
       ws["act"] = SwiGlu(Linear(Net.gate_proj, F), Linear(Net.up_proj, F))
  /\ pc = "output" => ws["b"] = FeedForward(b, F)
  /\ pc = "accumulate" => ws["d"] = FeedForward(Net, F)

\* What the router has said.
Routing ==
  /\ pc = "select" => /\ Len(logits) >= b.router.rows
                      /\ \A e \in 1 .. b.router.rows : logits[e] = Logit(b.router, F, e)
  /\ pc = "fill" => \E s \in TopK(Score, Len(b.experts), Chosen(b)) :
                      selected = Weighted(Score, s)

-----------------------------------------------------------------------------
(* The executor implements Block. *)

Known == pc # "idle" => Shapes /\ Contents /\ Routing

\* A kernel keeps the arguments, and so every value the contents are named by.
LEMMA KernelKeeps ==
  ASSUME NEW at, NEW out, NEW value, NEW next, Kernel(at, out, value, next)
  PROVE  /\ UNCHANGED <<call, x, y, selected, logits, done, result>>
         /\ UNCHANGED <<b, Dim, IsDense, Net, Hidden, N, A, H, F, Score>>
         /\ pc = at /\ pc' = next /\ Fits
         /\ ws' = [ws EXCEPT ![out] = value]
<1>1. /\ UNCHANGED <<call, x, y, selected, logits, done, result>>
      /\ pc = at /\ pc' = next /\ Fits
      /\ ws' = [ws EXCEPT ![out] = value]
  BY DEF Kernel
<1>2. UNCHANGED <<b, Dim, IsDense, Net, Hidden>>
  BY <1>1 DEF b, Dim, IsDense, Net, Hidden
<1>3. UNCHANGED <<N, A, H>>
  BY <1>1, <1>2 DEF N, A, H
<1>4. UNCHANGED <<F, Score>>
  BY <1>2, <1>3 DEF F, Score
<1> QED  BY <1>1, <1>2, <1>3, <1>4

LEMMA KnownStep ==
  ASSUME Safe, Known, [Next]_vars
  PROVE  Known'
<1>0. TypeOK
  BY DEF Safe
<1>0a. DOMAIN ws = Rows \cup Parts
  BY <1>0 DEF TypeOK
<1>1. ASSUME NEW c \in Calls, NEW v \in Inputs, Begin(c, v) PROVE Known'
  BY <1>1 DEF Begin, Known, Shapes, Contents, Routing, UsesHidden, PastFfnNorm, PastResidual, PastOProj, PastAttention, PastRope,
             PastRopeQ, PastVProj, PastKProj, PastQProj, PastAttnNorm, PastCheck
<1>2. CASE Throw
  BY <1>2 DEF Throw, Known
<1>3. CASE Reserve
  <2>1. pc = "check" /\ pc' = "attn_norm" /\ call' = call /\ Fits
    BY <1>3 DEF Reserve
  <2>2. UNCHANGED <<b, Dim, IsDense>>
    BY <2>1 DEF b, Dim, IsDense
  <2>3. call.ySize = Dim /\ Dim # 0
    BY <2>1 DEF Fits, DenseCheck, MoeCheck
  <2>4. IsDense => FeedForwardFits(b, Dim)
    BY <2>1 DEF Fits, DenseCheck, FeedForwardFits, Maps
  <2>5. ~IsDense => Maps(b.router, Dim, Len(b.experts))
    BY <2>1 DEF Fits, MoeCheck, Maps
  <2> QED
    BY <2>1, <2>2, <2>3, <2>4, <2>5
       DEF Known, Shapes, Contents, Routing, Dim, PastFfnNorm, PastResidual, PastOProj, PastAttention, PastRope,
             PastRopeQ, PastVProj, PastKProj, PastQProj, PastAttnNorm, PastCheck
<1>4. CASE AttnNorm
  <2>1. /\ UNCHANGED <<call, x, y, selected, logits, done, result>>
        /\ UNCHANGED <<b, Dim, IsDense, Net, Hidden, N, A, H, F, Score>>
    BY <1>4, KernelKeeps DEF AttnNorm
  <2>2. Shapes'
    BY <1>4, <2>1 DEF AttnNorm, Kernel, Fits, Known, Shapes, Chosen, Dim,
             PastFfnNorm, PastResidual, PastOProj, PastAttention, PastRope,
             PastRopeQ, PastVProj, PastKProj, PastQProj, PastAttnNorm, PastCheck
  <2>3. Contents'
    BY <1>4, <1>0a, <2>1 DEF AttnNorm, Kernel, Known, Contents, Rows, Parts, N, Dim,
             PastFfnNorm, PastResidual, PastOProj, PastAttention, PastRope,
             PastRopeQ, PastVProj, PastKProj, PastQProj, PastAttnNorm, PastCheck
  <2>4. Routing'
    BY <1>4, <2>1 DEF AttnNorm, Kernel, Known, Routing, Chosen
  <2> QED  BY <2>2, <2>3, <2>4 DEF Known
<1>5. CASE QProj
  <2>1. /\ UNCHANGED <<call, x, y, selected, logits, done, result>>
        /\ UNCHANGED <<b, Dim, IsDense, Net, Hidden, N, A, H, F, Score>>
    BY <1>5, KernelKeeps DEF QProj
  <2>2. Shapes'
    BY <1>5, <2>1 DEF QProj, Kernel, Fits, Known, Shapes, Chosen, Dim,
             PastFfnNorm, PastResidual, PastOProj, PastAttention, PastRope,
             PastRopeQ, PastVProj, PastKProj, PastQProj, PastAttnNorm, PastCheck
  <2>3. Contents'
    BY <1>5, <1>0a, <2>1 DEF QProj, Kernel, Known, Contents, Rows, Parts, Dim,
             PastFfnNorm, PastResidual, PastOProj, PastAttention, PastRope,
             PastRopeQ, PastVProj, PastKProj, PastQProj, PastAttnNorm, PastCheck
  <2>4. Routing'
    BY <1>5, <2>1 DEF QProj, Kernel, Known, Routing, Chosen
  <2> QED  BY <2>2, <2>3, <2>4 DEF Known
<1>6. CASE KProj
  <2>1. /\ UNCHANGED <<call, x, y, selected, logits, done, result>>
        /\ UNCHANGED <<b, Dim, IsDense, Net, Hidden, N, A, H, F, Score>>
    BY <1>6, KernelKeeps DEF KProj
  <2>2. Shapes'
    BY <1>6, <2>1 DEF KProj, Kernel, Fits, Known, Shapes, Chosen, Dim,
             PastFfnNorm, PastResidual, PastOProj, PastAttention, PastRope,
             PastRopeQ, PastVProj, PastKProj, PastQProj, PastAttnNorm, PastCheck
  <2>3. Contents'
    BY <1>6, <1>0a, <2>1 DEF KProj, Kernel, Known, Contents, Rows, Parts, Dim,
             PastFfnNorm, PastResidual, PastOProj, PastAttention, PastRope,
             PastRopeQ, PastVProj, PastKProj, PastQProj, PastAttnNorm, PastCheck
  <2>4. Routing'
    BY <1>6, <2>1 DEF KProj, Kernel, Known, Routing, Chosen
  <2> QED  BY <2>2, <2>3, <2>4 DEF Known
<1>7. CASE VProj
  <2>1. /\ UNCHANGED <<call, x, y, selected, logits, done, result>>
        /\ UNCHANGED <<b, Dim, IsDense, Net, Hidden, N, A, H, F, Score>>
    BY <1>7, KernelKeeps DEF VProj
  <2>2. Shapes'
    BY <1>7, <2>1 DEF VProj, Kernel, Fits, Known, Shapes, Chosen, Dim,
             PastFfnNorm, PastResidual, PastOProj, PastAttention, PastRope,
             PastRopeQ, PastVProj, PastKProj, PastQProj, PastAttnNorm, PastCheck
  <2>3. Contents'
    BY <1>7, <1>0a, <2>1 DEF VProj, Kernel, Known, Contents, Rows, Parts, Dim,
             PastFfnNorm, PastResidual, PastOProj, PastAttention, PastRope,
             PastRopeQ, PastVProj, PastKProj, PastQProj, PastAttnNorm, PastCheck
  <2>4. Routing'
    BY <1>7, <2>1 DEF VProj, Kernel, Known, Routing, Chosen
  <2> QED  BY <2>2, <2>3, <2>4 DEF Known
<1>8. CASE RopeQ
  <2>1. /\ UNCHANGED <<call, x, y, selected, logits, done, result>>
        /\ UNCHANGED <<b, Dim, IsDense, Net, Hidden, N, A, H, F, Score>>
    BY <1>8, KernelKeeps DEF RopeQ
  <2>2. Shapes'
    BY <1>8, <2>1 DEF RopeQ, Kernel, Fits, Known, Shapes, Chosen, Dim,
             PastFfnNorm, PastResidual, PastOProj, PastAttention, PastRope,
             PastRopeQ, PastVProj, PastKProj, PastQProj, PastAttnNorm, PastCheck
  <2>3. Contents'
    BY <1>8, <1>0a, <2>1 DEF RopeQ, Kernel, Known, Contents, Rows, Parts, Dim,
             PastFfnNorm, PastResidual, PastOProj, PastAttention, PastRope,
             PastRopeQ, PastVProj, PastKProj, PastQProj, PastAttnNorm, PastCheck
  <2>4. Routing'
    BY <1>8, <2>1 DEF RopeQ, Kernel, Known, Routing, Chosen
  <2> QED  BY <2>2, <2>3, <2>4 DEF Known
<1>9. CASE RopeK
  <2>1. /\ UNCHANGED <<call, x, y, selected, logits, done, result>>
        /\ UNCHANGED <<b, Dim, IsDense, Net, Hidden, N, A, H, F, Score>>
    BY <1>9, KernelKeeps DEF RopeK
  <2>2. Shapes'
    BY <1>9, <2>1 DEF RopeK, Kernel, Fits, Known, Shapes, Chosen, Dim,
             PastFfnNorm, PastResidual, PastOProj, PastAttention, PastRope,
             PastRopeQ, PastVProj, PastKProj, PastQProj, PastAttnNorm, PastCheck
  <2>3. Contents'
    BY <1>9, <1>0a, <2>1 DEF RopeK, Kernel, Known, Contents, Rows, Parts, Dim,
             PastFfnNorm, PastResidual, PastOProj, PastAttention, PastRope,
             PastRopeQ, PastVProj, PastKProj, PastQProj, PastAttnNorm, PastCheck
  <2>4. Routing'
    BY <1>9, <2>1 DEF RopeK, Kernel, Known, Routing, Chosen
  <2> QED  BY <2>2, <2>3, <2>4 DEF Known
<1>10. CASE CausalAttention
  <2>1. /\ UNCHANGED <<call, x, y, selected, logits, done, result>>
        /\ UNCHANGED <<b, Dim, IsDense, Net, Hidden, N, A, H, F, Score>>
    BY <1>10, KernelKeeps DEF CausalAttention
  <2>2. Shapes'
    BY <1>10, <2>1 DEF CausalAttention, Kernel, Fits, Known, Shapes, Chosen, Dim,
             PastFfnNorm, PastResidual, PastOProj, PastAttention, PastRope,
             PastRopeQ, PastVProj, PastKProj, PastQProj, PastAttnNorm, PastCheck
  <2>3. Contents'
    BY <1>10, <1>0a, <2>1 DEF CausalAttention, Kernel, Known, Contents, Rows, Parts, A, Dim,
             PastFfnNorm, PastResidual, PastOProj, PastAttention, PastRope,
             PastRopeQ, PastVProj, PastKProj, PastQProj, PastAttnNorm, PastCheck
  <2>4. Routing'
    BY <1>10, <2>1 DEF CausalAttention, Kernel, Known, Routing, Chosen
  <2> QED  BY <2>2, <2>3, <2>4 DEF Known
<1>11. CASE OProj
  <2>1. /\ UNCHANGED <<call, x, y, selected, logits, done, result>>
        /\ UNCHANGED <<b, Dim, IsDense, Net, Hidden, N, A, H, F, Score>>
    BY <1>11, KernelKeeps DEF OProj
  <2>2. Shapes'
    BY <1>11, <2>1 DEF OProj, Kernel, Fits, Known, Shapes, Chosen, Dim,
             PastFfnNorm, PastResidual, PastOProj, PastAttention, PastRope,
             PastRopeQ, PastVProj, PastKProj, PastQProj, PastAttnNorm, PastCheck
  <2>3. Contents'
    BY <1>11, <1>0a, <2>1 DEF OProj, Kernel, Known, Contents, Rows, Parts, Dim,
             PastFfnNorm, PastResidual, PastOProj, PastAttention, PastRope,
             PastRopeQ, PastVProj, PastKProj, PastQProj, PastAttnNorm, PastCheck
  <2>4. Routing'
    BY <1>11, <2>1 DEF OProj, Kernel, Known, Routing, Chosen
  <2> QED  BY <2>2, <2>3, <2>4 DEF Known
<1>12. CASE Residual
  <2>1. /\ UNCHANGED <<call, x, y, selected, logits, done, result>>
        /\ UNCHANGED <<b, Dim, IsDense, Net, Hidden, N, A, H, F, Score>>
    BY <1>12, KernelKeeps DEF Residual
  <2>2. Shapes'
    BY <1>12, <2>1 DEF Residual, Kernel, Fits, Known, Shapes, Chosen, Dim,
             PastFfnNorm, PastResidual, PastOProj, PastAttention, PastRope,
             PastRopeQ, PastVProj, PastKProj, PastQProj, PastAttnNorm, PastCheck
  <2>3. Contents'
    BY <1>12, <1>0a, <2>1 DEF Residual, Kernel, Known, Contents, Rows, Parts, H, N, A, Attention, Dim,
             PastFfnNorm, PastResidual, PastOProj, PastAttention, PastRope,
             PastRopeQ, PastVProj, PastKProj, PastQProj, PastAttnNorm, PastCheck
  <2>4. Routing'
    BY <1>12, <2>1 DEF Residual, Kernel, Known, Routing, Chosen
  <2> QED  BY <2>2, <2>3, <2>4 DEF Known
<1>13. CASE FfnNorm
  <2>1. /\ UNCHANGED <<call, x, y, selected, logits, done, result>>
        /\ UNCHANGED <<b, Dim, IsDense, Net, Hidden, N, A, H, F, Score>>
    BY <1>13, KernelKeeps DEF FfnNorm
  <2>2. Shapes'
    BY <1>13, <2>1 DEF FfnNorm, Kernel, Fits, Known, Shapes, Chosen, Dim,
             PastFfnNorm, PastResidual, PastOProj, PastAttention, PastRope,
             PastRopeQ, PastVProj, PastKProj, PastQProj, PastAttnNorm, PastCheck
  <2>3. Contents'
    BY <1>13, <1>0a, <2>1 DEF FfnNorm, Kernel, Known, Contents, Rows, Parts, F, Dim,
             PastFfnNorm, PastResidual, PastOProj, PastAttention, PastRope,
             PastRopeQ, PastVProj, PastKProj, PastQProj, PastAttnNorm, PastCheck
  <2>4. Routing'
    BY <1>13, <2>1 DEF FfnNorm, Kernel, Known, Routing, Chosen
  <2> QED  BY <2>2, <2>3, <2>4 DEF Known
<1>14. CASE GateProj
  <2>1. /\ UNCHANGED <<call, x, y, selected, logits, done, result>>
        /\ UNCHANGED <<b, Dim, IsDense, Net, Hidden, N, A, H, F, Score>>
    BY <1>14, KernelKeeps DEF GateProj
  <2>2. Shapes'
    BY <1>14, <2>1 DEF GateProj, Kernel, Fits, Known, Shapes, Chosen, Dim,
             PastFfnNorm, PastResidual, PastOProj, PastAttention, PastRope,
             PastRopeQ, PastVProj, PastKProj, PastQProj, PastAttnNorm, PastCheck
  <2>3. Contents'
    BY <1>14, <1>0a, <2>1 DEF GateProj, Kernel, Known, Contents, Rows, Parts, Dim,
             PastFfnNorm, PastResidual, PastOProj, PastAttention, PastRope,
             PastRopeQ, PastVProj, PastKProj, PastQProj, PastAttnNorm, PastCheck
  <2>4. Routing'
    BY <1>14, <2>1 DEF GateProj, Kernel, Known, Routing, Chosen
  <2> QED  BY <2>2, <2>3, <2>4 DEF Known
<1>15. CASE UpProj
  <2>1. /\ UNCHANGED <<call, x, y, selected, logits, done, result>>
        /\ UNCHANGED <<b, Dim, IsDense, Net, Hidden, N, A, H, F, Score>>
    BY <1>15, KernelKeeps DEF UpProj
  <2>2. Shapes'
    BY <1>15, <2>1 DEF UpProj, Kernel, Fits, Known, Shapes, Chosen, Dim,
             PastFfnNorm, PastResidual, PastOProj, PastAttention, PastRope,
             PastRopeQ, PastVProj, PastKProj, PastQProj, PastAttnNorm, PastCheck
  <2>3. Contents'
    BY <1>15, <1>0a, <2>1 DEF UpProj, Kernel, Known, Contents, Rows, Parts, Dim,
             PastFfnNorm, PastResidual, PastOProj, PastAttention, PastRope,
             PastRopeQ, PastVProj, PastKProj, PastQProj, PastAttnNorm, PastCheck
  <2>4. Routing'
    BY <1>15, <2>1 DEF UpProj, Kernel, Known, Routing, Chosen
  <2> QED  BY <2>2, <2>3, <2>4 DEF Known
<1>16. CASE Silu
  <2>1. /\ UNCHANGED <<call, x, y, selected, logits, done, result>>
        /\ UNCHANGED <<b, Dim, IsDense, Net, Hidden, N, A, H, F, Score>>
    BY <1>16, KernelKeeps DEF Silu
  <2>2. Shapes'
    BY <1>16, <2>1 DEF Silu, Kernel, Fits, Known, Shapes, Chosen, Dim,
             PastFfnNorm, PastResidual, PastOProj, PastAttention, PastRope,
             PastRopeQ, PastVProj, PastKProj, PastQProj, PastAttnNorm, PastCheck
  <2>3. Contents'
    BY <1>16, <1>0a, <2>1 DEF Silu, Kernel, Known, Contents, Rows, Parts, Dim,
             PastFfnNorm, PastResidual, PastOProj, PastAttention, PastRope,
             PastRopeQ, PastVProj, PastKProj, PastQProj, PastAttnNorm, PastCheck
  <2>4. Routing'
    BY <1>16, <2>1 DEF Silu, Kernel, Known, Routing, Chosen
  <2> QED  BY <2>2, <2>3, <2>4 DEF Known
<1>17. CASE DownProj
  <2>1. /\ UNCHANGED <<call, x, y, selected, logits, done, result>>
        /\ UNCHANGED <<b, Dim, IsDense, Net, Hidden, N, A, H, F, Score>>
    BY <1>17, KernelKeeps DEF DownProj
  <2>2. Shapes'
    BY <1>17, <2>1 DEF DownProj, Kernel, Fits, Known, Shapes, Chosen, Dim,
             PastFfnNorm, PastResidual, PastOProj, PastAttention, PastRope,
             PastRopeQ, PastVProj, PastKProj, PastQProj, PastAttnNorm, PastCheck
  <2>3. Contents'
    <3>1. CASE IsDense
      BY <1>17, <1>0a, <2>1, <3>1 DEF DownProj, Kernel, Known, Contents, Rows, Parts, FeedForward, Net,
               PastFfnNorm, PastResidual, PastOProj, PastAttention, PastRope,
             PastRopeQ, PastVProj, PastKProj, PastQProj, PastAttnNorm, PastCheck
    <3>2. CASE ~IsDense
      BY <1>17, <1>0a, <2>1, <3>2 DEF DownProj, Kernel, Known, Contents, Rows, Parts, FeedForward,
               PastFfnNorm, PastResidual, PastOProj, PastAttention, PastRope,
             PastRopeQ, PastVProj, PastKProj, PastQProj, PastAttnNorm, PastCheck
    <3> QED  BY <3>1, <3>2
  <2>4. Routing'
    BY <1>17, <2>1 DEF DownProj, Kernel, Known, Routing, Chosen
  <2> QED  BY <2>2, <2>3, <2>4 DEF Known
<1>18. CASE FillZero
  <2>1. /\ UNCHANGED <<call, x, y, selected, logits, done, result>>
        /\ UNCHANGED <<b, Dim, IsDense, Net, Hidden, N, A, H, F, Score>>
    BY <1>18, KernelKeeps DEF FillZero
  <2>2. Shapes'
    BY <1>18, <2>1 DEF FillZero, Kernel, Fits, Known, Shapes, Chosen, Dim,
             PastFfnNorm, PastResidual, PastOProj, PastAttention, PastRope,
             PastRopeQ, PastVProj, PastKProj, PastQProj, PastAttnNorm, PastCheck
  <2>3. Contents'
    BY <1>18, <1>0a, <2>1 DEF FillZero, Kernel, Known, Contents, Rows, Parts, Dim,
             PastFfnNorm, PastResidual, PastOProj, PastAttention, PastRope,
             PastRopeQ, PastVProj, PastKProj, PastQProj, PastAttnNorm, PastCheck
  <2>4. Routing'
    BY <1>18, <2>1 DEF FillZero, Kernel, Known, Routing, Chosen
  <2> QED  BY <2>2, <2>3, <2>4 DEF Known
<1>19. CASE RouteLogits
  <2>1. UNCHANGED <<call, x, y>>
    BY <1>19 DEF RouteLogits
  <2>2. UNCHANGED <<b, Dim, IsDense>>
    BY <2>1 DEF b, Dim, IsDense
  <2>2a. UNCHANGED <<N, A, H>>
    BY <2>1, <2>2 DEF N, A, H
  <2>2b. UNCHANGED <<F, Score>>
    BY <2>2, <2>2a DEF F, Score
  <2>3. Shapes'
    BY <1>19, <2>1, <2>2 DEF RouteLogits, Fits, Known, Shapes, Chosen,
             PastFfnNorm, PastResidual, PastOProj, PastAttention, PastRope,
             PastRopeQ, PastVProj, PastKProj, PastQProj, PastAttnNorm, PastCheck
  <2>4. Contents'
    BY <1>19, <2>1, <2>2, <2>2a, <2>2b DEF RouteLogits, Known, Contents,
             PastFfnNorm, PastResidual, PastOProj, PastAttention, PastRope,
             PastRopeQ, PastVProj, PastKProj, PastQProj, PastAttnNorm, PastCheck
  <2>5. ws["a"] = F /\ ~IsDense
    BY <1>19 DEF RouteLogits, Known, Contents, PastFfnNorm, Safe, MoeOnly
  <2>6. b.router.rows \in Nat /\ Len(logits) \in Nat
    BY <1>19, <1>0, <2>5, CallTypes DEF RouteLogits, Safe
  <2>7. Larger(Len(logits), b.router.rows) \in Nat
        /\ Larger(Len(logits), b.router.rows) >= b.router.rows
    BY <2>6 DEF Larger
  <2>8. \A e \in 1 .. b.router.rows : logits'[e] = Logit(b.router, F, e)
    BY <1>19, <2>5, <2>6, <2>7 DEF RouteLogits
  <2>9. Len(logits') = Larger(Len(logits), b.router.rows)
    <3>1. logits' = [e \in 1 .. Larger(Len(logits), b.router.rows) |-> logits'[e]]
      BY <1>19 DEF RouteLogits
    <3> QED  BY <3>1, <2>7, FunctionLength
  <2>10. Routing'
    BY <1>19, <2>2, <2>2b, <2>7, <2>8, <2>9 DEF RouteLogits, Routing
  <2> QED  BY <2>3, <2>4, <2>10 DEF Known
<1>20. CASE RouteSelect
  <2>1. UNCHANGED <<call, x, y>>
    BY <1>20 DEF RouteSelect
  <2>2. UNCHANGED <<b, Dim, IsDense>>
    BY <2>1 DEF b, Dim, IsDense
  <2>2a. UNCHANGED <<N, A, H>>
    BY <2>1, <2>2 DEF N, A, H
  <2>2b. UNCHANGED <<F, Score>>
    BY <2>2, <2>2a DEF F, Score
  <2>3. Shapes'
    BY <1>20, <2>1, <2>2 DEF RouteSelect, Known, Shapes, Chosen,
             PastFfnNorm, PastResidual, PastOProj, PastAttention, PastRope,
             PastRopeQ, PastVProj, PastKProj, PastQProj, PastAttnNorm, PastCheck
  <2>4. Contents'
    BY <1>20, <2>1, <2>2, <2>2a, <2>2b DEF RouteSelect, Known, Contents,
             PastFfnNorm, PastResidual, PastOProj, PastAttention, PastRope,
             PastRopeQ, PastVProj, PastKProj, PastQProj, PastAttnNorm, PastCheck
  <2> DEFINE n == b.router.rows
             k == Chosen(b)
  <2>5. n \in Nat /\ k \in 0 .. n /\ ~IsDense /\ n = Len(b.experts)
    BY <1>20, <1>0, CallTypes DEF RouteSelect, Safe, MoeOnly
  <2>6. \A e \in 1 .. n : Score[e] = logits[e]
    BY <1>20, <2>5 DEF RouteSelect, Known, Routing, Score
  <2>7. PICK s \in PartialSorts(logits, n, k) :
          selected' = Weighted(logits, SubSeq(s, 1, k))
    BY <1>20 DEF RouteSelect
  <2> HIDE DEF n, k
  <2> DEFINE t == SubSeq(s, 1, k)
  <2>8. t \in TopK(Score, n, k)
    BY <2>5, <2>6, <2>7, PrefixIsTopK
  <2> HIDE DEF t
  <2>9. t \in [1 .. k -> 1 .. n] /\ k \in Nat
    BY <2>5, <2>8 DEF TopK
  <2>10. Len(t) = k
    BY <2>9, FunctionLength
  <2>11. Weighted(logits, t) = Weighted(Score, t)
    <3>1. \A i \in 1 .. k : logits[t[i]] = Score[t[i]]
      BY <2>6, <2>9
    <3>2. [j \in 1 .. Len(t) |-> logits[t[j]]] = [j \in 1 .. Len(t) |-> Score[t[j]]]
      BY <2>10, <3>1
    <3> QED  BY <3>2 DEF Weighted
  <2>12. selected' = Weighted(Score, t)
    BY <2>7, <2>11 DEF t
  <2>13. pc' = "fill" /\ b' = b /\ Score' = Score /\ k = Chosen(b) /\ n = Len(b.experts)
    BY <1>20, <2>2, <2>2b, <2>5 DEF RouteSelect, k
  <2>14. Chosen(b)' = Chosen(b)
    BY <2>2 DEF Chosen
  <2>15. Routing'
    BY <2>8, <2>12, <2>13, <2>14 DEF Routing
  <2> QED  BY <2>3, <2>4, <2>15 DEF Known
<1>21. CASE NextExpert
  <2>1. UNCHANGED <<call, x, y>>
    BY <1>21 DEF NextExpert
  <2>2. UNCHANGED <<b, Dim, IsDense>>
    BY <2>1 DEF b, Dim, IsDense
  <2>2a. UNCHANGED <<N, A, H>>
    BY <2>1, <2>2 DEF N, A, H
  <2>2b. UNCHANGED <<F, Score>>
    BY <2>2, <2>2a DEF F, Score
  <2>3. Shapes'
    BY <1>21, <2>1, <2>2 DEF NextExpert, Known, Shapes, Chosen,
             PastFfnNorm, PastResidual, PastOProj, PastAttention, PastRope,
             PastRopeQ, PastVProj, PastKProj, PastQProj, PastAttnNorm, PastCheck
  <2>4. Contents'
    BY <1>21, <1>0a, <2>1, <2>2, <2>2a, <2>2b
       DEF NextExpert, Known, Contents, Rows, Parts, Recut,
             PastFfnNorm, PastResidual, PastOProj, PastAttention, PastRope,
             PastRopeQ, PastVProj, PastKProj, PastQProj, PastAttnNorm, PastCheck
  <2>5. Routing'
    BY <1>21 DEF NextExpert, Routing
  <2> QED  BY <2>3, <2>4, <2>5 DEF Known
<1>22. CASE Accumulate
  <2>1. UNCHANGED <<call, x, y>>
    BY <1>22 DEF Accumulate
  <2>2. UNCHANGED <<b, Dim, IsDense>>
    BY <2>1 DEF b, Dim, IsDense
  <2>2a. UNCHANGED <<N, A, H>>
    BY <2>1, <2>2 DEF N, A, H
  <2>2b. UNCHANGED <<F, Score>>
    BY <2>2, <2>2a DEF F, Score
  <2>3. Shapes'
    BY <1>22, <2>1, <2>2 DEF Accumulate, Known, Shapes, Chosen,
             PastFfnNorm, PastResidual, PastOProj, PastAttention, PastRope,
             PastRopeQ, PastVProj, PastKProj, PastQProj, PastAttnNorm, PastCheck
  <2>4. Contents'
    BY <1>22, <1>0a, <2>1, <2>2, <2>2a, <2>2b
       DEF Accumulate, Known, Contents, Rows, Parts,
             PastFfnNorm, PastResidual, PastOProj, PastAttention, PastRope,
             PastRopeQ, PastVProj, PastKProj, PastQProj, PastAttnNorm, PastCheck
  <2>5. Routing'
    BY <1>22 DEF Accumulate, Routing
  <2> QED  BY <2>3, <2>4, <2>5 DEF Known
<1>23. CASE Output
  BY <1>23 DEF Output, Known
<1>24. CASE UNCHANGED vars
  <2>1. UNCHANGED <<pc, call, x, ws, logits, selected, done>>
    BY <1>24 DEF vars
  <2>2. UNCHANGED <<b, Dim, IsDense, Net, Hidden>>
    BY <2>1 DEF b, Dim, IsDense, Net, Hidden
  <2>3. UNCHANGED <<N, A, H>>
    BY <2>1, <2>2 DEF N, A, H
  <2>4. UNCHANGED <<F, Score>>
    BY <2>2, <2>3 DEF F, Score
  <2> QED
    BY <2>1, <2>2, <2>3, <2>4 DEF Known, Shapes, Contents, Routing, Chosen
<1> QED
  BY <1>1, <1>2, <1>3, <1>4, <1>5, <1>6, <1>7, <1>8, <1>9, <1>10, <1>11, <1>12,
     <1>13, <1>14, <1>15, <1>16, <1>17, <1>18, <1>19, <1>20, <1>21, <1>22, <1>23, <1>24 DEF Next

\* Block has its own copy of the operators both modules extend.
LEMMA SameShapes ==
  \A e, d : /\ Abstract!AttentionFits(e, d) <=> AttentionFits(e, d)
            /\ Abstract!FeedForwardFits(e, d) <=> FeedForwardFits(e, d)
            /\ Abstract!RouterFits(e, d) <=> RouterFits(e, d)
            /\ Abstract!Chosen(e) = Chosen(e)
  BY DEF Abstract!AttentionFits, AttentionFits, Abstract!FeedForwardFits,
         FeedForwardFits, Abstract!RouterFits, RouterFits, Abstract!Chosen, Chosen,
         Abstract!Smaller, Smaller, Abstract!Maps, Maps, Abstract!ValidLinear, ValidLinear

LEMMA SameValues ==
  \A e, v, p, n, k : /\ Abstract!Attention(e, v, p) = Attention(e, v, p)
                     /\ Abstract!FeedForward(e, v) = FeedForward(e, v)
                     /\ Abstract!DenseOutput(e, v, p) = DenseOutput(e, v, p)
                     /\ Abstract!TopK(v, n, k) = TopK(v, n, k)
                     /\ Abstract!Weighted(v, e) = Weighted(v, e)
  BY DEF Abstract!Attention, Attention, Abstract!FeedForward, FeedForward,
         Abstract!DenseOutput, DenseOutput, Abstract!TopK, TopK,
         Abstract!Injective, Injective, Abstract!Weighted, Weighted

\* Inside a call, a step that changes nothing Block knows of is a stutter.
LEMMA Stutter ==
  ASSUME pc # "idle", pc' # "idle", UNCHANGED <<call, x, y, result>>,
         InExperts' <=> InExperts,
         InExperts => UNCHANGED <<ws["b"], ws["c"], selected, done>>
  PROVE  UNCHANGED Abstract!vars
<1>1. UNCHANGED (IF pc = "idle" THEN "idle" ELSE IF InExperts THEN "experts" ELSE "running")
  OBVIOUS
<1>2. /\ UNCHANGED (IF InExperts THEN ws["c"] ELSE None)
      /\ UNCHANGED (IF InExperts THEN ws["b"] ELSE None)
      /\ UNCHANGED (IF InExperts THEN selected ELSE <<>>)
      /\ UNCHANGED (IF InExperts THEN done ELSE 0)
  OBVIOUS
<1> QED  BY <1>1, <1>2 DEF Abstract!vars

LEMMA BlockKind ==
  ASSUME TypeOK, pc # "idle", ~IsDense
  PROVE  b.kind = "moe"
<1>1. call \in Calls
  BY DEF TypeOK
<1> QED  BY <1>1, CallsAssumption DEF b, IsDense

\* Outside the loop over experts, an exception means that the arguments of
\* the call do not fit.
LEMMA ThrowsJustly ==
  ASSUME Safe, Known, Throw, ~InExperts
  PROVE  ~Abstract!ShapesFit
<1> SUFFICES ASSUME Abstract!ShapesFit PROVE Fits
  BY DEF Throw
<1>1. /\ call.ySize = Dim /\ AttentionFits(b, Dim)
      /\ IsDense => FeedForwardFits(b, Dim)
      /\ ~IsDense => RouterFits(b, Dim)
  BY SameShapes DEF Abstract!ShapesFit, b, Dim, IsDense
<1>2. /\ Dim # 0 /\ Dim % 2 = 0 /\ b.attn_norm.size = Dim /\ b.ffn_norm.size = Dim
      /\ Maps(b.q_proj, Dim, Dim) /\ Maps(b.k_proj, Dim, Dim)
      /\ Maps(b.v_proj, Dim, Dim) /\ Maps(b.o_proj, Dim, Dim)
  BY <1>1 DEF AttentionFits
<1>3. pc = "check" /\ IsDense => DenseCheck
  BY <1>1, <1>2 DEF DenseCheck, FeedForwardFits, Maps
<1>4. pc = "check" /\ ~IsDense => MoeCheck
  BY <1>1, <1>2 DEF MoeCheck, RouterFits, Maps, ValidLinear
<1>5. pc = "route" => ValidLinear(b.router) /\ b.router.cols = Dim /\ Chosen(b) # 0
  BY <1>1 DEF Safe, MoeOnly, RouterFits, Maps
<1>6. pc \in {"gate_proj", "up_proj", "down_proj"} =>
        /\ Maps(Net.gate_proj, Dim, Hidden) /\ Maps(Net.up_proj, Dim, Hidden)
        /\ Maps(Net.down_proj, Hidden, Dim)
  BY <1>1 DEF InExperts, Net, Hidden, FeedForwardFits
<1> QED  BY <1>2, <1>3, <1>4, <1>5, <1>6 DEF Fits

LEMMA RefinedStep ==
  ASSUME Safe, Safe', Known, Known', [Next]_vars
  PROVE  [Abstract!Next]_(Abstract!vars)
<1>0. TypeOK /\ TypeOK'
  BY DEF Safe
<1>0a. DOMAIN ws = Rows \cup Parts
  BY <1>0 DEF TypeOK
<1>1. ASSUME NEW c \in Calls, NEW v \in Inputs, Begin(c, v)
      PROVE  Abstract!Begin(c, v)
  <2>1. ~InExperts /\ ~InExperts'
    BY <1>1 DEF Begin, InExperts
  <2> QED  BY <1>1, <2>1 DEF Begin, Abstract!Begin
<1>2. CASE Throw
  <2>1. pc # "idle" /\ ~InExperts' /\ pc' = "idle" /\ result' = "threw"
        /\ UNCHANGED <<call, x, y>>
    BY <1>2 DEF Throw, InExperts
  <2>2. Abstract!Return("threw") /\ UNCHANGED <<x, y>>
    BY <2>1 DEF Abstract!Return
  <2>3. CASE ~InExperts
    BY <1>2, <2>1, <2>2, <2>3, ThrowsJustly DEF Abstract!Next, Abstract!Throw
  <2>4. CASE InExperts
    <3>1. ~Fits /\ pc \in {"gate_proj", "up_proj", "down_proj"} /\ ~IsDense
      BY <1>2, <2>4 DEF Throw, Fits, InExperts
    <3>2. done < Len(selected)
      BY <3>1 DEF Safe, UsesHidden
    <3>3. ~FeedForwardFits(Net, Dim)
      BY <3>1 DEF Fits, FeedForwardFits, Hidden
    <3>4. Abstract!Expert(done + 1) = Net
      BY <2>4, <3>1 DEF Abstract!Expert, Net, b
    <3> QED
      BY <2>1, <2>2, <2>4, <3>2, <3>3, <3>4, SameShapes
         DEF Abstract!Next, Abstract!Throw, Dim
  <2> QED  BY <2>3, <2>4
<1>3. CASE Reserve
  <2>1. pc # "idle" /\ pc' # "idle" /\ UNCHANGED <<call, x, y, result>>
        /\ ~InExperts /\ ~InExperts'
    BY <1>3 DEF Reserve, InExperts
  <2> QED  BY <2>1, Stutter
<1>4. CASE AttnNorm
  <2>1. pc # "idle" /\ pc' # "idle" /\ UNCHANGED <<call, x, y, result>>
        /\ ~InExperts /\ ~InExperts'
    BY <1>4 DEF AttnNorm, Kernel, InExperts
  <2> QED  BY <2>1, Stutter
<1>5. CASE QProj
  <2>1. pc # "idle" /\ pc' # "idle" /\ UNCHANGED <<call, x, y, result>>
        /\ ~InExperts /\ ~InExperts'
    BY <1>5 DEF QProj, Kernel, InExperts
  <2> QED  BY <2>1, Stutter
<1>6. CASE KProj
  <2>1. pc # "idle" /\ pc' # "idle" /\ UNCHANGED <<call, x, y, result>>
        /\ ~InExperts /\ ~InExperts'
    BY <1>6 DEF KProj, Kernel, InExperts
  <2> QED  BY <2>1, Stutter
<1>7. CASE VProj
  <2>1. pc # "idle" /\ pc' # "idle" /\ UNCHANGED <<call, x, y, result>>
        /\ ~InExperts /\ ~InExperts'
    BY <1>7 DEF VProj, Kernel, InExperts
  <2> QED  BY <2>1, Stutter
<1>8. CASE RopeQ
  <2>1. pc # "idle" /\ pc' # "idle" /\ UNCHANGED <<call, x, y, result>>
        /\ ~InExperts /\ ~InExperts'
    BY <1>8 DEF RopeQ, Kernel, InExperts
  <2> QED  BY <2>1, Stutter
<1>9. CASE RopeK
  <2>1. pc # "idle" /\ pc' # "idle" /\ UNCHANGED <<call, x, y, result>>
        /\ ~InExperts /\ ~InExperts'
    BY <1>9 DEF RopeK, Kernel, InExperts
  <2> QED  BY <2>1, Stutter
<1>10. CASE CausalAttention
  <2>1. pc # "idle" /\ pc' # "idle" /\ UNCHANGED <<call, x, y, result>>
        /\ ~InExperts /\ ~InExperts'
    BY <1>10 DEF CausalAttention, Kernel, InExperts
  <2> QED  BY <2>1, Stutter
<1>11. CASE OProj
  <2>1. pc # "idle" /\ pc' # "idle" /\ UNCHANGED <<call, x, y, result>>
        /\ ~InExperts /\ ~InExperts'
    BY <1>11 DEF OProj, Kernel, InExperts
  <2> QED  BY <2>1, Stutter
<1>12. CASE Residual
  <2>1. pc # "idle" /\ pc' # "idle" /\ UNCHANGED <<call, x, y, result>>
        /\ ~InExperts /\ ~InExperts'
    BY <1>12 DEF Residual, Kernel, InExperts
  <2> QED  BY <2>1, Stutter
<1>13. CASE FfnNorm
  <2>1. pc # "idle" /\ pc' # "idle" /\ UNCHANGED <<call, x, y, result>>
        /\ ~InExperts /\ ~InExperts'
    BY <1>13 DEF FfnNorm, Kernel, InExperts, IsDense, b
  <2> QED  BY <2>1, Stutter
<1>14. CASE GateProj
  <2>1. /\ UNCHANGED <<call, x, y, selected, logits, done, result>>
        /\ UNCHANGED <<b, Dim, IsDense, Net, Hidden, N, A, H, F, Score>>
    BY <1>14, KernelKeeps DEF GateProj
  <2>2. pc # "idle" /\ pc' # "idle" /\ (InExperts' <=> InExperts)
    BY <1>14, <2>1 DEF GateProj, Kernel, InExperts
  <2>3. InExperts => UNCHANGED <<ws["b"], ws["c"]>>
    BY <1>14, <1>0a DEF GateProj, Kernel, InExperts, Rows, Parts
  <2>4. UNCHANGED <<call, x, y, result, selected, done>>
    BY <2>1
  <2> QED  BY <2>2, <2>3, <2>4, Stutter
<1>15. CASE UpProj
  <2>1. /\ UNCHANGED <<call, x, y, selected, logits, done, result>>
        /\ UNCHANGED <<b, Dim, IsDense, Net, Hidden, N, A, H, F, Score>>
    BY <1>15, KernelKeeps DEF UpProj
  <2>2. pc # "idle" /\ pc' # "idle" /\ (InExperts' <=> InExperts)
    BY <1>15, <2>1 DEF UpProj, Kernel, InExperts
  <2>3. InExperts => UNCHANGED <<ws["b"], ws["c"]>>
    BY <1>15, <1>0a DEF UpProj, Kernel, InExperts, Rows, Parts
  <2>4. UNCHANGED <<call, x, y, result, selected, done>>
    BY <2>1
  <2> QED  BY <2>2, <2>3, <2>4, Stutter
<1>16. CASE Silu
  <2>1. /\ UNCHANGED <<call, x, y, selected, logits, done, result>>
        /\ UNCHANGED <<b, Dim, IsDense, Net, Hidden, N, A, H, F, Score>>
    BY <1>16, KernelKeeps DEF Silu
  <2>2. pc # "idle" /\ pc' # "idle" /\ (InExperts' <=> InExperts)
    BY <1>16, <2>1 DEF Silu, Kernel, InExperts
  <2>3. InExperts => UNCHANGED <<ws["b"], ws["c"]>>
    BY <1>16, <1>0a DEF Silu, Kernel, InExperts, Rows, Parts
  <2>4. UNCHANGED <<call, x, y, result, selected, done>>
    BY <2>1
  <2> QED  BY <2>2, <2>3, <2>4, Stutter
<1>17. CASE DownProj
  <2>1. /\ UNCHANGED <<call, x, y, selected, logits, done, result>>
        /\ UNCHANGED <<b, Dim, IsDense, Net, Hidden, N, A, H, F, Score>>
    BY <1>17, KernelKeeps DEF DownProj
  <2>2. pc # "idle" /\ pc' # "idle" /\ (InExperts' <=> InExperts)
    BY <1>17, <2>1 DEF DownProj, Kernel, InExperts
  <2>3. InExperts => UNCHANGED <<ws["b"], ws["c"]>>
    BY <1>17, <1>0a DEF DownProj, Kernel, InExperts, Rows, Parts
  <2>4. UNCHANGED <<call, x, y, result, selected, done>>
    BY <2>1
  <2> QED  BY <2>2, <2>3, <2>4, Stutter
<1>18. CASE RouteLogits
  <2>1. pc # "idle" /\ pc' # "idle" /\ UNCHANGED <<call, x, y, result>>
        /\ ~InExperts /\ ~InExperts'
    BY <1>18 DEF RouteLogits, InExperts
  <2> QED  BY <2>1, Stutter
<1>19. CASE RouteSelect
  <2>1. pc # "idle" /\ pc' # "idle" /\ UNCHANGED <<call, x, y, result>>
        /\ ~InExperts /\ ~InExperts'
    BY <1>19 DEF RouteSelect, InExperts
  <2> QED  BY <2>1, Stutter
<1>20. CASE FillZero
  <2>1. /\ UNCHANGED <<call, x, y, selected, logits, done, result>>
        /\ UNCHANGED <<b, Dim, IsDense, Net, Hidden, N, A, H, F, Score>>
        /\ pc = "fill" /\ pc' = "expert" /\ ws' = [ws EXCEPT !["b"] = Zero]
    BY <1>20, KernelKeeps DEF FillZero
  <2>2. ~IsDense /\ ~InExperts /\ InExperts' /\ done = 0
    BY <2>1 DEF Safe, MoeOnly, InExperts, ExpertLoop
  <2>3. b.kind = "moe"
    BY <1>0, <2>1, <2>2, BlockKind
  <2>4. Abstract!ShapesFit
    BY <2>1, <2>2, SameShapes
       DEF Known, Shapes, Abstract!ShapesFit, AttentionFits, RouterFits, b, Dim, IsDense,
           PastFfnNorm, PastResidual, PastOProj, PastAttention, PastRope,
             PastRopeQ, PastVProj, PastKProj, PastQProj, PastAttnNorm, PastCheck
  <2>5. ws'["c"] = H /\ ws'["b"] = Zero
    BY <1>0a, <2>1 DEF Known, Contents, PastResidual, PastFfnNorm, Rows
  <2>6. Abstract!RouterScores(Norm(H, call.block.ffn_norm)) = Score
    BY DEF Abstract!RouterScores, Score, F, b
  <2>7. \E s \in TopK(Score, Len(call.block.experts), Chosen(call.block)) :
          selected = Weighted(Score, s)
    BY <2>1 DEF Known, Routing, b
  <2>8. (IF InExperts THEN ws["c"] ELSE None)' = H
    BY <2>2, <2>5
  <2>9. Abstract!Route
    BY <2>1, <2>2, <2>3, <2>4, <2>5, <2>6, <2>7, <2>8,
       SameShapes, SameValues DEF Abstract!Route, H, b
  <2> QED  BY <2>9 DEF Abstract!Next
<1>21. CASE NextExpert
  <2>1. pc # "idle" /\ pc' # "idle"
        /\ UNCHANGED <<call, x, y, result, selected, done>>
    BY <1>21 DEF NextExpert
  <2>2. InExperts' <=> InExperts
    BY <1>21 DEF NextExpert, InExperts, IsDense, b
  <2>3. UNCHANGED <<ws["b"], ws["c"]>>
    BY <1>21, <1>0a DEF NextExpert, Recut, Rows, Parts
  <2> QED  BY <2>1, <2>2, <2>3, Stutter
<1>22. CASE Accumulate
  <2>1. pc = "accumulate" /\ pc' = "expert" /\ done' = done + 1
        /\ UNCHANGED <<call, x, y, result, selected>>
        /\ ws' = [ws EXCEPT !["b"] = AddScaled(ws["b"], selected[done + 1].weight, ws["d"])]
    BY <1>22 DEF Accumulate
  <2>2. ~IsDense /\ done < Len(selected)
    BY <2>1 DEF Safe, MoeOnly, UsesHidden
  <2>3. InExperts /\ InExperts'
    BY <2>1, <2>2 DEF InExperts, IsDense, b
  <2>4. Abstract!Expert(done + 1) = Net
    BY <2>2, <2>3 DEF Abstract!Expert, Net, b
  <2>5. FeedForwardFits(Net, Dim)
    BY <2>1 DEF Known, Shapes, FeedForwardFits, Hidden
  <2>6. ws["d"] = FeedForward(Net, F) /\ ws["c"] = H
    BY <2>1 DEF Known, Contents, PastResidual, PastFfnNorm
  <2>7. ws'["c"] = ws["c"]
        /\ ws'["b"] = AddScaled(ws["b"], selected[done + 1].weight, FeedForward(Net, F))
    BY <1>0a, <2>1, <2>6 DEF Rows
  <2>8. F = Norm(ws["c"], call.block.ffn_norm)
    BY <2>6 DEF F, b
  <2>9. Abstract!AddExpert
    BY <2>1, <2>2, <2>3, <2>4, <2>5, <2>7, <2>8,
       SameShapes, SameValues DEF Abstract!AddExpert, Dim
  <2> QED  BY <2>9 DEF Abstract!Next
<1>23. CASE Output
  <2>1. pc' = "idle" /\ ~InExperts' /\ result' = "ok" /\ call' = call
        /\ y' = Add(ws["c"], ws["b"])
        /\ x' = IF call.inPlace THEN y' ELSE x
    BY <1>23 DEF Output, InExperts
  <2>2. Abstract!Return("ok")
    BY <2>1 DEF Abstract!Return
  <2>3. CASE pc = "output"
    <3>1. IsDense /\ ~InExperts
      BY <2>3 DEF Safe, InExperts
    <3>2. Abstract!ShapesFit
      BY <2>3, <3>1, SameShapes
         DEF Known, Shapes, Abstract!ShapesFit, AttentionFits, b, Dim, IsDense,
             PastFfnNorm, PastResidual, PastOProj, PastAttention, PastRope,
             PastRopeQ, PastVProj, PastKProj, PastQProj, PastAttnNorm, PastCheck
    <3>3. ws["c"] = H /\ ws["b"] = FeedForward(b, F)
      BY <2>3 DEF Known, Contents, PastResidual, PastFfnNorm
    <3>4. y' = DenseOutput(call.block, x, call.position)
      BY <2>1, <3>3 DEF DenseOutput, H, F, b
    <3>5. Abstract!Dense
      BY <2>1, <2>2, <2>3, <3>1, <3>2, <3>4, SameValues
         DEF Abstract!Dense, Abstract!Write, IsDense, b
    <3> QED  BY <3>5 DEF Abstract!Next
  <2>4. CASE pc = "expert" /\ done = Len(selected)
    <3>1. InExperts
      BY <2>4 DEF InExperts, Safe, MoeOnly
    <3>2. Abstract!Combine
      BY <2>1, <2>2, <2>4, <3>1 DEF Abstract!Combine, Abstract!Write
    <3> QED  BY <3>2 DEF Abstract!Next
  <2> QED  BY <1>23, <2>3, <2>4 DEF Output
<1>24. CASE UNCHANGED vars
  <2>1. InExperts' <=> InExperts
    BY <1>24 DEF vars, InExperts, IsDense, b
  <2> QED  BY <1>24, <2>1 DEF vars, Abstract!vars
<1> QED
  BY <1>1, <1>2, <1>3, <1>4, <1>5, <1>6, <1>7, <1>8, <1>9, <1>10, <1>11, <1>12,
     <1>13, <1>14, <1>15, <1>16, <1>17, <1>18, <1>19, <1>20, <1>21, <1>22, <1>23, <1>24
     DEF Next, Abstract!Next

-----------------------------------------------------------------------------
(* The theorems. *)

LEMMA KnownInvariant == Spec => []Known
<1>1. Init => Known
  BY DEF Init, Known
<1>2. Safe /\ Known /\ [Next]_vars => Known'
  BY KnownStep
<1> QED  BY <1>1, <1>2, SafeInvariant, PTL DEF Spec

\* The workspace and the program counter keep their types.
THEOREM TypeCorrect == Spec => []TypeOK
<1>1. Safe => TypeOK
  BY DEF Safe
<1> QED  BY <1>1, SafeInvariant, PTL

\* No statement works through a span of a vector that was resized since, or
\* past its end, and the router's choice exists, whatever blocks of other
\* sizes left in the workspace.
THEOREM SpansAreValid == Spec => []SpansValid
<1>1. Safe => SpansValid
  BY DEF Safe
<1> QED  BY <1>1, SafeInvariant, PTL

\* For every kernel, shape and number of experts, the executor implements
\* Block.
THEOREM ExecutorImplementsBlock == Spec => ImplementsBlock
<1>1. Init => Abstract!Init
  <2> SUFFICES ASSUME Init PROVE Abstract!Init
    OBVIOUS
  <2>1. ~InExperts
    BY DEF Init, InExperts
  <2> QED  BY <2>1 DEF Init, Abstract!Init
<1>2. Safe /\ Safe' /\ Known /\ Known' /\ [Next]_vars => [Abstract!Next]_(Abstract!vars)
  BY RefinedStep
<1> QED
  BY <1>1, <1>2, SafeInvariant, KnownInvariant, PTL
     DEF Spec, ImplementsBlock, Abstract!Spec

=============================================================================
