----------------------------- MODULE MCExecutor -----------------------------
(***************************************************************************)
(* Instances of the executor: every kernel is a term, so two values are    *)
(* equal only when they were computed in the same way.                     *)
(***************************************************************************)
EXTENDS Executor

TermNorm(v, w)         == <<"norm", v, w.id>>
TermLinear(l, v)       == <<"linear", l.id, v>>
TermRope(v, position)  == <<"rope", v, position>>
TermAttend(q, k, v)    == <<"attend", q, k, v>>
TermAdd(v, w)          == <<"add", v, w>>
TermSwiGlu(v, w)       == <<"swiglu", v, w>>
TermAddScaled(v, s, w) == <<"axpy", v, s, w>>
TermShare(s, i)        == <<"share", s, i>>

\* A router scores its experts by its id; the third and the second of the
\* wide one are equal, and so are both of the narrow one.
TermLogit(l, v, e) == IF l.id = <<"wide">> THEN <<1, 2, 2>>[e] ELSE 1

Matrix(id, rows, cols) ==
  [id |-> id, rows |-> rows, cols |-> cols, size |-> rows * cols]

Weight(id, n) == [id |-> id, size |-> n]

Network(id, dim, hidden) ==
  [gate_proj |-> Matrix(<<id, "gate">>, hidden, dim),
   up_proj   |-> Matrix(<<id, "up">>, hidden, dim),
   down_proj |-> Matrix(<<id, "down">>, dim, hidden)]

AttentionPart(kind, dim) ==
  [kind |-> kind,
   attn_norm |-> Weight(<<"attn_norm">>, dim), ffn_norm |-> Weight(<<"ffn_norm">>, dim),
   q_proj |-> Matrix(<<"q">>, dim, dim), k_proj |-> Matrix(<<"k">>, dim, dim),
   v_proj |-> Matrix(<<"v">>, dim, dim), o_proj |-> Matrix(<<"o">>, dim, dim)]

\* Fields of r, and those of s it does not have.
Joined(r, s) ==
  [f \in DOMAIN r \cup DOMAIN s |-> IF f \in DOMAIN r THEN r[f] ELSE s[f]]

DenseBlock(dim, hidden) ==
  Joined(AttentionPart("dense", dim), Network("ffn", dim, hidden))

MoeBlock(dim, id, experts, k) ==
  Joined(AttentionPart("moe", dim),
         [router |-> Matrix(<<id>>, Len(experts), dim), experts |-> experts, top_k |-> k])

Wide   == MoeBlock(2, "wide", <<Network("e1", 2, 1), Network("e2", 2, 3),
                                Network("e3", 2, 2)>>, 2)
Narrow == MoeBlock(4, "narrow", <<Network("e1", 4, 1), Network("e2", 4, 2)>>, 9)

\* Its second expert gives vectors of another size, and is reached before the
\* first one or after it was accumulated: the router scores them alike.
BadExpert == MoeBlock(2, "narrow", <<Network("e1", 2, 1),
               [Network("e2", 2, 1) EXCEPT !.down_proj = Matrix(<<"bad">>, 3, 1)]>>, 2)

Blocks ==
  {DenseBlock(2, 2), DenseBlock(4, 1), Wide, Narrow, BadExpert,
   DenseBlock(3, 1),                                            \* odd
   [DenseBlock(2, 1) EXCEPT !.up_proj = Matrix(<<"up">>, 2, 2)],
   [DenseBlock(2, 1) EXCEPT !.down_proj.size = 1],
   [Wide EXCEPT !.top_k = 0],
   [Wide EXCEPT !.ffn_norm = Weight(<<"ffn_norm">>, 4)],
   [Wide EXCEPT !.q_proj = Matrix(<<"q">>, 4, 2)],
   [Narrow EXCEPT !.experts = <<>>]}

CallOf(block, dim, ySize, inPlace) ==
  [block |-> block, dim |-> dim, ySize |-> ySize, position |-> 3,
   inPlace |-> inPlace]

MCCalls ==
  {CallOf(block, block.attn_norm.size, block.attn_norm.size, inPlace) :
     block \in Blocks, inPlace \in BOOLEAN}
    \cup {CallOf(Wide, 2, 4, FALSE), CallOf(Wide, 4, 4, TRUE),
          CallOf(DenseBlock(2, 2), 2, 0, FALSE), CallOf(DenseBlock(2, 2), 0, 0, FALSE)}

=============================================================================
