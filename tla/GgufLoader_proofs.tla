------------------------- MODULE GgufLoader_proofs -------------------------
(***************************************************************************)
(* Proofs about GgufLoader: types, that nothing leaks or is released       *)
(* twice, that every read stays inside a mapping, that the tensors with    *)
(* bytes of a file that was opened never fail a bounds check again, and    *)
(* that every step of open brings it nearer to its end.                    *)
(***************************************************************************)
EXTENDS GgufLoader, TLAPS

-----------------------------------------------------------------------------
(* The inductive invariant. *)

\* What the phase of the call says about the block being opened.
CallShape ==
  call # Idle =>
    /\ impl[call.impl].state = "opening"
    /\ call.impl \in fds <=> call.phase # "open"
    /\ call.impl \in maps <=> call.phase \notin {"open", "fstat", "mmap"}
    /\ call.phase \in {"open", "fstat", "mmap"} => impl[call.impl].pos = 0

\* The tensors of a valid file are inside it.
Usable == \A i \in Impl : impl[i].state = "valid" => AllInside(i)

IInv == TypeOK /\ Released /\ ReadsInside /\ CallShape /\ Usable

-----------------------------------------------------------------------------
(* Arithmetic. *)

\* The multiple of a below x.
LEMMA Multiple ==
  ASSUME NEW x \in Nat, NEW a \in Nat \ {0}
  PROVE  (x \div a) * a \in 0 .. x
<1>1. x = (x \div a) * a + (x % a) /\ x % a \in 0 .. a - 1 /\ x \div a \in Nat
  BY SMT
<1> DEFINE m == (x \div a) * a
<1>2. m \in Nat  BY <1>1
<1>3. x % a \in Nat /\ x = m + (x % a)  BY <1>1
<1> HIDE DEF m
<1>4. m \in 0 .. x  BY <1>2, <1>3
<1> QED  BY <1>4 DEF m

\* A remainder by the word is a 64-bit value.
LEMMA WordMod == ASSUME NEW x \in Nat PROVE x % Word \in 0 .. Word - 1
<1>1. Word \in Nat \ {0}  BY WordAssumption
<1> QED  BY <1>1, SMT

\* data_start is a 64-bit value when the cursor is one.
LEMMA AlignUpWord ==
  ASSUME NEW x \in 0 .. Word - 1, NEW a \in Nat
  PROVE  AlignUp(x, a) \in 0 .. Word - 1
<1>1. CASE a = 0  BY <1>1 DEF AlignUp
<1>2. CASE a # 0
  <2> DEFINE y == (x + a - 1) % Word
  <2>1. x + a - 1 \in Nat  BY <1>2
  <2>2. y \in 0 .. Word - 1  BY <2>1, WordMod
  <2> HIDE DEF y
  <2>3. y \in Nat /\ Word \in Nat  BY <2>2, WordAssumption
  <2>4. (y \div a) * a \in 0 .. y  BY <1>2, <2>3, Multiple
  <2> DEFINE m == (y \div a) * a
  <2>5. m \in 0 .. y  BY <2>4
  <2> HIDE DEF m
  <2>6. m \in 0 .. Word - 1  BY <2>2, <2>3, <2>5
  <2>7. AlignUp(x, a) = m  BY <1>2 DEF AlignUp, m, y
  <2> QED  BY <2>6, <2>7
<1> QED  BY <1>1, <1>2

\* The start of a tensor is a 64-bit value.
LEMMA StartWord ==
  ASSUME TypeOK, NEW i \in Impl, NEW t, t.offset \in Nat
  PROVE  Start(i, t) \in 0 .. Word - 1
<1>1. impl[i].dataStart \in Nat  BY WordAssumption DEF TypeOK, Block
<1>2. impl[i].dataStart + t.offset \in Nat  BY <1>1
<1> QED  BY <1>2, WordMod DEF Start

-----------------------------------------------------------------------------
(* Two kinds of step. *)

Opened(i) == impl[i].state = "valid"

\* A block that is none has this record.
LEMMA NoImplBlock == NoImpl \in Block /\ NoImpl.state = "none" /\ NoImpl.pos = 0 /\ NoImpl.size = 0
<1>1. Word \in Nat \ {0} /\ Word32 \in Nat \ {0}  BY WordAssumption
<1>2. 32 % Word32 \in 0 .. Word32 - 1  BY <1>1, SMT
<1>3. <<>> \in Seq(TensorEntry)  OBVIOUS
<1>4. 0 \in 0 .. Word - 1  BY <1>1
<1> QED  BY <1>1, <1>2, <1>3, <1>4 DEF NoImpl, Block

\* The record of one block that is not yet valid changes: what was read and
\* what is known of the other blocks stays.
LEMMA OneBlock ==
  ASSUME IInv, NEW i \in Impl, NEW r \in Block, r.state = "opening",
         impl[i].state # "valid",
         impl' = [impl EXCEPT ![i] = r],
         r.pos <= r.size,
         i \in maps => r.size = impl[i].size,
         maps \subseteq maps',
         UNCHANGED <<views, touched, advised>>
  PROVE  /\ impl' \in [Impl -> Block]
         /\ impl'[i] = r
         /\ \A j \in Impl \ {i} : impl'[j] = impl[j]
         /\ ReadsInside'
         /\ Usable'
<1>1. impl' \in [Impl -> Block] /\ impl'[i] = r /\ \A j \in Impl \ {i} : impl'[j] = impl[j]
  BY DEF IInv, TypeOK
<1>2. \A j \in Impl : impl'[j].pos <= impl'[j].size
  BY <1>1 DEF IInv, ReadsInside
<1>3. \A j \in maps : impl'[j].size = impl[j].size
  BY <1>1 DEF IInv, TypeOK
<1>4. ReadsInside'  BY <1>2, <1>3 DEF IInv, ReadsInside
<1>5. ASSUME NEW j \in Impl, impl'[j].state = "valid" PROVE AllInside(j)'
  <2>1. j # i /\ impl'[j] = impl[j]  BY <1>1, <1>5
  <2>2. AllInside(j)  BY <1>5, <2>1 DEF IInv, Usable
  <2> QED  BY <2>1, <2>2 DEF AllInside, Sized, Start
<1> QED  BY <1>1, <1>4, <1>5 DEF Usable

\* Blocks are deleted; the others keep their file, and those that are valid
\* afterwards have their tensors inside.
LEMMA Deleting ==
  ASSUME IInv, NEW D \in SUBSET Impl, Closed(D),
         impl' \in [Impl -> Block],
         \A i \in D : impl'[i] = NoImpl,
         \A i \in Impl \ D : /\ impl'[i].pos = impl[i].pos /\ impl'[i].size = impl[i].size
                             /\ impl'[i].dataStart = impl[i].dataStart
                             /\ impl'[i].tensors = impl[i].tensors
                             /\ impl'[i].state = "valid" => AllInside(i)
  PROVE  /\ fds' = fds \ D /\ maps' = maps \ D
         /\ views' \subseteq views /\ touched' \subseteq touched /\ advised' \subseteq advised
         /\ ReadsInside'
         /\ Usable'
<1>1. fds' = fds \ D /\ maps' = maps \ D
      /\ views' \subseteq views /\ touched' \subseteq touched /\ advised' \subseteq advised
  BY DEF Closed
<1>2. ASSUME NEW i \in Impl PROVE impl'[i].pos <= impl'[i].size
  BY NoImplBlock DEF IInv, ReadsInside
<1>3. ASSUME NEW v \in views'
      PROVE  v.impl \in maps' /\ v.lo + v.size <= impl'[v.impl].size
  BY <1>1 DEF IInv, ReadsInside, TypeOK, Closed
<1>4. ASSUME NEW b \in touched' PROVE b.impl \in maps' /\ b.byte < impl'[b.impl].size
  BY <1>1 DEF IInv, ReadsInside, TypeOK, Closed
<1>5. ASSUME NEW i \in Impl, impl'[i].state = "valid" PROVE AllInside(i)'
  <2>1. i \notin D  BY <1>5, NoImplBlock
  <2> QED  BY <1>5, <2>1 DEF AllInside, Sized, Start
<1> QED  BY <1>1, <1>2, <1>3, <1>4, <1>5 DEF ReadsInside, Usable

\* The block of a call in progress.
LEMMA CallBlock ==
  ASSUME IInv, call # Idle
  PROVE  /\ call \in [impl : Impl, phase : Phases, to : Handle \cup {"probe"}]
         /\ call.impl \in Impl
         /\ impl[call.impl].state = "opening"
         /\ \A h \in Handle : handle[h] # call.impl
  BY NullAssumption DEF IInv, TypeOK, Released, CallShape

\* A phase tells that a call is in progress.
LEMMA PhaseCalls == ASSUME call.phase \in Phases PROVE call # Idle
  BY DEF Idle, Phases

\* Blocks with a state are the call's or a handle's.
LEMMA Owners ==
  ASSUME IInv, NEW i \in Impl, impl[i].state # "none"
  PROVE  call.impl = i \/ (impl[i].state = "valid" /\ \E h \in Handle : handle[h] = i)
<1>1. CASE call.impl = i  BY <1>1
<1>2. ASSUME NEW h \in Handle, handle[h] = i PROVE impl[i].state = "valid"
  BY <1>2, NullAssumption DEF IInv, Released
<1> QED  BY <1>1, <1>2 DEF IInv, Released

-----------------------------------------------------------------------------
(* Steps that delete blocks. *)

\* Deleting keeps the invariant when every block left has one handle.
LEMMA DeletingKeeps ==
  ASSUME IInv, NEW D \in SUBSET Impl, Deleted(D), call' = Idle,
         handle' \in [Handle -> Impl \cup {Null}],
         \A i \in Impl \ D : impl[i].state # "none" => \E h \in Handle : handle'[h] = i,
         \A h \in Handle : handle'[h] # Null =>
           handle'[h] \notin D /\ \E g \in Handle : handle[g] = handle'[h],
         \A h, g \in Handle : handle'[h] # Null /\ handle'[h] = handle'[g] => h = g
  PROVE  IInv'
<1>1. impl' = [i \in Impl |-> IF i \in D THEN NoImpl ELSE impl[i]] /\ Closed(D)
  BY DEF Deleted
<1>2. impl \in [Impl -> Block]  BY DEF IInv, TypeOK
<1>3. impl' \in [Impl -> Block] /\ (\A i \in D : impl'[i] = NoImpl)
      /\ \A i \in Impl \ D : impl'[i] = impl[i]
  BY <1>1, <1>2, NoImplBlock
<1>4. \A i \in Impl \ D : impl'[i].state = "valid" => AllInside(i)
  BY <1>3 DEF IInv, Usable
<1>5. /\ fds' = fds \ D /\ maps' = maps \ D
      /\ views' \subseteq views /\ touched' \subseteq touched /\ advised' \subseteq advised
      /\ ReadsInside' /\ Usable'
  BY <1>1, <1>3, <1>4, Deleting
<1>6. TypeOK'  BY <1>3, <1>5 DEF IInv, TypeOK
<1>7. Released'
  <2>1. \A i \in Impl : i \in fds' \cup maps' => impl'[i].state # "none"
    BY <1>3, <1>5 DEF IInv, Released
  <2>2. maps' \subseteq fds'  BY <1>5 DEF IInv, Released
  <2>3. \A i \in Impl : impl'[i].state # "none" => \E h \in Handle : handle'[h] = i
    BY <1>3, NoImplBlock
  <2>4. ASSUME NEW h \in Handle, handle'[h] # Null
        PROVE  /\ handle'[h] # call'.impl /\ handle'[h] \in maps'
               /\ impl'[handle'[h]].state = "valid"
               /\ \A g \in Handle : handle'[g] = handle'[h] => g = h
    <3>1. PICK g \in Handle : handle[g] = handle'[h]  BY <2>4
    <3>2. handle[g] \in maps /\ impl[handle[g]].state = "valid" /\ handle[g] \in Impl \ D
      BY <2>4, <3>1 DEF IInv, Released, TypeOK
    <3> QED  BY <1>3, <1>5, <2>4, <3>1, <3>2 DEF Idle
  <2> QED  BY <2>1, <2>2, <2>3, <2>4 DEF Released
<1>8. CallShape'  BY DEF CallShape
<1> QED  BY <1>5, <1>6, <1>7, <1>8 DEF IInv

\* An exception out of open.
LEMMA ThrowKeeps ==
  ASSUME IInv, call # Idle, Throw
  PROVE  IInv'
<1>1. call.impl \in Impl /\ \A h \in Handle : handle[h] # call.impl  BY CallBlock
<1>2. Deleted({call.impl}) /\ call' = Idle /\ handle' = handle  BY DEF Throw
<1>3. \A i \in Impl \ {call.impl} :
        impl[i].state # "none" => \E h \in Handle : handle'[h] = i
  BY <1>2, Owners
<1>4. \A h, g \in Handle : handle[h] # Null /\ handle[h] = handle[g] => h = g
  BY DEF IInv, Released
<1>5. handle \in [Handle -> Impl \cup {Null}]  BY DEF IInv, TypeOK
<1>6. {call.impl} \in SUBSET Impl  BY <1>1
<1> HIDE DEF IInv
<1> QED  BY <1>1, <1>2, <1>3, <1>4, <1>5, <1>6, DeletingKeeps

\* probe_gguf destroys its file.
LEMMA ProbeKeeps ==
  ASSUME IInv, ReturnProbe
  PROVE  IInv'
<1>0. call # Idle  BY PhaseCalls DEF ReturnProbe, Phases
<1>1. call.impl \in Impl /\ \A h \in Handle : handle[h] # call.impl  BY <1>0, CallBlock
<1>2. Deleted({call.impl}) /\ call' = Idle /\ handle' = handle  BY DEF ReturnProbe
<1>3. \A i \in Impl \ {call.impl} :
        impl[i].state # "none" => \E h \in Handle : handle'[h] = i
  BY <1>2, Owners
<1>4. \A h, g \in Handle : handle[h] # Null /\ handle[h] = handle[g] => h = g
  BY DEF IInv, Released
<1>5. handle \in [Handle -> Impl \cup {Null}]  BY DEF IInv, TypeOK
<1>6. {call.impl} \in SUBSET Impl  BY <1>1
<1> QED  BY <1>1, <1>2, <1>3, <1>4, <1>5, <1>6, DeletingKeeps

\* A move between handles.
LEMMA MoveKeeps ==
  ASSUME IInv, NEW h \in Handle, NEW g \in Handle, MoveAssign(h, g)
  PROVE  IInv'
<1> DEFINE D == {handle[h]} \cap Impl
<1>1. call' = Idle /\ call = Idle /\ Deleted(D) /\ h # g
      /\ handle' = [handle EXCEPT ![h] = handle[g], ![g] = Null]
  BY DEF MoveAssign
<1>2. handle \in [Handle -> Impl \cup {Null}]  BY DEF IInv, TypeOK
<1>3. \A x, y \in Handle : handle[x] # Null /\ handle[x] = handle[y] => x = y
  BY DEF IInv, Released
<1>4. handle' \in [Handle -> Impl \cup {Null}] /\ handle'[h] = handle[g] /\ handle'[g] = Null
      /\ \A x \in Handle \ {h, g} : handle'[x] = handle[x]
  BY <1>1, <1>2
<1>5. ASSUME NEW i \in Impl \ D, impl[i].state # "none"
      PROVE  \E x \in Handle : handle'[x] = i
  <2>1. PICK x \in Handle : handle[x] = i
    BY <1>1, <1>5, Owners, NullAssumption DEF Idle
  <2>2. x # h  BY <1>5, <2>1
  <2>3. CASE x = g  BY <1>4, <2>1, <2>3
  <2>4. CASE x # g  BY <1>4, <2>1, <2>2, <2>4
  <2> QED  BY <2>3, <2>4
<1>6. \A x \in Handle : handle'[x] # Null =>
        handle'[x] \notin D /\ \E y \in Handle : handle[y] = handle'[x]
  BY <1>1, <1>2, <1>3, <1>4
<1>7. \A x, y \in Handle : handle'[x] # Null /\ handle'[x] = handle'[y] => x = y
  BY <1>1, <1>3, <1>4
<1>8. D \in SUBSET Impl  OBVIOUS
<1> HIDE DEF D
<1> QED  BY <1>1, <1>4, <1>5, <1>6, <1>7, <1>8, DeletingKeeps

\* A handle gives its file up.
LEMMA DropKeeps ==
  ASSUME IInv, NEW h \in Handle, Drop(h)
  PROVE  IInv'
<1>1. call' = Idle /\ call = Idle /\ Deleted({handle[h]}) /\ handle[h] # Null
      /\ handle' = [handle EXCEPT ![h] = Null]
  BY DEF Drop
<1>2. handle \in [Handle -> Impl \cup {Null}]  BY DEF IInv, TypeOK
<1>3. \A x, y \in Handle : handle[x] # Null /\ handle[x] = handle[y] => x = y
  BY DEF IInv, Released
<1>4. handle' \in [Handle -> Impl \cup {Null}] /\ handle'[h] = Null
      /\ \A x \in Handle \ {h} : handle'[x] = handle[x]
  BY <1>1, <1>2
<1>5. ASSUME NEW i \in Impl \ {handle[h]}, impl[i].state # "none"
      PROVE  \E x \in Handle : handle'[x] = i
  <2>1. PICK x \in Handle : handle[x] = i
    BY <1>1, <1>5, Owners, NullAssumption DEF Idle
  <2> QED  BY <1>4, <1>5, <2>1
<1>6. \A x \in Handle : handle'[x] # Null =>
        handle'[x] \notin {handle[h]} /\ \E y \in Handle : handle[y] = handle'[x]
  BY <1>1, <1>3, <1>4
<1>7. \A x, y \in Handle : handle'[x] # Null /\ handle'[x] = handle'[y] => x = y
  BY <1>3, <1>4
<1>8. {handle[h]} \in SUBSET Impl  BY <1>1, <1>2
<1> QED  BY <1>1, <1>4, <1>5, <1>6, <1>7, <1>8, DeletingKeeps

\* open returns its file into a handle.
LEMMA ReturnKeeps ==
  ASSUME IInv, ReturnFile
  PROVE  IInv'
<1> DEFINE D == {handle[call.to]} \cap Impl
           c == call.impl
<1>0. call # Idle  BY PhaseCalls DEF ReturnFile, Phases
<1>1. c \in Impl /\ impl[c].state = "opening" /\ call.to \in Handle
      /\ \A x \in Handle : handle[x] # c
  BY <1>0, CallBlock DEF ReturnFile
<1>2. /\ Closed(D) /\ call' = Idle /\ AllInside(c)
      /\ handle' = [handle EXCEPT ![call.to] = c]
      /\ impl' = [i \in Impl |-> IF i \in D THEN NoImpl
                                 ELSE IF i = c THEN [impl[i] EXCEPT !.state = "valid"]
                                 ELSE impl[i]]
  BY DEF ReturnFile, OpenChecks
<1>3. impl \in [Impl -> Block] /\ handle \in [Handle -> Impl \cup {Null}]
  BY DEF IInv, TypeOK
<1>4. c \notin D /\ D \in SUBSET Impl  BY <1>1
<1> DEFINE r == [impl[c] EXCEPT !.state = "valid"]
<1>5. r \in Block /\ r.state = "valid" /\ r.pos = impl[c].pos /\ r.size = impl[c].size
      /\ r.dataStart = impl[c].dataStart /\ r.tensors = impl[c].tensors
  BY <1>1, <1>3 DEF Block
<1>6. impl'[c] = r  BY <1>1, <1>2, <1>4
<1>7. c \in maps /\ c \in fds
  BY <1>0 DEF IInv, CallShape, ReturnFile
<1> HIDE DEF r, D, c
<1>8. \A i \in D : impl'[i] = NoImpl  BY <1>2, <1>4
<1>9. \A i \in Impl \ (D \cup {c}) : impl'[i] = impl[i]  BY <1>2
<1>10. impl' \in [Impl -> Block]
  <2>1. \A i \in Impl : impl'[i] \in Block
    BY <1>3, <1>5, <1>6, <1>8, <1>9, NoImplBlock
  <2>2. impl' = [i \in Impl |-> impl'[i]]  BY <1>2
  <2> QED  BY <2>1, <2>2
<1>11. \A i \in Impl \ D : /\ impl'[i].pos = impl[i].pos /\ impl'[i].size = impl[i].size
                             /\ impl'[i].dataStart = impl[i].dataStart
                             /\ impl'[i].tensors = impl[i].tensors
                             /\ impl'[i].state = "valid" => AllInside(i)
  BY <1>2, <1>5, <1>6, <1>9 DEF IInv, Usable
<1>12. /\ fds' = fds \ D /\ maps' = maps \ D
       /\ views' \subseteq views /\ touched' \subseteq touched /\ advised' \subseteq advised
       /\ ReadsInside' /\ Usable'
  BY <1>2, <1>4, <1>8, <1>10, <1>11, Deleting
<1>13. handle' \in [Handle -> Impl \cup {Null}] /\ handle'[call.to] = c
       /\ \A x \in Handle \ {call.to} : handle'[x] = handle[x]
  BY <1>1, <1>2, <1>3
<1>14. TypeOK'  BY <1>2, <1>10, <1>12, <1>13 DEF IInv, TypeOK
<1>15. Released'
  <2>1. \A i \in Impl : i \in fds' \cup maps' => impl'[i].state # "none"
    BY <1>5, <1>6, <1>9, <1>12 DEF IInv, Released
  <2>2. maps' \subseteq fds'  BY <1>12 DEF IInv, Released
  <2>3. ASSUME NEW i \in Impl, impl'[i].state # "none"
        PROVE  \E x \in Handle : handle'[x] = i
    <3>1. CASE i = c  BY <1>1, <1>13, <3>1
    <3>2. CASE i # c
      <4>1. i \notin D /\ impl[i].state # "none"  BY <1>8, <1>9, <2>3, <3>2, NoImplBlock
      <4>2. PICK x \in Handle : handle[x] = i  BY <3>2, <4>1, Owners DEF c
      <4>3. x # call.to  BY <4>1, <4>2 DEF D
      <4> QED  BY <1>13, <4>2, <4>3
    <3> QED  BY <3>1, <3>2
  <2>4. ASSUME NEW x \in Handle, handle'[x] # Null
        PROVE  /\ handle'[x] # call'.impl /\ handle'[x] \in maps'
               /\ impl'[handle'[x]].state = "valid"
               /\ \A y \in Handle : handle'[y] = handle'[x] => y = x
    <3>1. CASE x = call.to
      <4>1. handle'[x] = c  BY <1>13, <3>1
      <4>2. \A y \in Handle : handle'[y] = c => y = x  BY <1>1, <1>13, <3>1
      <4> QED  BY <1>2, <1>4, <1>5, <1>6, <1>7, <1>12, <2>4, <4>1, <4>2 DEF Idle
    <3>2. CASE x # call.to
      <4>1. handle'[x] = handle[x]  BY <1>13, <3>2
      <4>2. handle[x] \in maps /\ impl[handle[x]].state = "valid" /\ handle[x] \in Impl
            /\ handle[x] # c /\ \A y \in Handle : handle[y] = handle[x] => y = x
        BY <1>1, <1>3, <2>4, <4>1 DEF IInv, Released
      <4>3. handle[x] \notin D  BY <1>1, <3>2, <4>2 DEF D
      <4>4. \A y \in Handle : handle'[y] = handle'[x] => y = x
        BY <1>13, <4>1, <4>2
      <4> QED  BY <1>2, <1>9, <1>12, <2>4, <4>1, <4>2, <4>3, <4>4 DEF Idle
    <3> QED  BY <3>1, <3>2
  <2> QED  BY <2>1, <2>2, <2>3, <2>4 DEF Released
<1>16. CallShape'  BY <1>2 DEF CallShape
<1> QED  BY <1>12, <1>14, <1>15, <1>16 DEF IInv

-----------------------------------------------------------------------------
(* Steps of open. *)

\* A step of open that enters phase q and leaves the block with record r.
LEMMA PhaseKeeps ==
  ASSUME IInv, call # Idle, NEW q \in Phases, NEW r \in Block,
         call' = [call EXCEPT !.phase = q],
         impl' = [impl EXCEPT ![call.impl] = r],
         r.state = "opening", r.pos <= r.size,
         call.impl \in maps => r.size = impl[call.impl].size,
         q \in {"open", "fstat", "mmap"} => r.pos = 0,
         fds \subseteq fds' /\ fds' \subseteq fds \cup {call.impl},
         maps \subseteq maps' /\ maps' \subseteq maps \cup {call.impl},
         call.impl \in fds' <=> q # "open",
         call.impl \in maps' <=> q \notin {"open", "fstat", "mmap"},
         UNCHANGED <<handle, views, touched, advised>>
  PROVE  IInv'
<1> DEFINE c == call.impl
<1>1. /\ call \in [impl : Impl, phase : Phases, to : Handle \cup {"probe"}]
      /\ c \in Impl /\ impl[c].state = "opening" /\ \A h \in Handle : handle[h] # c
  BY CallBlock
<1>2. /\ call' \in [impl : Impl, phase : Phases, to : Handle \cup {"probe"}]
      /\ call'.impl = c /\ call'.phase = q
  BY <1>1
<1> HIDE DEF c
<1>3. /\ impl' \in [Impl -> Block] /\ impl'[c] = r
      /\ \A j \in Impl \ {c} : impl'[j] = impl[j]
      /\ ReadsInside' /\ Usable'
  BY <1>1, OneBlock DEF c
<1>4. TypeOK'
  <2>1. fds' \subseteq Impl /\ maps' \subseteq Impl  BY <1>1 DEF IInv, TypeOK, c
  <2> QED  BY <1>2, <1>3, <2>1 DEF IInv, TypeOK
<1>5. Released'
  <2>1. \A i \in Impl : i \in fds' \cup maps' => impl'[i].state # "none"
    BY <1>3 DEF IInv, Released, c
  <2>2. maps' \subseteq fds'
    <3>1. maps \subseteq fds  BY DEF IInv, Released
    <3>2. c \in maps' => c \in fds'  BY DEF c
    <3> QED  BY <3>1, <3>2 DEF c
  <2>3. \A i \in Impl : impl'[i].state # "none" =>
          call'.impl = i \/ \E h \in Handle : handle'[h] = i
    BY <1>2, <1>3 DEF IInv, Released, c
  <2>4. ASSUME NEW h \in Handle, handle'[h] # Null
        PROVE  /\ handle'[h] # call'.impl /\ handle'[h] \in maps'
               /\ impl'[handle'[h]].state = "valid"
               /\ \A g \in Handle : handle'[g] = handle'[h] => g = h
    <3>1. handle[h] \in maps /\ impl[handle[h]].state = "valid" /\ handle[h] \in Impl
          /\ \A g \in Handle : handle[g] = handle[h] => g = h
      BY <2>4 DEF IInv, Released, TypeOK
    <3> QED  BY <1>1, <1>2, <1>3, <3>1
  <2> QED  BY <2>1, <2>2, <2>3, <2>4 DEF Released
<1>6. CallShape'  BY <1>2, <1>3 DEF CallShape, c
<1> QED  BY <1>3, <1>4, <1>5, <1>6 DEF IInv

\* A call begins.
LEMMA BeginKeeps ==
  ASSUME IInv, NEW i \in Impl, NEW to \in Handle \cup {"probe"}, Begin(i, to)
  PROVE  IInv'
<1> DEFINE r == [NoImpl EXCEPT !.state = "opening"]
<1>1. r \in Block /\ r.state = "opening" /\ r.pos = 0 /\ r.size = 0
  BY NoImplBlock DEF Block
<1>2. /\ call = Idle /\ impl[i].state = "none"
      /\ impl' = [impl EXCEPT ![i] = r]
      /\ call' = [impl |-> i, phase |-> "open", to |-> to]
      /\ UNCHANGED <<fds, maps, handle, views, touched, advised>>
  BY DEF Begin
<1> HIDE DEF r
<1>3. i \notin maps /\ i \notin fds  BY <1>2 DEF IInv, Released
<1>4. /\ impl' \in [Impl -> Block] /\ impl'[i] = r
      /\ \A j \in Impl \ {i} : impl'[j] = impl[j]
      /\ ReadsInside' /\ Usable'
  <2>1. r.pos <= r.size  BY <1>1
  <2>2. maps \subseteq maps'  BY <1>2
  <2> QED  BY <1>1, <1>2, <1>3, <2>1, <2>2, OneBlock
<1>5. call' \in [impl : Impl, phase : Phases, to : Handle \cup {"probe"}]
  BY <1>2 DEF Phases
<1>6. TypeOK'  BY <1>2, <1>4, <1>5 DEF IInv, TypeOK
<1>7. Released'
  <2>1. \A h \in Handle : handle[h] # i
    BY <1>2, NullAssumption DEF IInv, Released
  <2>2. \A j \in Impl : impl'[j].state # "none" =>
          call'.impl = j \/ \E h \in Handle : handle'[h] = j
    BY <1>2, <1>4, NullAssumption DEF IInv, Released, Idle
  <2>3. ASSUME NEW h \in Handle, handle'[h] # Null
        PROVE  /\ handle'[h] # call'.impl /\ handle'[h] \in maps'
               /\ impl'[handle'[h]].state = "valid"
               /\ \A g \in Handle : handle'[g] = handle'[h] => g = h
    <3>1. handle[h] \in maps /\ impl[handle[h]].state = "valid" /\ handle[h] \in Impl
          /\ \A g \in Handle : handle[g] = handle[h] => g = h
      BY <1>2, <2>3 DEF IInv, Released, TypeOK
    <3> QED  BY <1>2, <1>4, <2>1, <3>1
  <2> QED  BY <1>1, <1>2, <1>4, <2>2, <2>3 DEF IInv, Released
<1>8. CallShape'  BY <1>1, <1>2, <1>3, <1>4 DEF CallShape
<1> QED  BY <1>4, <1>6, <1>7, <1>8 DEF IInv

\* The steps of open that neither throw nor return.
LEMMA OpeningKeeps ==
  ASSUME IInv,
         \/ OpenFd \/ Fstat \/ Mmap \/ ReadHeader \/ ReadMetadata \/ MetadataDone
         \/ ReadTensor \/ TensorsDone
  PROVE  IInv'
<1> DEFINE c == call.impl
           old == impl[c]
<1>1. call # Idle
  <2>1. call.phase \in Phases
    BY DEF OpenFd, Fstat, Mmap, ReadHeader, ReadMetadata, MetadataDone, ReadTensor,
           TensorsDone, Phases
  <2> QED  BY <2>1, PhaseCalls
<1>2. c \in Impl /\ old.state = "opening" /\ call.phase \in Phases
  BY <1>1, CallBlock
<1>3. old \in Block /\ impl = [impl EXCEPT ![c] = old]
  BY <1>2 DEF IInv, TypeOK
<1>4. call.impl \in fds <=> call.phase # "open"
  BY <1>1 DEF IInv, CallShape
<1>5. call.impl \in maps <=> call.phase \notin {"open", "fstat", "mmap"}
  BY <1>1 DEF IInv, CallShape
<1>6. call.phase \in {"open", "fstat", "mmap"} => old.pos = 0
  BY <1>1 DEF IInv, CallShape
<1>7. old.pos <= old.size  BY <1>2 DEF IInv, ReadsInside
<1>8. old.pos \in Nat /\ old.size \in 0 .. Word - 1 /\ old.size \in Nat /\ Word \in Nat
      /\ old.alignment \in 0 .. Word32 - 1 /\ old.alignment \in Nat
      /\ old.metadataRead \in Nat /\ old.tensors \in Seq(TensorEntry)
  <2> HIDE DEF old
  <2>1. Word \in Nat /\ Word32 \in Nat  BY WordAssumption
  <2>2. old.pos \in Nat /\ old.size \in 0 .. Word - 1 /\ old.alignment \in 0 .. Word32 - 1
        /\ old.metadataRead \in Nat /\ old.tensors \in Seq(TensorEntry)
    BY <1>3 DEF Block
  <2> QED  BY <2>1, <2>2
<1>9. call \in [impl : Impl, phase : Phases, to : Handle \cup {"probe"}]
  BY <1>1, CallBlock
<1> HIDE DEF IInv
<1>10. CASE OpenFd
  <2>1. call' = [call EXCEPT !.phase = "fstat"] /\ impl' = [impl EXCEPT ![call.impl] = old]
    BY <1>3, <1>10 DEF OpenFd, Enter
  <2>2. fds' = fds \cup {call.impl} /\ maps' = maps /\ call.phase = "open"
        /\ UNCHANGED <<handle, views, touched, advised>>
    BY <1>10 DEF OpenFd
  <2>3. "fstat" \in Phases  BY DEF Phases
  <2> HIDE DEF old, c
  <2> QED  BY <1>1, <1>2, <1>3, <1>5, <1>6, <1>7, <2>1, <2>2, <2>3, PhaseKeeps DEF old, c
<1>11. CASE Fstat
  <2>1. PICK n \in FileSizes : impl' = [impl EXCEPT ![c].size = n]
    BY <1>11 DEF Fstat
  <2> DEFINE r == [old EXCEPT !.size = n]
  <2>2. n \in 0 .. Word - 1 /\ n \in Nat  BY FileAssumption, WordAssumption
  <2>3. r \in Block /\ r.state = "opening" /\ r.pos = old.pos /\ r.size = n
    BY <1>2, <1>3, <2>2 DEF Block
  <2>4. impl' = [impl EXCEPT ![call.impl] = r]  BY <2>1
  <2>5. call' = [call EXCEPT !.phase = "mmap"] /\ fds' = fds /\ maps' = maps
        /\ call.phase = "fstat" /\ UNCHANGED <<handle, views, touched, advised>>
    BY <1>11 DEF Fstat, Enter
  <2>6. "mmap" \in Phases  BY DEF Phases
  <2>7. r.pos <= r.size /\ r.pos = 0  BY <1>6, <2>2, <2>3, <2>5
  <2> HIDE DEF old, c, r
  <2> QED  BY <1>1, <1>4, <1>5, <2>3, <2>4, <2>5, <2>6, <2>7, PhaseKeeps
<1>12. CASE Mmap
  <2>1. call' = [call EXCEPT !.phase = "header"] /\ impl' = [impl EXCEPT ![call.impl] = old]
    BY <1>3, <1>12 DEF Mmap, Enter
  <2>2. maps' = maps \cup {call.impl} /\ fds' = fds /\ call.phase = "mmap"
        /\ UNCHANGED <<handle, views, touched, advised>>
    BY <1>12 DEF Mmap
  <2>3. "header" \in Phases  BY DEF Phases
  <2> HIDE DEF old, c
  <2> QED  BY <1>1, <1>2, <1>3, <1>4, <1>7, <2>1, <2>2, <2>3, PhaseKeeps DEF old, c
<1>13. CASE ReadHeader
  <2>1. PICK v \in Versions, n, m \in Counts :
          impl' = [impl EXCEPT ![c] = [old EXCEPT !.pos = HeaderLen, !.version = v,
                                                  !.tensorCount = n, !.metadataCount = m]]
    BY <1>13 DEF ReadHeader, Cur
  <2> DEFINE r == [old EXCEPT !.pos = HeaderLen, !.version = v,
                              !.tensorCount = n, !.metadataCount = m]
  <2>2. v \in Nat /\ n \in Nat /\ m \in Nat /\ HeaderLen \in Nat
    BY CountAssumption, WordAssumption
  <2>3. r \in Block /\ r.state = "opening" /\ r.pos = HeaderLen /\ r.size = old.size
    BY <1>2, <1>3, <2>2 DEF Block
  <2>4. impl' = [impl EXCEPT ![call.impl] = r]  BY <2>1
  <2>5. call' = [call EXCEPT !.phase = "metadata"] /\ fds' = fds /\ maps' = maps
        /\ call.phase = "header" /\ UNCHANGED <<handle, views, touched, advised>>
    BY <1>13 DEF ReadHeader, Enter
  <2>6. "metadata" \in Phases  BY DEF Phases
  <2>7. r.pos <= r.size  BY <1>13, <2>3 DEF ReadHeader, Room, Cur
  <2> HIDE DEF r
  <2> QED  BY <1>1, <1>4, <1>5, <2>3, <2>4, <2>5, <2>6, <2>7, PhaseKeeps
<1>14. CASE ReadMetadata
  <2>1. PICK e \in MetadataEntry :
          /\ Room(e.len)
          /\ impl' = [impl EXCEPT ![c] =
                         [old EXCEPT !.pos = old.pos + e.len,
                                     !.metadataRead = old.metadataRead + 1,
                                     !.alignment = SetAlignment(e, old.alignment)]]
    BY <1>14 DEF ReadMetadata, Cur
  <2>2. e.len \in Nat /\ e.value \in Nat  BY MetadataAssumption, WordAssumption
  <2>3. e.value % Word32 \in 0 .. Word32 - 1  BY <2>2, WordAssumption, SMT
  <2>4. SetAlignment(e, old.alignment) \in 0 .. Word32 - 1
    BY <1>8, <2>3 DEF SetAlignment
  <2> DEFINE a == SetAlignment(e, old.alignment)
             r == [old EXCEPT !.pos = old.pos + e.len, !.metadataRead = old.metadataRead + 1,
                              !.alignment = a]
  <2>5. impl' = [impl EXCEPT ![call.impl] = r]  BY <2>1
  <2>6. old.pos + e.len \in Nat /\ old.metadataRead + 1 \in Nat  BY <1>8, <2>2
  <2>7. old.pos + e.len <= old.size
    BY <1>8, <2>1, <2>2 DEF Room, Cur
  <2>8. a \in 0 .. Word32 - 1  BY <2>4
  <2> HIDE DEF a
  <2>9. r \in Block /\ r.state = "opening" /\ r.pos = old.pos + e.len /\ r.size = old.size
    BY <1>2, <1>3, <2>6, <2>8 DEF Block
  <2>10. call' = [call EXCEPT !.phase = "metadata"] /\ fds' = fds /\ maps' = maps
         /\ call.phase = "metadata" /\ UNCHANGED <<handle, views, touched, advised>>
    BY <1>9, <1>14 DEF ReadMetadata
  <2>11. "metadata" \in Phases  BY DEF Phases
  <2>12. r.pos <= r.size  BY <2>7, <2>9
  <2> HIDE DEF r
  <2> QED  BY <1>1, <1>4, <1>5, <2>5, <2>9, <2>10, <2>11, <2>12, PhaseKeeps
<1>15. CASE MetadataDone
  <2>1. call' = [call EXCEPT !.phase = "tensors"] /\ impl' = [impl EXCEPT ![call.impl] = old]
    BY <1>3, <1>15 DEF MetadataDone, Enter
  <2>2. maps' = maps /\ fds' = fds /\ call.phase = "metadata"
        /\ UNCHANGED <<handle, views, touched, advised>>
    BY <1>15 DEF MetadataDone
  <2>3. "tensors" \in Phases  BY DEF Phases
  <2> HIDE DEF old, c
  <2> QED  BY <1>1, <1>2, <1>3, <1>4, <1>5, <1>7, <2>1, <2>2, <2>3, PhaseKeeps DEF old, c
<1>16. CASE ReadTensor
  <2>1. PICK t \in TensorEntry :
          /\ Room(t.len)
          /\ impl' = [impl EXCEPT ![c] = [old EXCEPT !.pos = old.pos + t.len,
                                                     !.tensors = Append(old.tensors, t)]]
    BY <1>16 DEF ReadTensor, Cur
  <2>2. t.len \in Nat  BY TensorAssumption
  <2> DEFINE s == Append(old.tensors, t)
             r == [old EXCEPT !.pos = old.pos + t.len, !.tensors = s]
  <2>3. impl' = [impl EXCEPT ![call.impl] = r]  BY <2>1
  <2>4. s \in Seq(TensorEntry)  BY <1>8
  <2>5. old.pos + t.len \in Nat  BY <1>8, <2>2
  <2>6. old.pos + t.len <= old.size  BY <1>8, <2>1, <2>2 DEF Room, Cur
  <2> HIDE DEF s
  <2>7. r \in Block /\ r.state = "opening" /\ r.pos = old.pos + t.len /\ r.size = old.size
    BY <1>2, <1>3, <2>4, <2>5 DEF Block
  <2>8. call' = [call EXCEPT !.phase = "tensors"] /\ fds' = fds /\ maps' = maps
        /\ call.phase = "tensors" /\ UNCHANGED <<handle, views, touched, advised>>
    BY <1>9, <1>16 DEF ReadTensor
  <2>9. "tensors" \in Phases  BY DEF Phases
  <2>10. r.pos <= r.size  BY <2>6, <2>7
  <2> HIDE DEF r
  <2> QED  BY <1>1, <1>4, <1>5, <2>3, <2>7, <2>8, <2>9, <2>10, PhaseKeeps
<1>17. CASE TensorsDone
  <2> DEFINE d == AlignUp(old.pos, old.alignment)
             r == [old EXCEPT !.dataStart = d]
  <2>1. impl' = [impl EXCEPT ![call.impl] = r]  BY <1>17 DEF TensorsDone, Cur
  <2>2. old.pos \in 0 .. Word - 1  BY <1>7, <1>8
  <2>3. d \in 0 .. Word - 1  BY <1>8, <2>2, AlignUpWord
  <2> HIDE DEF d
  <2>4. r \in Block /\ r.state = "opening" /\ r.pos = old.pos /\ r.size = old.size
    BY <1>2, <1>3, <2>3 DEF Block
  <2>5. call' = [call EXCEPT !.phase = "bounds"] /\ fds' = fds /\ maps' = maps
        /\ call.phase = "tensors" /\ UNCHANGED <<handle, views, touched, advised>>
    BY <1>17 DEF TensorsDone, Enter
  <2>6. "bounds" \in Phases  BY DEF Phases
  <2>7. r.pos <= r.size  BY <1>7, <2>4
  <2> HIDE DEF r
  <2> QED  BY <1>1, <1>4, <1>5, <2>1, <2>4, <2>5, <2>6, <2>7, PhaseKeeps
<1> QED  BY <1>10, <1>11, <1>12, <1>13, <1>14, <1>15, <1>16, <1>17

-----------------------------------------------------------------------------
(* Steps of the client. *)

\* A tensor of a block is an entry, with 64-bit fields.
LEMMA EntryFields ==
  ASSUME TypeOK, NEW i \in Impl, NEW k \in 1 .. Len(impl[i].tensors)
  PROVE  LET t == impl[i].tensors[k]
         IN  t \in TensorEntry /\ t.bytes \in Nat /\ t.offset \in Nat
<1>1. impl[i].tensors \in Seq(TensorEntry)  BY DEF TypeOK, Block
<1> DEFINE t == impl[i].tensors[k]
<1>2. t \in TensorEntry  BY <1>1
<1> HIDE DEF t
<1>3. t.bytes \in 0 .. Word - 1 /\ t.offset \in 0 .. Word - 1  BY <1>2, TensorAssumption
<1>4. t.bytes \in Nat /\ t.offset \in Nat  BY <1>3, WordAssumption
<1> QED  BY <1>2, <1>4 DEF t

\* A span that passes the check lies in the file of its handle.
LEMMA TensorBytesKeeps ==
  ASSUME IInv, NEW h \in Handle, NEW t \in Infos, TensorBytes(h, t)
  PROVE  IInv'
<1>1. UNCHANGED <<impl, fds, maps, call, handle, touched, advised>>  BY DEF TensorBytes
<1>2. t.bytes \in Nat /\ t.offset \in Nat
  <2>1. PICK i \in Impl : \E k \in 1 .. Len(impl[i].tensors) : t = impl[i].tensors[k]
    BY DEF Infos
  <2> QED  BY <2>1, EntryFields DEF IInv
<1>3. \A v \in views' : /\ v \in [impl : Impl, lo : Nat, size : Nat]
                        /\ v.impl \in maps /\ v.lo + v.size <= impl[v.impl].size
  <2>1. CASE views' = views  BY <2>1 DEF IInv, TypeOK, ReadsInside
  <2>2. CASE views' # views
    <3> DEFINE i == handle[h]
               lo == Start(i, t)
               new == [impl |-> i, lo |-> lo, size |-> t.bytes]
    <3>1. i # Null /\ InBounds(impl[i].size, lo, t.bytes) /\ views' = views \cup {new}
      BY <2>2 DEF TensorBytes
    <3>2. i \in Impl /\ i \in maps  BY <3>1 DEF IInv, TypeOK, Released
    <3>3. lo \in 0 .. Word - 1  BY <1>2, <3>2, StartWord DEF IInv
    <3>4. impl[i].size \in 0 .. Word - 1  BY <3>2 DEF IInv, TypeOK, Block
    <3>5. lo \in Nat /\ impl[i].size \in Nat  BY <3>3, <3>4, WordAssumption
    <3> HIDE DEF lo, i
    <3>6. lo + t.bytes <= impl[i].size  BY <1>2, <3>1, <3>5 DEF InBounds
    <3>7. new \in [impl : Impl, lo : Nat, size : Nat] /\ new.impl = i /\ new.lo = lo
          /\ new.size = t.bytes
      BY <1>2, <3>2, <3>5
    <3> HIDE DEF new
    <3> QED  BY <3>1, <3>2, <3>6, <3>7 DEF IInv, TypeOK, ReadsInside
  <2> QED  BY <2>1, <2>2
<1>4. TypeOK'  BY <1>1, <1>3 DEF IInv, TypeOK
<1>5. ReadsInside'  BY <1>1, <1>3 DEF IInv, ReadsInside
<1>6. Released' /\ CallShape'  BY <1>1 DEF IInv, Released, CallShape
<1>7. Usable'  BY <1>1 DEF IInv, Usable, AllInside, Sized, Start
<1> QED  BY <1>4, <1>5, <1>6, <1>7 DEF IInv

\* The bytes prefetch reads are bytes of the tensor.
LEMMA TouchedInside ==
  ASSUME NEW lo \in Nat, NEW n \in Nat \ {0}, NEW b \in TouchedBytes(lo, n)
  PROVE  b \in Nat /\ b < lo + n
<1>1. PICK k \in 0 .. n - 1 : b = lo + k  BY DEF TouchedBytes
<1> QED  BY <1>1

\* Pages have numbers that are not negative.
LEMMA PagesNat ==
  ASSUME NEW lo \in Nat, NEW n \in Nat \ {0}, NEW p \in Pages(lo, n)
  PROVE  p \in Nat
<1>1. Page \in Nat \ {0}  BY WordAssumption
<1>2. lo \div Page \in Nat  BY <1>1, SMT
<1> DEFINE d == lo \div Page
           e == (lo + n - 1) \div Page
<1>3. d \in Nat /\ p \in d .. e  BY <1>2 DEF Pages
<1>4. lo + n - 1 \in Nat  OBVIOUS
<1>5. e \in Nat  BY <1>1, <1>4, SMT
<1> HIDE DEF d, e
<1> QED  BY <1>3, <1>5

\* Prefetching an opened file.
LEMMA PrefetchKeeps ==
  ASSUME IInv, NEW h \in Handle, NEW touch \in BOOLEAN, Prefetch(h, touch)
  PROVE  IInv'
<1> DEFINE i == handle[h]
           bytes == UNION {TouchedBytes(Start(i, t), t.bytes) : t \in Sized(i)}
           pages == UNION {Pages(Start(i, t), t.bytes) :
                             t \in {s \in Sized(i) : AdviceTaken(Start(i, s))}}
<1>1. /\ UNCHANGED <<impl, fds, maps, call, handle, views>> /\ i # Null /\ AllInside(i)
      /\ advised' = advised \cup {[impl |-> i, page |-> p] : p \in pages}
      /\ touched' \subseteq {[impl |-> i, byte |-> b] : b \in bytes}
  BY DEF Prefetch
<1>2. i \in Impl /\ i \in maps  BY <1>1 DEF IInv, TypeOK, Released
<1>3. ASSUME NEW t \in Sized(i)
      PROVE  /\ Start(i, t) \in Nat /\ t.bytes \in Nat \ {0}
             /\ Start(i, t) + t.bytes <= impl[i].size
  <2>1. PICK k \in 1 .. Len(impl[i].tensors) : t = impl[i].tensors[k]  BY DEF Sized
  <2>2. t.bytes \in Nat /\ t.offset \in Nat  BY <1>2, <2>1, EntryFields DEF IInv
  <2>3. t.bytes # 0  BY DEF Sized
  <2>4. Start(i, t) \in 0 .. Word - 1  BY <1>2, <2>2, StartWord DEF IInv
  <2>5. impl[i].size \in 0 .. Word - 1  BY <1>2 DEF IInv, TypeOK, Block
  <2>6. InBounds(impl[i].size, Start(i, t), t.bytes)  BY <1>1 DEF AllInside
  <2> DEFINE lo == Start(i, t)
             z == impl[i].size
  <2>7. lo \in Nat /\ z \in Nat  BY <2>4, <2>5, WordAssumption
  <2>8. lo <= z /\ t.bytes <= z - lo  BY <2>6 DEF InBounds
  <2> HIDE DEF lo, z
  <2>9. lo + t.bytes <= z  BY <2>2, <2>7, <2>8
  <2> QED  BY <2>2, <2>3, <2>7, <2>9 DEF lo, z
<1> DEFINE z == impl[i].size
<1>4. ASSUME NEW b \in bytes PROVE b \in Nat /\ b < z
  <2>1. PICK t \in Sized(i) : b \in TouchedBytes(Start(i, t), t.bytes)  OBVIOUS
  <2> DEFINE lo == Start(i, t)
  <2>2. lo \in Nat /\ t.bytes \in Nat \ {0} /\ lo + t.bytes <= z  BY <1>3
  <2> HIDE DEF lo
  <2>3. b \in Nat /\ b < lo + t.bytes  BY <2>1, <2>2, TouchedInside DEF lo
  <2>4. z \in Nat
    <3>1. z \in 0 .. Word - 1  BY <1>2 DEF IInv, TypeOK, Block
    <3> HIDE DEF z
    <3> QED  BY <3>1, WordAssumption
  <2> HIDE DEF z
  <2> QED  BY <2>2, <2>3, <2>4
<1>5. ASSUME NEW p \in pages PROVE p \in Nat
  <2>1. PICK t \in Sized(i) : p \in Pages(Start(i, t), t.bytes)  OBVIOUS
  <2> QED  BY <1>3, <2>1, PagesNat
<1> HIDE DEF bytes, pages, z
<1>6. TypeOK'
  <2>1. touched' \subseteq [impl : Impl, byte : Nat]  BY <1>1, <1>2, <1>4
  <2>2. advised' \subseteq [impl : Impl, page : Nat]
    BY <1>1, <1>2, <1>5 DEF IInv, TypeOK
  <2> QED  BY <1>1, <2>1, <2>2 DEF IInv, TypeOK
<1>7. ReadsInside'
  <2>1. \A b \in touched' : b.impl \in maps' /\ b.byte < impl'[b.impl].size
    BY <1>1, <1>2, <1>4 DEF z
  <2> QED  BY <1>1, <2>1 DEF IInv, ReadsInside
<1>8. Released' /\ CallShape'  BY <1>1 DEF IInv, Released, CallShape
<1>9. Usable'  BY <1>1 DEF IInv, Usable, AllInside, Sized, Start
<1> QED  BY <1>6, <1>7, <1>8, <1>9 DEF IInv

\* A step that changes the outcome alone, or nothing.
LEMMA SameKeeps ==
  ASSUME IInv, UNCHANGED <<impl, fds, maps, call, handle, views, touched, advised>>
  PROVE  IInv'
<1>1. TypeOK' /\ Released' /\ ReadsInside' /\ CallShape'
  BY DEF IInv, TypeOK, Released, ReadsInside, CallShape
<1>2. Usable'  BY DEF IInv, Usable, AllInside, Sized, Start
<1> QED  BY <1>1, <1>2 DEF IInv

-----------------------------------------------------------------------------
(* The theorems. *)

LEMMA IInvInit == Init => IInv
<1> SUFFICES ASSUME Init PROVE IInv  OBVIOUS
<1> USE DEF Init
<1>1. TypeOK  BY NoImplBlock DEF TypeOK
<1>2. Released /\ ReadsInside /\ CallShape /\ Usable
  BY NoImplBlock DEF Released, ReadsInside, CallShape, Usable
<1> QED  BY <1>1, <1>2 DEF IInv

LEMMA IInvNext == IInv /\ [Next]_vars => IInv'
<1> SUFFICES ASSUME IInv, [Next]_vars PROVE IInv'  OBVIOUS
<1>1. CASE UNCHANGED vars  BY <1>1, SameKeeps DEF vars
<1>2. CASE Opening
  <2>1. CASE SystemCallFails \/ HeaderThrows \/ MetadataThrows \/ TensorThrows \/ BoundsThrow
    <3>1. Throw
      BY <2>1 DEF SystemCallFails, HeaderThrows, MetadataThrows, TensorThrows, BoundsThrow
    <3>2. call.phase \in Phases
      BY <2>1 DEF SystemCallFails, HeaderThrows, MetadataThrows, TensorThrows, BoundsThrow,
                  Phases
    <3> QED  BY <3>1, <3>2, PhaseCalls, ThrowKeeps
  <2>2. CASE \/ OpenFd \/ Fstat \/ Mmap \/ ReadHeader \/ ReadMetadata \/ MetadataDone
             \/ ReadTensor \/ TensorsDone
    BY <2>2, OpeningKeeps
  <2>3. CASE ReturnFile  BY <2>3, ReturnKeeps
  <2>4. CASE ReturnProbe  BY <2>4, ProbeKeeps
  <2> QED  BY <1>2, <2>1, <2>2, <2>3, <2>4 DEF Opening
<1>3. ASSUME NEW i \in Impl, NEW to \in Handle \cup {"probe"}, Begin(i, to) PROVE IInv'
  BY <1>3, BeginKeeps
<1>4. ASSUME NEW h \in Handle, NEW g \in Handle, MoveAssign(h, g) PROVE IInv'
  BY <1>4, MoveKeeps
<1>5. ASSUME NEW h \in Handle, Drop(h) PROVE IInv'  BY <1>5, DropKeeps
<1>6. ASSUME NEW h \in Handle, PrefetchThrows(h) PROVE IInv'
  BY <1>6, SameKeeps DEF PrefetchThrows
<1>7. ASSUME NEW h \in Handle, NEW touch \in BOOLEAN, Prefetch(h, touch) PROVE IInv'
  BY <1>7, PrefetchKeeps
<1>8. ASSUME NEW h \in Handle, NEW t \in Infos, TensorBytes(h, t) PROVE IInv'
  BY <1>8, TensorBytesKeeps
<1> QED  BY <1>1, <1>2, <1>3, <1>4, <1>5, <1>6, <1>7, <1>8 DEF Next

LEMMA Invariance == Spec => []IInv
  BY IInvInit, IInvNext, PTL DEF Spec

\* Every variable has its type; alignment and data_start keep their widths.
THEOREM TypeCorrect == Spec => []TypeOK
<1>1. IInv => TypeOK  BY DEF IInv
<1> QED  BY <1>1, Invariance, PTL

\* Whichever step of open fails, and however files move between handles, every
\* descriptor and mapping has exactly one owner (gguf.cpp 208-223, 225-305).
THEOREM NothingLeaks == Spec => []Released
<1>1. IInv => Released  BY DEF IInv
<1> QED  BY <1>1, Invariance, PTL

\* The cursor, the spans of tensor_bytes and the reads of prefetch_tensors
\* stay inside a mapping that exists (gguf.cpp 36-38, 294-300, 335-366).
THEOREM ReadsStayInside == Spec => []ReadsInside
<1>1. IInv => ReadsInside  BY DEF IInv
<1> QED  BY <1>1, Invariance, PTL

\* Only PrefetchThrows and TensorBytes could report such a bounds error, and the
\* invariant keeps them from doing so.
LEMMA OutcomeNext == IInv /\ CheckedOnce /\ [Next]_vars => CheckedOnce'
<1> SUFFICES ASSUME IInv, CheckedOnce, [Next]_vars PROVE CheckedOnce'  OBVIOUS
<1>1. ASSUME NEW h \in Handle, PrefetchThrows(h) PROVE CheckedOnce'
  <2>1. handle[h] # Null => AllInside(handle[h])
    BY DEF IInv, TypeOK, Released, Usable
  <2> QED  BY <1>1, <2>1 DEF PrefetchThrows, CheckedOnce
<1>2. CASE Throw  BY <1>2 DEF Throw, CheckedOnce
<1>3. CASE outcome' = outcome  BY <1>3 DEF CheckedOnce
<1>4. CASE Opening
  BY <1>2, <1>3, <1>4
  DEF Opening, SystemCallFails, OpenFd, Fstat, Mmap, HeaderThrows, ReadHeader, ReadMetadata,
      MetadataThrows, MetadataDone, ReadTensor, TensorThrows, TensorsDone, BoundsThrow,
      ReturnFile, ReturnProbe, CheckedOnce
<1>5. ASSUME NEW i \in Impl, NEW to \in Handle \cup {"probe"}, Begin(i, to)
      PROVE  CheckedOnce'
  BY <1>5 DEF Begin, CheckedOnce
<1>6. ASSUME NEW h \in Handle, NEW g \in Handle, MoveAssign(h, g) PROVE CheckedOnce'
  BY <1>6 DEF MoveAssign, CheckedOnce
<1>7. ASSUME NEW h \in Handle, Drop(h) PROVE CheckedOnce'  BY <1>7 DEF Drop, CheckedOnce
<1>8. ASSUME NEW h \in Handle, NEW touch \in BOOLEAN, Prefetch(h, touch) PROVE CheckedOnce'
  BY <1>8 DEF Prefetch, CheckedOnce
<1>9. ASSUME NEW h \in Handle, NEW t \in Infos, TensorBytes(h, t) PROVE CheckedOnce'
  <2>1. CASE handle[h] = Null
    BY <1>9, <2>1 DEF TensorBytes, CheckedOnce
  <2>2. CASE handle[h] # Null
    <3>1. \A s \in Sized(handle[h]) :
            InBounds(impl[handle[h]].size, Start(handle[h], s), s.bytes)
      BY <2>2 DEF IInv, TypeOK, Released, Usable, AllInside
    <3>2. outcome' = "viewed" \/ (outcome' = OutOfBounds(handle[h], t) /\ t \notin Sized(handle[h]))
      BY <1>9, <2>2, <3>1 DEF TensorBytes
    <3> QED  BY <3>2 DEF OutOfBounds, CheckedOnce
  <2> QED  BY <2>1, <2>2
<1> QED  BY <1>1, <1>3, <1>4, <1>5, <1>6, <1>7, <1>8, <1>9 DEF Next, vars

\* The tensors with bytes of a file that open accepted never fail the bounds
\* check of prefetch_tensors or of tensor_bytes (gguf.cpp 294-300 against 338 and
\* 348-351), however the file was moved.
THEOREM OpenedStaysUsable == Spec => []CheckedOnce
<1>1. Init => CheckedOnce  BY DEF Init, CheckedOnce
<1> QED  BY <1>1, OutcomeNext, Invariance, PTL DEF Spec

-----------------------------------------------------------------------------
(* Progress. *)

\* The phases in their order.
Stage == [open |-> 1, fstat |-> 2, mmap |-> 3, header |-> 4,
          metadata |-> 5, tensors |-> 6, bounds |-> 7]

\* Every step of open ends it, enters a later phase, or moves the cursor on
\* inside the file: whatever counts a file declares, no more entries are read
\* than it has bytes.
OpenAdvances ==
  [][call # Idle =>
       \/ call' = Idle
       \/ call'.impl = call.impl /\ Stage[call.phase] < Stage[call'.phase]
       \/ /\ call' = call
          /\ impl[call.impl].pos < impl'[call.impl].pos
          /\ impl'[call.impl].pos <= impl[call.impl].size]_vars

\* What a step of open does: it ends the call, enters a later phase, or reads.
Ends == call' = Idle

Enters == call'.impl = call.impl /\ Stage[call.phase] < Stage[call'.phase]

Reads ==
  /\ call' = call
  /\ impl[call.impl].pos < impl'[call.impl].pos
  /\ impl'[call.impl].pos <= impl[call.impl].size

\* Entering a phase keeps the call and its block.
LEMMA EnterCall ==
  ASSUME IInv, call # Idle, NEW q \in Phases, Enter(q)
  PROVE  call'.impl = call.impl /\ call'.phase = q
<1>1. call \in [impl : Impl, phase : Phases, to : Handle \cup {"probe"}]
  BY CallBlock
<1> QED  BY <1>1 DEF Enter

\* The steps that go from one phase to the next.
LEMMA PhasesAdvance ==
  ASSUME IInv, call # Idle,
         OpenFd \/ Fstat \/ Mmap \/ ReadHeader \/ MetadataDone \/ TensorsDone
  PROVE  Enters
<1>1. \A q \in Phases : Enter(q) => call'.impl = call.impl /\ call'.phase = q
  BY EnterCall
<1>2. {"fstat", "mmap", "header", "metadata", "tensors", "bounds"} \subseteq Phases
  BY DEF Phases
<1>3. \/ call.phase = "open" /\ Enter("fstat")
      \/ call.phase = "fstat" /\ Enter("mmap")
      \/ call.phase = "mmap" /\ Enter("header")
      \/ call.phase = "header" /\ Enter("metadata")
      \/ call.phase = "metadata" /\ Enter("tensors")
      \/ call.phase = "tensors" /\ Enter("bounds")
  BY DEF OpenFd, Fstat, Mmap, ReadHeader, MetadataDone, TensorsDone
<1>4. call'.impl = call.impl /\ Stage[call.phase] < Stage[call'.phase]
  BY <1>1, <1>2, <1>3 DEF Stage
<1> QED  BY <1>4 DEF Enters

\* An entry that is read is not empty and lies inside the file.
LEMMA EntriesAdvance ==
  ASSUME IInv, call # Idle, ReadMetadata \/ ReadTensor
  PROVE  Reads
<1> DEFINE c == call.impl
           old == impl[c]
<1>1. c \in Impl /\ old \in Block /\ impl \in [Impl -> Block]
  BY CallBlock DEF IInv, TypeOK
<1>2. PICK n \in Nat \ {0} : Room(n) /\ impl'[c].pos = old.pos + n
  <2>1. CASE ReadMetadata
    <3>1. PICK e \in MetadataEntry :
            /\ Room(e.len)
            /\ impl' = [impl EXCEPT ![c] =
                          [old EXCEPT !.pos = old.pos + e.len,
                                      !.metadataRead = old.metadataRead + 1,
                                      !.alignment = SetAlignment(e, old.alignment)]]
      BY <2>1 DEF ReadMetadata, Cur
    <3>2. e.len \in Nat \ {0}
      BY MetadataAssumption
    <3>3. impl'[c].pos = old.pos + e.len
      BY <1>1, <3>1 DEF Block
    <3> QED  BY <3>1, <3>2, <3>3
  <2>2. CASE ReadTensor
    <3>1. PICK t \in TensorEntry :
            /\ Room(t.len)
            /\ impl' = [impl EXCEPT ![c] = [old EXCEPT !.pos = old.pos + t.len,
                                                       !.tensors = Append(old.tensors, t)]]
      BY <2>2 DEF ReadTensor, Cur
    <3>2. t.len \in Nat \ {0}
      BY TensorAssumption
    <3>3. impl'[c].pos = old.pos + t.len
      BY <1>1, <3>1 DEF Block
    <3> QED  BY <3>1, <3>2, <3>3
  <2> QED  BY <2>1, <2>2
<1>3. old.pos \in Nat /\ old.size \in Nat
  <2>1. old.pos \in Nat /\ old.size \in 0 .. Word - 1
    BY <1>1 DEF Block
  <2> QED  BY <2>1, WordAssumption
<1>4. n <= old.size /\ old.pos <= old.size - n
  BY <1>2 DEF Room, Cur
<1>5. call' = call
  BY DEF ReadMetadata, ReadTensor
<1>6. old.pos < impl'[c].pos /\ impl'[c].pos <= old.size
  <2> HIDE DEF old
  <2> QED  BY <1>2, <1>3, <1>4
<1> QED  BY <1>5, <1>6 DEF Reads

LEMMA NextAdvances == IInv /\ [Next]_vars => [call # Idle => Ends \/ Enters \/ Reads]_vars
<1> SUFFICES ASSUME IInv, Next, call # Idle
             PROVE  Ends \/ Enters \/ Reads
  OBVIOUS
<1>1. Opening
  <2>1. \A i \in Impl, to \in Handle \cup {"probe"} : ~Begin(i, to)
    BY DEF Begin
  <2>2. \A h, g \in Handle : ~MoveAssign(h, g)
    BY DEF MoveAssign
  <2>3. \A h \in Handle : ~Drop(h) /\ ~PrefetchThrows(h)
    BY DEF Drop, PrefetchThrows
  <2>4. \A h \in Handle, touch \in BOOLEAN : ~Prefetch(h, touch)
    BY DEF Prefetch
  <2>5. \A h \in Handle : \A t \in Infos : ~TensorBytes(h, t)
    BY DEF TensorBytes
  <2> QED  BY <2>1, <2>2, <2>3, <2>4, <2>5 DEF Next
<1>2. CASE OpenFd \/ Fstat \/ Mmap \/ ReadHeader \/ MetadataDone \/ TensorsDone
  BY <1>2, PhasesAdvance
<1>3. CASE ReadMetadata \/ ReadTensor
  BY <1>3, EntriesAdvance
<1>4. CASE SystemCallFails \/ HeaderThrows \/ MetadataThrows \/ TensorThrows \/ BoundsThrow
  BY <1>4
  DEF SystemCallFails, HeaderThrows, MetadataThrows, TensorThrows, BoundsThrow, Throw, Ends
<1>5. CASE ReturnFile \/ ReturnProbe
  BY <1>5 DEF ReturnFile, ReturnProbe, Ends
<1> QED  BY <1>1, <1>2, <1>3, <1>4, <1>5 DEF Opening

\* Whatever counts a file declares, open reads no more entries than the file
\* has bytes before it returns or throws: every step ends it, enters a later
\* phase or moves the cursor on inside the mapping (gguf.cpp 225-305).
THEOREM OpenMovesOn == Spec => OpenAdvances
<1>1. [call # Idle => Ends \/ Enters \/ Reads]_vars =>
        [call # Idle =>
           \/ call' = Idle
           \/ call'.impl = call.impl /\ Stage[call.phase] < Stage[call'.phase]
           \/ /\ call' = call
              /\ impl[call.impl].pos < impl'[call.impl].pos
              /\ impl'[call.impl].pos <= impl[call.impl].size]_vars
  BY DEF Ends, Enters, Reads
<1> QED  BY <1>1, NextAdvances, Invariance, PTL DEF Spec, OpenAdvances
=============================================================================
