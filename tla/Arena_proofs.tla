---------------------------- MODULE Arena_proofs ----------------------------
(***************************************************************************)
(* Proofs about Arena, for every word, every size and every request: the   *)
(* types (so no double free), that every live buffer has one owner, that   *)
(* used() stays within capacity(), which of the sizes get a buffer that is *)
(* large enough, and where blocks lie as long as no request has wrapped.   *)
(***************************************************************************)
EXTENDS Arena, TLAPS

-----------------------------------------------------------------------------
(* Arithmetic. *)

\* The remainder splits off the multiple below.
LEMMA Division ==
  ASSUME NEW x \in Nat, NEW a \in Nat \ {0}
  PROVE  x = (x \div a) * a + (x % a) /\ x % a \in 0 .. a - 1 /\ x \div a \in Nat
  BY SMT

\* A multiple leaves no remainder.
LEMMA MultipleMod ==
  ASSUME NEW x \in Nat, NEW a \in Nat \ {0}
  PROVE  (x * a) % a = 0
  BY SMT

\* A sum below the word does not wrap.
LEMMA SmallMod ==
  ASSUME NEW x \in Nat, NEW a \in Nat \ {0}, x < a
  PROVE  x % a = x
  BY SMT

\* A sum that passes the word once comes back by a word.
LEMMA OnceAround ==
  ASSUME NEW x \in Nat, NEW a \in Nat \ {0}, x - a \in Nat, x - a < a
  PROVE  x % a = x - a
  BY SMT

\* An offset that is a multiple keeps the alignment of the base.
LEMMA MultipleSum ==
  ASSUME NEW x \in Nat, NEW y \in Nat, NEW b \in Nat \ {0}, NEW a \in Nat \ {0},
         x % b = 0, b % a = 0, y % a = 0
  PROVE  (x + y) % a = 0
<1> DEFINE k == x \div b
           l == b \div a
           m == y \div a
<1>1. k \in Nat /\ x = k * b + (x % b)  BY Division
<1>2. l \in Nat /\ b = l * a + (b % a)  BY Division
<1>3. m \in Nat /\ y = m * a + (y % a)  BY Division
<1> HIDE DEF k, l, m
<1>4. x = k * b /\ b = l * a /\ y = m * a  BY <1>1, <1>2, <1>3
<1>5. k * l + m \in Nat  BY <1>1, <1>2, <1>3
<1>6. x + y = (k * l + m) * a
  <2>1. x = (k * l) * a  BY <1>1, <1>2, <1>4
  <2> QED  BY <1>1, <1>2, <1>3, <1>4, <2>1
<1> QED  BY <1>5, <1>6, MultipleMod

\* The heap buffer is as large as the capacity asked for unless the sum wraps.
LEMMA RoundedEnough ==
  ASSUME NEW bytes \in 0 .. Word - 1
  PROVE  /\ RoundedSize(bytes) \in Nat
         /\ bytes <= RoundedSize(bytes) <=> bytes + BaseAlign <= Word
<1>1. BaseAlign \in Nat \ {0} /\ BaseAlign <= Word /\ Word \in Nat \ {0} /\ bytes \in Nat
  BY WordAssumption
<1> DEFINE x == bytes + BaseAlign - 1
           y == x % Word
           k == y \div BaseAlign
<1>2. x \in Nat  BY <1>1
<1>3. y \in Nat  BY <1>1, <1>2, Division
<1>4. y = k * BaseAlign + (y % BaseAlign) /\ y % BaseAlign \in 0 .. BaseAlign - 1 /\ k \in Nat
  BY <1>1, <1>3, Division
<1>5. RoundedSize(bytes) = k * BaseAlign  BY DEF RoundedSize
<1> DEFINE n == k * BaseAlign
           r == y % BaseAlign
<1>6. n \in Nat /\ r \in Nat /\ r < BaseAlign /\ y = n + r
  BY <1>1, <1>4
<1>7. CASE x < Word
  <2>1. y = x  BY <1>1, <1>2, <1>7, SmallMod
  <2> HIDE DEF y, k, n, r
  <2> QED  BY <1>1, <1>5, <1>6, <1>7, <2>1 DEF n
<1>8. CASE ~(x < Word)
  <2>1. x - Word \in Nat /\ x - Word < Word  BY <1>1, <1>2, <1>8
  <2>2. y = x - Word  BY <1>1, <1>2, <2>1, OnceAround
  <2> HIDE DEF y, k, n, r
  <2> QED  BY <1>1, <1>5, <1>6, <1>8, <2>2 DEF n
<1> QED  BY <1>7, <1>8

\* The padded offset is a multiple of the alignment, wrapped or not.
LEMMA AlignedMultiple ==
  ASSUME NEW x \in Nat, NEW alignment \in Alignments
  PROVE  Aligned(x, alignment) \in Nat /\ Aligned(x, alignment) % alignment = 0
<1> DEFINE y == (x + alignment - 1) % Word
<1>1. alignment \in Nat \ {0} /\ Word \in Nat \ {0}  BY AlignmentAssumption, WordAssumption
<1>2. x + alignment - 1 \in Nat  BY <1>1
<1>3. y \in Nat  BY <1>1, <1>2, Division
<1> HIDE DEF y
<1>4. /\ y = (y \div alignment) * alignment + (y % alignment)
      /\ y \div alignment \in Nat
      /\ y % alignment \in Nat
  <2>1. y % alignment \in 0 .. alignment - 1  BY <1>1, <1>3, Division
  <2>2. y % alignment \in Nat  BY <1>1, <2>1
  <2>3. y = (y \div alignment) * alignment + (y % alignment) /\ y \div alignment \in Nat
    BY <1>1, <1>3, Division, Zenon
  <2> QED  BY <2>2, <2>3
<1>5. ((y \div alignment) * alignment) % alignment = 0  BY <1>1, <1>4, MultipleMod
<1> DEFINE m == (y \div alignment) * alignment
<1>6. m \in Nat  BY <1>1, <1>4
<1>7. y = m + (y % alignment)  BY <1>4
<1>8. m % alignment = 0  BY <1>5
<1> HIDE DEF m
<1>9. y - (y % alignment) = m  BY <1>3, <1>4, <1>6, <1>7
<1> QED  BY <1>6, <1>8, <1>9 DEF Aligned, y

\* Without wrapping, the padded offset lies at most an alignment higher.
LEMMA AlignedAbove ==
  ASSUME NEW x \in Nat, NEW alignment \in Alignments, x + alignment <= Word
  PROVE  x <= Aligned(x, alignment) /\ Aligned(x, alignment) < x + alignment
<1>1. alignment \in Nat \ {0} /\ Word \in Nat \ {0}  BY AlignmentAssumption, WordAssumption
<1> DEFINE y == x + alignment - 1
<1>2. y \in Nat /\ y < Word  BY <1>1
<1>3. y % Word = y  BY <1>1, <1>2, SmallMod
<1>4. y % alignment \in 0 .. alignment - 1  BY <1>1, <1>2, Division
<1> QED  BY <1>1, <1>2, <1>3, <1>4 DEF Aligned

-----------------------------------------------------------------------------
(* Ownership: TypeOK, OwnedOnce and UsedWithinCapacity together. *)

Owning == TypeOK /\ OwnedOnce /\ UsedWithinCapacity

\* Types of the parts that concern ownership.
HeapType == heap \in [Buffer -> [state : {"unused", "live", "freed"}, base : Bases \cup {0}, size : Nat]]

\* free() of an owned pointer marks its buffer and disturbs no other.
LEMMA FreedOwned ==
  ASSUME HeapType, NEW d \in Buffer \cup {Null}, d # Null => heap[d].state = "live"
  PROVE  /\ Freed(d) \in [Buffer -> [state : {"unused", "live", "freed"}, base : Bases \cup {0}, size : Nat]]
         /\ \A b \in Buffer : Freed(d)[b].size = heap[b].size
         /\ \A b \in Buffer : b # d => Freed(d)[b] = heap[b]
         /\ d # Null => Freed(d)[d].state = "freed"
  BY NullAssumption DEF HeapType, Freed

\* What Exchange does to every object.
LEMMA ExchangeMoves ==
  ASSUME TypeOK, NEW a \in Object, NEW c \in Object, a # c, Exchange(a, c)
  PROVE  /\ data' \in [Object -> Buffer \cup {Null}]
         /\ capacity' \in [Object -> Capacities \cup {0}]
         /\ offset' \in [Object -> 0 .. Word - 1]
         /\ data'[a] = data[c] /\ data'[c] = Null
         /\ capacity'[a] = capacity[c] /\ capacity'[c] = 0
         /\ offset'[a] = offset[c] /\ offset'[c] = 0
         /\ \A x \in Object \ {a, c} :
              data'[x] = data[x] /\ capacity'[x] = capacity[x] /\ offset'[x] = offset[x]
  BY WordAssumption DEF TypeOK, Exchange

\* The new offset of an allocation that fits is within the capacity.
LEMMA AllocateBounds ==
  ASSUME TypeOK, NEW a \in Object, NEW bytes \in Requests, NEW alignment \in Alignments,
         Allocate(a, bytes, alignment)
  PROVE  /\ offset' \in [Object -> 0 .. Word - 1]
         /\ offset'[a] <= capacity[a]
         /\ \A x \in Object \ {a} : offset'[x] = offset[x]
<1> DEFINE end == (Aligned(offset[a], alignment) + bytes) % Word
<1>1. offset[a] \in Nat  BY WordAssumption DEF TypeOK
<1>2. Aligned(offset[a], alignment) \in Nat  BY <1>1, AlignedMultiple
<1>3. bytes \in Nat  BY RequestAssumption, WordAssumption
<1>4. end \in 0 .. Word - 1
  <2>1. Aligned(offset[a], alignment) + bytes \in Nat  BY <1>2, <1>3
  <2> QED  BY <2>1, Division, WordAssumption
<1>5. end <= capacity[a]  BY DEF Allocate, Fits
<1>6. offset' = [offset EXCEPT ![a] = end]  BY DEF Allocate
<1> HIDE DEF end
<1> QED  BY <1>4, <1>5, <1>6 DEF TypeOK

-----------------------------------------------------------------------------
\* The initial state owns nothing.
LEMMA OwningInit == Init => Owning
  BY WordAssumption DEF Init, Owning, TypeOK, OwnedOnce, UsedWithinCapacity

\* Making an arena.
LEMMA OwningConstruct ==
  ASSUME Owning, NEW a \in Object, NEW bytes \in Capacities, Construct(a, bytes)
  PROVE  Owning'
<1>1. PICK b \in Buffer, base \in Bases :
        /\ heap[b].state = "unused"
        /\ heap' = [heap EXCEPT ![b] =
                      [state |-> "live", base |-> base, size |-> RoundedSize(bytes)]]
        /\ data' = [data EXCEPT ![a] = b]
  BY DEF Construct
<1>2. bytes \in 0 .. Word - 1 /\ bytes \in Nat  BY CapacityAssumption, WordAssumption
<1> DEFINE n == RoundedSize(bytes)
<1>3. n \in Nat /\ (bytes <= n <=> bytes + BaseAlign <= Word)  BY <1>2, RoundedEnough
<1>4. heap' = [heap EXCEPT ![b] = [state |-> "live", base |-> base, size |-> n]]  BY <1>1
<1> HIDE DEF n
<1>5. a \notin made /\ data[a] = Null  BY DEF Owning, OwnedOnce, Construct
<1>6. TypeOK'
  BY <1>1, <1>2, <1>3, <1>4, WordAssumption DEF Owning, TypeOK, Construct
<1>7. OwnedOnce'
  BY <1>1, <1>4, <1>5, <1>6, NullAssumption DEF Owning, TypeOK, OwnedOnce, Construct
<1>8. UsedWithinCapacity'
  <2> SUFFICES ASSUME NEW x \in Object
               PROVE  /\ offset'[x] <= capacity'[x]
                      /\ IF data'[x] = Null THEN capacity'[x] = 0
                         ELSE capacity'[x] <= heap'[data'[x]].size
                                <=> capacity'[x] + BaseAlign <= Word
    BY DEF UsedWithinCapacity
  <2>1. CASE x = a
    BY <1>1, <1>2, <1>3, <1>4, <2>1, NullAssumption DEF Owning, TypeOK, Construct
  <2>2. CASE x # a
    <3>1. data'[x] = data[x] /\ capacity'[x] = capacity[x] /\ offset'[x] = offset[x]
      BY <1>1, <2>2 DEF Owning, TypeOK, Construct
    <3>2. data[x] # Null => heap'[data[x]] = heap[data[x]]
      BY <1>1, <1>4 DEF Owning, TypeOK, OwnedOnce
    <3> QED  BY <3>1, <3>2 DEF Owning, UsedWithinCapacity
  <2> QED  BY <2>1, <2>2
<1> QED  BY <1>6, <1>7, <1>8 DEF Owning

\* Move construction hands the buffer over.
LEMMA OwningMoveConstruct ==
  ASSUME Owning, NEW a \in Object, NEW c \in Object, MoveConstruct(a, c)
  PROVE  Owning'
<1>1. a # c /\ data[a] = Null  BY DEF MoveConstruct, Owning, OwnedOnce
<1>2. Exchange(a, c) /\ TypeOK  BY DEF MoveConstruct, Owning
<1>3. heap' = heap /\ blocks' = blocks /\ made' = made \cup {a} /\ result' = "ok"
      /\ wrapped' = wrapped
  BY DEF MoveConstruct
<1>4. TypeOK'  BY <1>1, <1>2, <1>3, ExchangeMoves DEF TypeOK
<1>5. OwnedOnce'
  BY <1>1, <1>2, <1>3, ExchangeMoves DEF Owning, OwnedOnce, MoveConstruct
<1>6. UsedWithinCapacity'
  BY <1>1, <1>2, <1>3, ExchangeMoves DEF Owning, UsedWithinCapacity, TypeOK
<1> QED  BY <1>4, <1>5, <1>6 DEF Owning

\* Move assignment frees the target's buffer first; onto itself it does nothing.
LEMMA OwningMoveAssign ==
  ASSUME Owning, NEW a \in Object, NEW c \in Object, MoveAssign(a, c)
  PROVE  Owning'
<1>1. CASE a = c
  <2>1. UNCHANGED <<made, data, capacity, offset, heap, blocks, wrapped>> /\ result' = "ok"
    BY <1>1 DEF MoveAssign
  <2> QED  BY <2>1 DEF Owning, TypeOK, OwnedOnce, UsedWithinCapacity
<1>2. CASE a # c
  <2>1. Exchange(a, c) /\ TypeOK /\ HeapType  BY <1>2 DEF MoveAssign, Owning, TypeOK, HeapType
  <2>2. heap' = Freed(data[a]) /\ blocks' = BlocksOutside(data[a]) /\ made' = made
        /\ result' = "ok" /\ wrapped' = wrapped /\ {a, c} \subseteq made
    BY <1>2 DEF MoveAssign
  <2>3. data[a] \in Buffer \cup {Null} /\ (data[a] # Null => heap[data[a]].state = "live")
    BY DEF Owning, TypeOK, OwnedOnce
  <2>4. \A x \in Object : data[x] # Null /\ x # a => data[x] # data[a]
    BY DEF Owning, OwnedOnce
  <2>5. TypeOK'  BY <1>2, <2>1, <2>2, <2>3, ExchangeMoves, FreedOwned DEF TypeOK, BlocksOutside
  <2>6. \A x \in Object : data'[x] # Null => heap'[data'[x]] = heap[data'[x]]
    BY <1>2, <2>1, <2>2, <2>3, <2>4, ExchangeMoves, FreedOwned DEF TypeOK
  <2>7. OwnedOnce'
    <3>1. \A x \in Object : data'[x] # Null => x \in made' /\ heap'[data'[x]].state = "live"
      BY <1>2, <2>1, <2>2, <2>6, ExchangeMoves DEF Owning, OwnedOnce
    <3>2. \A x, z \in Object : data'[x] = data'[z] /\ data'[x] # Null => x = z
      BY <1>2, <2>1, ExchangeMoves DEF Owning, OwnedOnce
    <3>3. ASSUME NEW b \in Buffer, heap'[b].state = "live" PROVE \E x \in Object : data'[x] = b
      <4>1. b # data[a] /\ heap[b].state = "live"
        BY <2>1, <2>2, <2>3, <3>3, NullAssumption, FreedOwned
      <4>2. PICK x \in Object : data[x] = b  BY <4>1 DEF Owning, OwnedOnce
      <4> QED  BY <1>2, <2>1, <4>1, <4>2, ExchangeMoves
    <3> QED  BY <3>1, <3>2, <3>3 DEF OwnedOnce
  <2>8. UsedWithinCapacity'
    BY <1>2, <2>1, <2>6, ExchangeMoves DEF Owning, UsedWithinCapacity, TypeOK
  <2> QED  BY <2>5, <2>7, <2>8 DEF Owning
<1> QED  BY <1>1, <1>2

\* Destruction frees what the object owns.
LEMMA OwningDestroy ==
  ASSUME Owning, NEW a \in Object, Destroy(a)
  PROVE  Owning'
<1>1. heap' = Freed(data[a]) /\ blocks' = BlocksOutside(data[a]) /\ made' = made \ {a}
      /\ result' = "ok" /\ wrapped' = wrapped
  BY DEF Destroy
<1>2. data[a] \in Buffer \cup {Null} /\ (data[a] # Null => heap[data[a]].state = "live")
      /\ HeapType
  BY DEF Owning, TypeOK, OwnedOnce, HeapType
<1>3. /\ data' = [data EXCEPT ![a] = Null]
      /\ capacity' = [capacity EXCEPT ![a] = 0]
      /\ offset' = [offset EXCEPT ![a] = 0]
  BY DEF Destroy
<1>4. TypeOK'
  BY <1>1, <1>2, <1>3, FreedOwned, WordAssumption DEF Owning, TypeOK, BlocksOutside
<1>5. \A x \in Object : data'[x] # Null =>
        x # a /\ data'[x] = data[x] /\ heap'[data[x]] = heap[data[x]]
  BY <1>1, <1>2, <1>3, FreedOwned DEF Owning, TypeOK, OwnedOnce
<1>6. OwnedOnce'
  <2>1. \A x \in Object : data'[x] # Null => x \in made' /\ heap'[data'[x]].state = "live"
    BY <1>1, <1>5 DEF Owning, OwnedOnce
  <2>2. \A x, z \in Object : data'[x] = data'[z] /\ data'[x] # Null => x = z
    BY <1>3, <1>5 DEF Owning, OwnedOnce
  <2>3. ASSUME NEW b \in Buffer, heap'[b].state = "live" PROVE \E x \in Object : data'[x] = b
    <3>1. b # data[a] /\ heap[b].state = "live"
      BY <1>1, <1>2, <2>3, NullAssumption, FreedOwned
    <3>2. PICK x \in Object : data[x] = b  BY <3>1 DEF Owning, OwnedOnce
    <3> QED  BY <1>3, <3>1, <3>2 DEF Owning, TypeOK
  <2> QED  BY <2>1, <2>2, <2>3 DEF OwnedOnce
<1>7. UsedWithinCapacity'
  BY <1>3, <1>5 DEF Owning, UsedWithinCapacity, TypeOK
<1> QED  BY <1>4, <1>6, <1>7 DEF Owning

\* Allocation, reset and the failures leave ownership alone.
LEMMA OwningAllocate ==
  ASSUME Owning, NEW a \in Object, NEW bytes \in Requests, NEW alignment \in Alignments,
         Allocate(a, bytes, alignment)
  PROVE  Owning'
<1>1. TypeOK /\ made' = made /\ data' = data /\ capacity' = capacity /\ heap' = heap /\ result' = "ok"
  BY DEF Owning, Allocate
<1> DEFINE lo == Aligned(offset[a], alignment)
<1>2. lo \in Nat /\ bytes \in Nat
  BY <1>1, AlignedMultiple, RequestAssumption, WordAssumption DEF TypeOK
<1>3. blocks' \subseteq [buffer : Buffer, lo : Nat, size : Nat, align : Alignments]
  <2>1. blocks' = blocks \cup
          (IF data[a] = Null \/ bytes = 0 THEN {}
           ELSE {[buffer |-> data[a], lo |-> lo, size |-> bytes, align |-> alignment]})
    BY DEF Allocate
  <2> HIDE DEF lo
  <2> QED  BY <1>1, <1>2, <2>1 DEF TypeOK
<1>4. wrapped' \subseteq Buffer  BY <1>1 DEF Allocate, Noted, TypeOK
<1>5. TypeOK'  BY <1>1, <1>3, <1>4, AllocateBounds DEF TypeOK
<1>6. OwnedOnce'  BY <1>1 DEF Owning, OwnedOnce
<1>7. UsedWithinCapacity'  BY <1>1, AllocateBounds DEF Owning, UsedWithinCapacity
<1> QED  BY <1>5, <1>6, <1>7 DEF Owning

LEMMA OwningReset ==
  ASSUME Owning, NEW a \in Object, Reset(a)
  PROVE  Owning'
<1>1. TypeOK'  BY WordAssumption DEF Owning, TypeOK, Reset, BlocksOutside
<1>2. OwnedOnce'  BY DEF Owning, OwnedOnce, Reset
<1>3. \A x \in Object : offset'[x] = offset[x] \/ offset'[x] = 0
  BY DEF Owning, TypeOK, Reset
<1>4. \A x \in Object : capacity[x] \in Nat
  <2>1. capacity \in [Object -> Capacities \cup {0}]  BY DEF Owning, TypeOK
  <2>2. Capacities \cup {0} \subseteq Nat  BY CapacityAssumption
  <2> QED  BY <2>1, <2>2
<1>5. UsedWithinCapacity'
  BY <1>3, <1>4 DEF Owning, UsedWithinCapacity, Reset
<1> QED  BY <1>1, <1>2, <1>5 DEF Owning

\* A step that changes the result alone.
LEMMA OwningFails ==
  ASSUME Owning, result' \in {"ok", "bad_alloc"},
         UNCHANGED <<made, data, capacity, offset, heap, blocks, wrapped>>
  PROVE  Owning'
  BY DEF Owning, TypeOK, OwnedOnce, UsedWithinCapacity

\* Every step.
LEMMA OwningNext == Owning /\ [Next]_vars => Owning'
<1> SUFFICES ASSUME Owning, [Next]_vars PROVE Owning'  OBVIOUS
<1>1. CASE UNCHANGED vars
  BY <1>1 DEF vars, Owning, TypeOK, OwnedOnce, UsedWithinCapacity
<1>2. CASE Next
  <2>1. PICK a \in Object :
          \/ \E bytes \in Capacities : Construct(a, bytes)
          \/ ConstructFails(a)
          \/ \E c \in Object : MoveConstruct(a, c) \/ MoveAssign(a, c)
          \/ Destroy(a)
          \/ Reset(a)
          \/ \E bytes \in Requests, alignment \in Alignments :
               Allocate(a, bytes, alignment) \/ AllocateFails(a, bytes, alignment)
    BY <1>2 DEF Next
  <2>2. ASSUME NEW bytes \in Capacities, Construct(a, bytes) PROVE Owning'
    BY <2>2, OwningConstruct
  <2>3. CASE ConstructFails(a)  BY <2>3, OwningFails DEF ConstructFails
  <2>4. ASSUME NEW c \in Object, MoveConstruct(a, c) PROVE Owning'
    BY <2>4, OwningMoveConstruct
  <2>5. ASSUME NEW c \in Object, MoveAssign(a, c) PROVE Owning'
    BY <2>5, OwningMoveAssign
  <2>6. CASE Destroy(a)  BY <2>6, OwningDestroy
  <2>7. CASE Reset(a)  BY <2>7, OwningReset
  <2>8. ASSUME NEW bytes \in Requests, NEW alignment \in Alignments,
               Allocate(a, bytes, alignment)
        PROVE Owning'
    BY <2>8, OwningAllocate
  <2>9. ASSUME NEW bytes \in Requests, NEW alignment \in Alignments,
               AllocateFails(a, bytes, alignment)
        PROVE Owning'
    BY <2>9, OwningFails DEF AllocateFails
  <2> QED  BY <2>1, <2>2, <2>3, <2>4, <2>5, <2>6, <2>7, <2>8, <2>9
<1> QED  BY <1>1, <1>2

LEMMA OwningAlways == Spec => []Owning
  BY OwningInit, OwningNext, PTL DEF Spec

\* No buffer is freed twice, and every variable has its type (arena.cpp 9-54).
THEOREM TypeCorrect == Spec => []TypeOK
<1>1. Owning => TypeOK  BY DEF Owning
<1> QED  BY <1>1, OwningAlways, PTL

\* Every unfreed buffer has exactly one owner (the move operations and the
\* destructor, arena.cpp 19-44).
THEOREM SoleOwner == Spec => []OwnedOnce
<1>1. Owning => OwnedOnce  BY DEF Owning
<1> QED  BY <1>1, OwningAlways, PTL

\* The offset stays within the capacity even when the sum in allocate wraps
\* (arena.cpp 46-52), and the buffer holds the capacity exactly if the sum in
\* the constructor does not (line 14).
THEOREM Within == Spec => []UsedWithinCapacity
<1>1. Owning => UsedWithinCapacity  BY DEF Owning
<1> QED  BY <1>1, OwningAlways, PTL

-----------------------------------------------------------------------------
(* Blocks. *)

\* The object that owns the buffer of p; its offset is at or beyond the end of
\* p as long as no request on the buffer has wrapped.
Owned(p) ==
  \E a \in Object : data[a] = p.buffer /\ (p.buffer \notin wrapped => p.lo + p.size <= offset[a])

\* BlocksApart made inductive.
Placed ==
  /\ \A p \in blocks : p.lo % p.align = 0 /\ Owned(p)
  /\ \A p, q \in blocks : p # q /\ p.buffer \notin wrapped => Apart(p, q)

\* The address of a block whose offset is a multiple of its alignment.
LEMMA AddressAligned ==
  ASSUME TypeOK, NEW b \in Buffer, NEW lo \in Nat, NEW alignment \in Alignments,
         lo % alignment = 0, BaseAlign % alignment = 0
  PROVE  (heap[b].base + lo) % alignment = 0
<1>1. alignment \in Nat \ {0} /\ BaseAlign \in Nat \ {0}
  BY AlignmentAssumption, WordAssumption
<1>2. heap[b].base \in Bases \cup {0}  BY DEF TypeOK
<1>3. 0 % BaseAlign = 0  BY <1>1
<1>4. heap[b].base \in Nat /\ heap[b].base % BaseAlign = 0
  BY <1>2, <1>3, BaseAssumption
<1> QED  BY <1>1, <1>4, MultipleSum

LEMMA PlacedApart == Owning /\ Placed => BlocksApart
<1> SUFFICES ASSUME Owning, Placed PROVE BlocksApart  OBVIOUS
<1>1. TypeOK  BY DEF Owning
<1>2. ASSUME NEW p \in blocks PROVE heap[p.buffer].state = "live"
  <2>1. p.buffer \in Buffer /\ Owned(p)  BY <1>1 DEF TypeOK, Placed
  <2> QED  BY <2>1, NullAssumption DEF Owned, Owning, OwnedOnce
<1>3. ASSUME NEW a \in Object, NEW p \in blocks, p.buffer = data[a], data[a] \notin wrapped
      PROVE  /\ BaseAlign % p.align = 0 => (heap[data[a]].base + p.lo) % p.align = 0
             /\ capacity[a] + BaseAlign <= Word => p.lo + p.size <= heap[data[a]].size
  <2>1. p.buffer \in Buffer /\ p.lo \in Nat /\ p.size \in Nat /\ p.align \in Alignments
    BY <1>1 DEF TypeOK
  <2>2. data[a] # Null  BY <1>3, <2>1, NullAssumption
  <2>3. p.lo % p.align = 0 /\ Owned(p)  BY DEF Placed
  <2>4. p.lo + p.size <= offset[a]
    BY <1>3, <2>2, <2>3 DEF Owned, Owning, OwnedOnce
  <2>5. offset[a] \in Nat /\ capacity[a] \in Nat /\ heap[data[a]].size \in Nat
    <3>1. Capacities \cup {0} \subseteq Nat /\ Word \in Nat
      BY CapacityAssumption, WordAssumption
    <3>2. capacity[a] \in Nat  BY <1>1, <3>1 DEF TypeOK
    <3>3. offset[a] \in Nat  BY <1>1, <3>1 DEF TypeOK
    <3>4. heap[data[a]].size \in Nat  BY <1>1, <1>3, <2>1 DEF TypeOK
    <3> QED  BY <3>2, <3>3, <3>4
  <2>6. /\ offset[a] <= capacity[a]
        /\ capacity[a] <= heap[data[a]].size <=> capacity[a] + BaseAlign <= Word
    BY <2>2 DEF Owning, UsedWithinCapacity
  <2>7. BaseAlign % p.align = 0 => (heap[data[a]].base + p.lo) % p.align = 0
    BY <1>1, <1>3, <2>1, <2>3, AddressAligned
  <2> QED  BY <2>1, <2>4, <2>5, <2>6, <2>7
<1> QED  BY <1>2, <1>3 DEF Placed, BlocksApart

\* A step whose blocks are old ones keeps Placed if each has an owner still and
\* the history of their buffers is kept.
LEMMA PlacedKept ==
  ASSUME Placed, blocks' \subseteq blocks,
         \A p \in blocks' : p.buffer \in wrapped => p.buffer \in wrapped',
         \A p \in blocks' :
           \E a \in Object : /\ data'[a] = p.buffer
                             /\ p.buffer \notin wrapped' => p.lo + p.size <= offset'[a]
  PROVE  Placed'
  BY DEF Placed, Owned, Apart

\* An allocation that does not wrap puts its block above the old offset.
LEMMA AllocateAbove ==
  ASSUME Owning, NEW a \in Object, NEW bytes \in Requests, NEW alignment \in Alignments,
         Allocate(a, bytes, alignment), ~Wraps(a, bytes, alignment)
  PROVE  /\ offset[a] <= Aligned(offset[a], alignment)
         /\ offset'[a] = Aligned(offset[a], alignment) + bytes
<1> DEFINE lo == Aligned(offset[a], alignment)
<1>1. TypeOK /\ Word \in Nat \ {0}  BY WordAssumption DEF Owning
<1>2. offset[a] \in Nat /\ bytes \in Nat /\ alignment \in Nat
  BY <1>1, RequestAssumption, AlignmentAssumption DEF TypeOK
<1>3. offset[a] + alignment - 1 < Word /\ lo + bytes < Word
  <2>1. lo \in Nat  BY <1>2, AlignedMultiple
  <2> HIDE DEF lo
  <2> QED  BY <1>1, <1>2, <2>1 DEF Wraps, lo
<1>4. offset[a] + alignment <= Word  BY <1>1, <1>2, <1>3
<1>5. lo \in Nat /\ offset[a] <= lo  BY <1>2, <1>4, AlignedMultiple, AlignedAbove
<1>6. offset' = [offset EXCEPT ![a] = (lo + bytes) % Word]  BY DEF Allocate
<1> HIDE DEF lo
<1>7. (lo + bytes) % Word = lo + bytes  BY <1>1, <1>2, <1>3, <1>5, SmallMod
<1>8. offset'[a] = lo + bytes  BY <1>1, <1>6, <1>7 DEF TypeOK
<1> QED  BY <1>5, <1>8 DEF lo

\* A block that is handed out gets an owner, and the others keep theirs.
LEMMA PlacedAllocate ==
  ASSUME Owning, Placed, NEW a \in Object, NEW bytes \in Requests,
         NEW alignment \in Alignments, Allocate(a, bytes, alignment)
  PROVE  Placed'
<1> DEFINE lo == Aligned(offset[a], alignment)
           new == [buffer |-> data[a], lo |-> lo, size |-> bytes, align |-> alignment]
<1>1. lo \in Nat /\ bytes \in Nat /\ lo % alignment = 0 /\ offset[a] \in Nat
  <2>1. offset[a] \in Nat  BY WordAssumption DEF Owning, TypeOK
  <2> QED  BY <2>1, AlignedMultiple, RequestAssumption, WordAssumption
<1>2. ~Wraps(a, bytes, alignment) => offset[a] <= lo /\ offset'[a] = lo + bytes
  BY AllocateAbove
<1>3. data' = data /\ blocks' \subseteq blocks \cup {new} /\ (data[a] = Null => blocks' = blocks)
  BY DEF Allocate
<1>4. \A x \in Object \ {a} : offset'[x] = offset[x]  BY AllocateBounds DEF Owning
<1>5. /\ wrapped \subseteq wrapped'
      /\ data[a] # Null /\ data[a] \notin wrapped' => ~Wraps(a, bytes, alignment)
      /\ \A b \in wrapped' : b \in wrapped \/ b = data[a]
  BY DEF Allocate, Noted
<1>6. new.buffer = data[a] /\ new.lo = lo /\ new.size = bytes /\ new.align = alignment
  OBVIOUS
<1> HIDE DEF lo, new
<1>7. ASSUME NEW p \in blocks
      PROVE  /\ \E x \in Object : /\ data'[x] = p.buffer
                                  /\ p.buffer \notin wrapped' => p.lo + p.size <= offset'[x]
             /\ p.buffer = data[a] /\ data[a] \notin wrapped' => p.lo + p.size <= lo
  <2>1. p.lo \in Nat /\ p.size \in Nat /\ p.buffer \in Buffer  BY DEF Owning, TypeOK
  <2>2. PICK x \in Object :
          data[x] = p.buffer /\ (p.buffer \notin wrapped => p.lo + p.size <= offset[x])
    BY DEF Placed, Owned
  <2>3. data[x] # Null  BY <2>1, <2>2, NullAssumption
  <2>4. CASE x = a  BY <1>1, <1>2, <1>3, <1>5, <2>1, <2>2, <2>3, <2>4
  <2>5. CASE x # a
    <3>1. offset'[x] = offset[x]  BY <1>4, <2>5
    <3>2. data[a] # p.buffer  BY <2>2, <2>3, <2>5 DEF Owning, OwnedOnce
    <3> QED  BY <1>3, <1>5, <2>2, <3>1, <3>2
  <2> QED  BY <2>4, <2>5
<1>8. ASSUME NEW p \in blocks, data[a] \notin wrapped'
      PROVE  Apart(p, new) /\ Apart(new, p)
  BY <1>6, <1>7, <1>8 DEF Apart
<1>9. ASSUME NEW p \in blocks'
      PROVE  /\ p.lo % p.align = 0
             /\ \E x \in Object : /\ data'[x] = p.buffer
                                  /\ p.buffer \notin wrapped' => p.lo + p.size <= offset'[x]
  <2>1. CASE p \in blocks  BY <1>7, <2>1 DEF Placed
  <2>2. CASE p = new /\ p \notin blocks
    <3>1. data[a] # Null  BY <1>3, <2>2
    <3>2. p.buffer = data[a] /\ p.lo + p.size = lo + bytes /\ p.lo % p.align = 0
      BY <1>1, <1>6, <2>2
    <3>3. data[a] \notin wrapped' => lo + bytes <= offset'[a]  BY <1>1, <1>2, <1>5, <3>1
    <3> QED  BY <1>3, <3>2, <3>3
  <2> QED  BY <1>3, <2>1, <2>2
<1>10. ASSUME NEW p \in blocks', NEW q \in blocks', p # q, p.buffer \notin wrapped'
       PROVE  Apart(p, q)
  <2>1. CASE p \in blocks /\ q \in blocks  BY <1>5, <1>10, <2>1 DEF Placed
  <2>2. CASE p \in blocks /\ q \notin blocks
    <3>1. q = new  BY <1>3, <2>2
    <3>2. CASE data[a] \in wrapped'
      BY <1>6, <1>10, <3>1, <3>2 DEF Apart
    <3> QED  BY <1>8, <2>2, <3>1, <3>2
  <2>3. CASE p \notin blocks
    <3>1. p = new /\ q \in blocks  BY <1>3, <1>10, <2>3
    <3>2. data[a] \notin wrapped'  BY <1>6, <1>10, <3>1
    <3> QED  BY <1>8, <3>1, <3>2
  <2> QED  BY <2>1, <2>2, <2>3
<1>11. (\A p \in blocks : p.lo % p.align = 0 /\ Owned(p))'  BY <1>9 DEF Owned
<1>12. (\A p, q \in blocks : p # q /\ p.buffer \notin wrapped => Apart(p, q))'
  BY <1>10 DEF Apart
<1> QED  BY <1>11, <1>12 DEF Placed

\* The steps that take objects and blocks away or move them.
LEMMA PlacedOther ==
  ASSUME Owning, Placed, NEW a \in Object,
         \/ \E bytes \in Capacities : Construct(a, bytes)
         \/ \E c \in Object : MoveConstruct(a, c) \/ MoveAssign(a, c)
         \/ Destroy(a)
         \/ Reset(a)
  PROVE  Placed'
<1>0. \A p \in blocks : p.buffer \in Buffer  BY DEF Owning, TypeOK
<1>1. ASSUME NEW bytes \in Capacities, Construct(a, bytes) PROVE Placed'
  <2>1. blocks' = blocks /\ wrapped' = wrapped  BY <1>1 DEF Construct
  <2>2. data[a] = Null  BY <1>1 DEF Construct, Owning, OwnedOnce
  <2>3. \A x \in Object \ {a} : data'[x] = data[x] /\ offset'[x] = offset[x]
    BY <1>1 DEF Construct, Owning, TypeOK
  <2>4. ASSUME NEW p \in blocks
        PROVE  \E x \in Object : /\ data'[x] = p.buffer
                                 /\ p.buffer \notin wrapped' => p.lo + p.size <= offset'[x]
    <3>1. PICK x \in Object :
            data[x] = p.buffer /\ (p.buffer \notin wrapped => p.lo + p.size <= offset[x])
      BY DEF Placed, Owned
    <3>2. x # a  BY <1>0, <2>2, <3>1, NullAssumption
    <3> QED  BY <2>1, <2>3, <3>1, <3>2
  <2> QED  BY <2>1, <2>4, PlacedKept
<1>2. ASSUME NEW c \in Object, MoveConstruct(a, c) PROVE Placed'
  <2>1. blocks' = blocks /\ wrapped' = wrapped /\ a # c /\ Exchange(a, c) /\ TypeOK
    BY <1>2 DEF MoveConstruct, Owning
  <2>2. data[a] = Null  BY <1>2 DEF MoveConstruct, Owning, OwnedOnce
  <2>3. ASSUME NEW p \in blocks
        PROVE  \E x \in Object : /\ data'[x] = p.buffer
                                 /\ p.buffer \notin wrapped' => p.lo + p.size <= offset'[x]
    <3>1. PICK x \in Object :
            data[x] = p.buffer /\ (p.buffer \notin wrapped => p.lo + p.size <= offset[x])
      BY DEF Placed, Owned
    <3>2. x # a  BY <1>0, <2>2, <3>1, NullAssumption
    <3>3. CASE x = c  BY <2>1, <3>1, <3>3, ExchangeMoves
    <3>4. CASE x # c  BY <2>1, <3>1, <3>2, <3>4, ExchangeMoves
    <3> QED  BY <3>3, <3>4
  <2> QED  BY <2>1, <2>3, PlacedKept
<1>3. ASSUME NEW c \in Object, MoveAssign(a, c) PROVE Placed'
  <2>1. CASE a = c  BY <1>3, <2>1 DEF MoveAssign, Placed, Owned, Apart
  <2>2. CASE a # c
    <3>1. blocks' = BlocksOutside(data[a]) /\ wrapped' = wrapped /\ Exchange(a, c) /\ TypeOK
      BY <1>3, <2>2 DEF MoveAssign, Owning
    <3>2. ASSUME NEW p \in blocks, p.buffer # data[a]
          PROVE  \E x \in Object : /\ data'[x] = p.buffer
                                   /\ p.buffer \notin wrapped' => p.lo + p.size <= offset'[x]
      <4>1. PICK x \in Object :
              data[x] = p.buffer /\ (p.buffer \notin wrapped => p.lo + p.size <= offset[x])
        BY DEF Placed, Owned
      <4>2. x # a  BY <3>2, <4>1
      <4>3. CASE x = c  BY <2>2, <3>1, <4>1, <4>3, ExchangeMoves
      <4>4. CASE x # c  BY <2>2, <3>1, <4>1, <4>2, <4>4, ExchangeMoves
      <4> QED  BY <4>3, <4>4
    <3> QED  BY <3>1, <3>2, PlacedKept DEF BlocksOutside
  <2> QED  BY <2>1, <2>2
<1>4. ASSUME Destroy(a) \/ Reset(a) PROVE Placed'
  <2>1. blocks' = BlocksOutside(data[a])  BY <1>4 DEF Destroy, Reset
  <2>2. \A x \in Object \ {a} : data'[x] = data[x] /\ offset'[x] = offset[x]
    BY <1>4 DEF Destroy, Reset, Owning, TypeOK
  <2>3. wrapped' = wrapped \/ wrapped' = wrapped \ {data[a]}  BY <1>4 DEF Destroy, Reset
  <2>4. ASSUME NEW p \in blocks, p.buffer # data[a]
        PROVE  \E x \in Object : /\ data'[x] = p.buffer
                                 /\ p.buffer \notin wrapped' => p.lo + p.size <= offset'[x]
    <3>1. PICK x \in Object :
            data[x] = p.buffer /\ (p.buffer \notin wrapped => p.lo + p.size <= offset[x])
      BY DEF Placed, Owned
    <3>2. x # a  BY <2>4, <3>1
    <3> QED  BY <2>2, <2>3, <2>4, <3>1, <3>2
  <2> QED  BY <2>1, <2>3, <2>4, PlacedKept DEF BlocksOutside
<1> QED  BY <1>1, <1>2, <1>3, <1>4

\* Every step.
LEMMA PlacedNext == Owning /\ Placed /\ [Next]_vars => Placed'
<1> SUFFICES ASSUME Owning, Placed, [Next]_vars PROVE Placed'  OBVIOUS
<1>1. CASE UNCHANGED <<data, offset, blocks, wrapped>>
  BY <1>1 DEF Placed, Owned, Apart
<1>2. CASE Next
  <2>1. PICK a \in Object :
          \/ \/ \E bytes \in Capacities : Construct(a, bytes)
             \/ \E c \in Object : MoveConstruct(a, c) \/ MoveAssign(a, c)
             \/ Destroy(a)
             \/ Reset(a)
          \/ ConstructFails(a)
          \/ \E bytes \in Requests, alignment \in Alignments :
               Allocate(a, bytes, alignment) \/ AllocateFails(a, bytes, alignment)
    BY <1>2 DEF Next
  <2>2. CASE ConstructFails(a)  BY <1>1, <2>2 DEF ConstructFails
  <2>3. ASSUME NEW bytes \in Requests, NEW alignment \in Alignments,
               Allocate(a, bytes, alignment)
        PROVE  Placed'
    BY <2>3, PlacedAllocate
  <2>4. ASSUME NEW bytes \in Requests, NEW alignment \in Alignments,
               AllocateFails(a, bytes, alignment)
        PROVE  Placed'
    BY <1>1, <2>4 DEF AllocateFails
  <2> QED  BY <2>1, <2>2, <2>3, <2>4, PlacedOther
<1> QED  BY <1>1, <1>2 DEF vars

\* Until a request wraps, the blocks of a buffer are disjoint and aligned, and
\* they are inside it unless its size wrapped (allocate and the constructor,
\* arena.cpp 9-17 and 46-52): for every word, capacity, request and alignment.
THEOREM Disjoint == Spec => []BlocksApart
<1>1. Init => Placed  BY DEF Init, Placed
<1>2. Owning /\ Placed /\ [Next]_vars => Placed'  BY PlacedNext
<1>3. Owning /\ Placed => BlocksApart  BY PlacedApart
<1> QED  BY <1>1, <1>2, <1>3, OwningAlways, PTL DEF Spec
=============================================================================
