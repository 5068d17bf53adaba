-------------------------------- MODULE Arena --------------------------------
(***************************************************************************)
(* The Arena bump allocator (src/arena.cpp): arena objects that are made,  *)
(* moved, assigned and destroyed, the heap buffers they own, and the       *)
(* blocks allocate has handed out.  All size_t arithmetic is modulo Word,  *)
(* so the size of a buffer and the end of a request can wrap.              *)
(*                                                                         *)
(* The caller keeps the contract the interface has: an alignment is a      *)
(* power of two, a block is not used after reset or after the buffer is    *)
(* freed, and operations are called on objects that exist.                 *)
(***************************************************************************)
EXTENDS Integers, FiniteSets

CONSTANTS
  Object,      \* names of arena objects
  Buffer,      \* bound: heap buffers, each of which aligned_alloc returns once
  Null,        \* the null data_ pointer
  MaxBlocks,   \* bound: blocks in use at a time
  Bases,       \* bound: addresses of buffers, of which only alignment matters
  Capacities,  \* sizes an arena is made with
  Requests,    \* sizes asked of allocate
  Alignments,  \* alignments asked of allocate: powers of two
  BaseAlign,   \* alignment of aligned_alloc: 64 in the code
  Word         \* 2^64 in the code

ASSUME NullAssumption == Null \notin Buffer
ASSUME WordAssumption == Word \in Nat /\ BaseAlign \in 1 .. Word
ASSUME BaseAssumption == Bases \subseteq {x \in Nat : x % BaseAlign = 0}
ASSUME RequestAssumption == Requests \subseteq 0 .. Word - 1
ASSUME CapacityAssumption == Capacities \subseteq 0 .. Word - 1
ASSUME AlignmentAssumption == Alignments \subseteq 1 .. Word - 1

VARIABLES
  made,      \* the objects that exist
  data,      \* data_ of every object
  capacity,  \* capacity_
  offset,    \* offset_
  heap,      \* every buffer: its state, its address and its size
  blocks,    \* the blocks handed out and still usable
  wrapped,   \* history: buffers that answered a wrapping request since a reset
  result     \* how the last operation ended

vars == <<made, data, capacity, offset, heap, blocks, wrapped, result>>

Init ==
  /\ made = {}
  /\ data = [a \in Object |-> Null]
  /\ capacity = [a \in Object |-> 0]
  /\ offset = [a \in Object |-> 0]
  /\ heap = [b \in Buffer |-> [state |-> "unused", base |-> 0, size |-> 0]]
  /\ blocks = {}
  /\ wrapped = {}
  /\ result = "ok"

-----------------------------------------------------------------------------
(* Arithmetic. *)

\* Mutant of RoundedSize: the size is rounded down.
RoundedSize_Down(bytes) == (bytes \div BaseAlign) * BaseAlign

\* ((bytes + 63) / 64) * 64, whose sum wraps for the last sizes of the word.
RoundedSize(bytes) == (((bytes + BaseAlign - 1) % Word) \div BaseAlign) * BaseAlign

\* (x + mask) & ~mask, for an alignment that is a power of two.
Aligned(x, alignment) ==
  LET y == (x + alignment - 1) % Word
  IN  y - (y % alignment)

-----------------------------------------------------------------------------
(* Heap effects. *)

\* free(data_): of the null pointer nothing, of a freed buffer a corruption.
Freed(b) ==
  IF b = Null THEN heap
  ELSE [heap EXCEPT ![b].state = IF @ = "live" THEN "freed" ELSE "corrupt"]

\* The blocks left when a buffer is freed or its arena is reset.
BlocksOutside(b) == {p \in blocks : p.buffer # b}

-----------------------------------------------------------------------------
(* Operations. *)

\* Arena(bytes): aligned_alloc succeeds, for 0 bytes too, and gives an
\* address that is a multiple of BaseAlign.
Construct(a, bytes) ==
  /\ a \notin made
  /\ \E b \in Buffer, base \in Bases :
       /\ heap[b].state = "unused"
       /\ heap' = [heap EXCEPT ![b] =
                     [state |-> "live", base |-> base, size |-> RoundedSize(bytes)]]
       /\ data' = [data EXCEPT ![a] = b]
  /\ made' = made \cup {a}
  /\ capacity' = [capacity EXCEPT ![a] = bytes]
  /\ offset' = [offset EXCEPT ![a] = 0]
  /\ result' = "ok"
  /\ UNCHANGED <<blocks, wrapped>>

\* Arena(bytes): aligned_alloc returns null and no object comes to exist.
ConstructFails(a) ==
  /\ a \notin made
  /\ result' = "bad_alloc"
  /\ UNCHANGED <<made, data, capacity, offset, heap, blocks, wrapped>>

\* The members of a take those of c, and c is emptied.
Exchange(a, c) ==
  /\ data' = [data EXCEPT ![a] = data[c], ![c] = Null]
  /\ capacity' = [capacity EXCEPT ![a] = capacity[c], ![c] = 0]
  /\ offset' = [offset EXCEPT ![a] = offset[c], ![c] = 0]

\* Mutant of MoveConstruct: the source keeps its pointer.
MoveConstruct_Copies(a, c) ==
  /\ a \notin made
  /\ c \in made
  /\ data' = [data EXCEPT ![a] = data[c]]
  /\ capacity' = [capacity EXCEPT ![a] = capacity[c]]
  /\ offset' = [offset EXCEPT ![a] = offset[c]]
  /\ made' = made \cup {a}
  /\ result' = "ok"
  /\ UNCHANGED <<heap, blocks, wrapped>>

\* Arena(Arena&&)
MoveConstruct(a, c) ==
  /\ a \notin made
  /\ c \in made
  /\ Exchange(a, c)
  /\ made' = made \cup {a}
  /\ result' = "ok"
  /\ UNCHANGED <<heap, blocks, wrapped>>

\* Mutant of MoveAssign: the target's own buffer is forgotten.
MoveAssign_Leaks(a, c) ==
  /\ {a, c} \subseteq made
  /\ a # c
  /\ Exchange(a, c)
  /\ result' = "ok"
  /\ UNCHANGED <<made, heap, blocks, wrapped>>

\* operator=(Arena&&); assigning an arena to itself does nothing.
MoveAssign(a, c) ==
  /\ {a, c} \subseteq made
  /\ IF a = c
       THEN UNCHANGED <<data, capacity, offset, heap, blocks>>
       ELSE /\ heap' = Freed(data[a])
            /\ blocks' = BlocksOutside(data[a])
            /\ Exchange(a, c)
  /\ result' = "ok"
  /\ UNCHANGED <<made, wrapped>>

\* ~Arena()
Destroy(a) ==
  /\ a \in made
  /\ heap' = Freed(data[a])
  /\ blocks' = BlocksOutside(data[a])
  /\ made' = made \ {a}
  /\ data' = [data EXCEPT ![a] = Null]
  /\ capacity' = [capacity EXCEPT ![a] = 0]
  /\ offset' = [offset EXCEPT ![a] = 0]
  /\ result' = "ok"
  /\ UNCHANGED wrapped

\* Mutant of Fits: the padding is left out of the check.
Fits_Unpadded(a, bytes, alignment) == (offset[a] + bytes) % Word <= capacity[a]

\* The capacity check of allocate, on the wrapped sum.
Fits(a, bytes, alignment) ==
  (Aligned(offset[a], alignment) + bytes) % Word <= capacity[a]

\* A request for which one of the sums of allocate is not below Word.
Wraps(a, bytes, alignment) ==
  \/ offset[a] + alignment - 1 >= Word
  \/ Aligned(offset[a], alignment) + bytes >= Word

\* The history of the answered requests that wrap.
Noted(a, bytes, alignment) ==
  wrapped' = IF Wraps(a, bytes, alignment) THEN wrapped \cup ({data[a]} \ {Null}) ELSE wrapped

\* Mutant of Allocate: the offset advances by the size alone.
Allocate_ForgetsPadding(a, bytes, alignment) ==
  LET lo == Aligned(offset[a], alignment)
  IN  /\ a \in made
      /\ Fits(a, bytes, alignment)
      /\ Cardinality(blocks) < MaxBlocks
      /\ offset' = [offset EXCEPT ![a] = (@ + bytes) % Word]
      /\ blocks' = blocks \cup
           (IF data[a] = Null \/ bytes = 0 THEN {}
            ELSE {[buffer |-> data[a], lo |-> lo, size |-> bytes, align |-> alignment]})
      /\ Noted(a, bytes, alignment)
      /\ result' = "ok"
      /\ UNCHANGED <<made, data, capacity, heap>>

\* allocate(bytes, alignment) returns data_ + aligned; on an empty arena the
\* null pointer, which is no block; neither is a block of no bytes.  Only the
\* offset is aligned, not the address.
Allocate(a, bytes, alignment) ==
  LET lo == Aligned(offset[a], alignment)
  IN  /\ a \in made
      /\ Fits(a, bytes, alignment)
      /\ Cardinality(blocks) < MaxBlocks
      /\ offset' = [offset EXCEPT ![a] = (lo + bytes) % Word]
      /\ blocks' = blocks \cup
           (IF data[a] = Null \/ bytes = 0 THEN {}
            ELSE {[buffer |-> data[a], lo |-> lo, size |-> bytes, align |-> alignment]})
      /\ Noted(a, bytes, alignment)
      /\ result' = "ok"
      /\ UNCHANGED <<made, data, capacity, heap>>

\* allocate throws bad_alloc and leaves the arena alone.
AllocateFails(a, bytes, alignment) ==
  /\ a \in made
  /\ ~Fits(a, bytes, alignment)
  /\ result' = "bad_alloc"
  /\ UNCHANGED <<made, data, capacity, offset, heap, blocks, wrapped>>

\* reset(): the blocks of the arena are given up.
Reset(a) ==
  /\ a \in made
  /\ offset' = [offset EXCEPT ![a] = 0]
  /\ blocks' = BlocksOutside(data[a])
  /\ wrapped' = wrapped \ {data[a]}
  /\ result' = "ok"
  /\ UNCHANGED <<made, data, capacity, heap>>

Next ==
  \E a \in Object :
    \/ \E bytes \in Capacities : Construct(a, bytes)
    \/ ConstructFails(a)
    \/ \E c \in Object : MoveConstruct(a, c) \/ MoveAssign(a, c)
    \/ Destroy(a)
    \/ Reset(a)
    \/ \E bytes \in Requests, alignment \in Alignments :
         Allocate(a, bytes, alignment) \/ AllocateFails(a, bytes, alignment)

Spec == Init /\ [][Next]_vars

-----------------------------------------------------------------------------
(* Properties. *)

\* Types; in particular no buffer is ever freed twice ("corrupt").
TypeOK ==
  /\ made \in SUBSET Object
  /\ data \in [Object -> Buffer \cup {Null}]
  /\ capacity \in [Object -> Capacities \cup {0}]
  /\ offset \in [Object -> 0 .. Word - 1]
  /\ heap \in [Buffer -> [state : {"unused", "live", "freed"}, base : Bases \cup {0}, size : Nat]]
  /\ blocks \subseteq [buffer : Buffer, lo : Nat, size : Nat, align : Alignments]
  /\ wrapped \subseteq Buffer
  /\ result \in {"ok", "bad_alloc"}

\* A heap buffer that has not been freed is owned by exactly one existing
\* object, whatever constructions, moves, assignments (to itself too) and
\* destructions happened: nothing leaks, nothing is owned twice.
OwnedOnce ==
  /\ \A a \in Object : data[a] # Null => a \in made /\ heap[data[a]].state = "live"
  /\ \A a, c \in Object : data[a] = data[c] /\ data[a] # Null => a = c
  /\ \A b \in Buffer : heap[b].state = "live" => \E a \in Object : data[a] = b

\* used() never exceeds capacity(), also when the sum in allocate wraps and
\* also for a moved-from arena; and the buffer holds capacity() bytes exactly
\* if rounding the size up does not wrap: the code does not refuse the last
\* BaseAlign - 1 sizes, and then the buffer is smaller.
UsedWithinCapacity ==
  \A a \in Object :
    /\ offset[a] <= capacity[a]
    /\ IF data[a] = Null
         THEN capacity[a] = 0
         ELSE capacity[a] <= heap[data[a]].size <=> capacity[a] + BaseAlign <= Word

\* Bytes two blocks have in common.
Apart(p, q) ==
  p.buffer # q.buffer \/ p.lo + p.size <= q.lo \/ q.lo + q.size <= p.lo

\* Blocks in use belong to live buffers.  Unless a request on its buffer has
\* wrapped since the last reset, a block shares no byte with another one, its
\* address is a multiple of every alignment asked that divides BaseAlign (of a
\* greater one it is a multiple only if the buffer is), and it lies in the
\* buffer if rounding the size of that did not wrap.
BlocksApart ==
  /\ \A p \in blocks : heap[p.buffer].state = "live"
  /\ \A p, q \in blocks : p # q /\ p.buffer \notin wrapped => Apart(p, q)
  /\ \A a \in Object : \A p \in blocks :
       p.buffer = data[a] /\ data[a] \notin wrapped =>
         /\ BaseAlign % p.align = 0 => (heap[data[a]].base + p.lo) % p.align = 0
         /\ capacity[a] + BaseAlign <= Word => p.lo + p.size <= heap[data[a]].size
=============================================================================
