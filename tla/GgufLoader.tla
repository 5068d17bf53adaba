----------------------------- MODULE GgufLoader -----------------------------
(***************************************************************************)
(* The memory-mapped GGUF loader (src/gguf.cpp): GgufFile::open, the       *)
(* probe, moves and destruction of GgufFile objects, tensor_bytes and      *)
(* prefetch_tensors.                                                       *)
(*                                                                         *)
(* A file is its size and whatever the cursor reads from it: the content   *)
(* of each entry is chosen when it is read, so every file, complete, cut   *)
(* short or malformed, is a behaviour.  Lengths and offsets are in bytes;  *)
(* 64-bit sums are modulo Word and 32-bit values modulo Word32.  A key is  *)
(* "alignment" (general.alignment) or "other"; the values of other keys,   *)
(* names and shapes are data the loader does not act on.                   *)
(***************************************************************************)
EXTENDS Integers, Sequences, FiniteSets

CONSTANTS
  Impl,           \* bound: Impl blocks that exist at a time
  Handle,         \* GgufFile objects of the client
  Null,           \* an empty unique_ptr
  FileSizes,      \* st_size of the files that are opened
  HeaderLen,      \* 24 in the code: magic, version and the two counts
  Versions,       \* values of the version field
  Counts,         \* values of the two count fields
  MetadataEntry,  \* what a metadata entry can be
  TensorEntry,    \* what a tensor entry can be
  Page,           \* 4096 in the code
  Word,           \* 2^64
  Word32          \* 2^32

ASSUME NullAssumption == Null \notin Impl
ASSUME WordAssumption ==
  Word \in Nat \ {0} /\ Word32 \in Nat \ {0} /\ Page \in Nat \ {0} /\ HeaderLen \in Nat
ASSUME FileAssumption == FileSizes \subseteq 0 .. Word - 1
ASSUME CountAssumption == Counts \subseteq 0 .. Word - 1 /\ Versions \subseteq Nat
ASSUME MetadataAssumption ==
  MetadataEntry \subseteq [key : {"alignment", "other"}, parses : BOOLEAN,
                           value : 0 .. Word - 1, len : Nat \ {0}]
ASSUME TensorAssumption ==
  TensorEntry \subseteq [bytes : 0 .. Word - 1, offset : 0 .. Word - 1, len : Nat \ {0}]

VARIABLES
  impl,      \* the Impl blocks
  fds,       \* the blocks whose file descriptor is open
  maps,      \* the blocks whose mapping exists
  call,      \* the open or probe in progress
  handle,    \* impl_ of every handle
  views,     \* spans that tensor_bytes returned and whose file still lives
  touched,   \* what the last prefetch read
  advised,   \* the pages madvise accepted, by block
  outcome    \* how the last operation ended

vars == <<impl, fds, maps, call, handle, views, touched, advised, outcome>>

Idle   == [impl |-> Null, phase |-> "idle", to |-> Null]
NoImpl == [state |-> "none", size |-> 0, pos |-> 0, version |-> 0,
           tensorCount |-> 0, metadataCount |-> 0, metadataRead |-> 0,
           alignment |-> 32 % Word32, dataStart |-> 0, tensors |-> <<>>]

Init ==
  /\ impl = [i \in Impl |-> NoImpl]
  /\ fds = {} /\ maps = {}
  /\ call = Idle
  /\ handle = [h \in Handle |-> Null]
  /\ views = {} /\ touched = {} /\ advised = {}
  /\ outcome = "none"

-----------------------------------------------------------------------------
(* Bounds. *)

\* align_up
AlignUp(x, a) == IF a = 0 THEN x ELSE (((x + a - 1) % Word) \div a) * a

\* Where a tensor starts in the mapping of block i.
Start(i, t) == (impl[i].dataStart + t.offset) % Word

\* Mutant of InBounds: the two sides are added, and the sum wraps.
InBounds_Sum(size, start, bytes) == (start + bytes) % Word <= size

\* The check before a tensor's bytes are used.
InBounds(size, start, bytes) == start <= size /\ bytes <= size - start

-----------------------------------------------------------------------------
(* Blocks. *)

\* Mutant of Closed: only a file that was opened completely is released.
Closed_IfValid(D) ==
  LET V == {i \in D : impl[i].state = "valid"}
  IN  /\ fds' = fds \ V
      /\ maps' = maps \ V
      /\ views' = {v \in views : v.impl \notin V}
      /\ touched' = {v \in touched : v.impl \notin V}
      /\ advised' = {p \in advised : p.impl \notin V}

\* ~Impl of every block in D: unmapped if mapped, closed if open.
Closed(D) ==
  /\ fds' = fds \ D
  /\ maps' = maps \ D
  /\ views' = {v \in views : v.impl \notin D}
  /\ touched' = {v \in touched : v.impl \notin D}
  /\ advised' = {p \in advised : p.impl \notin D}

Deleted(D) == Closed(D) /\ impl' = [i \in Impl |-> IF i \in D THEN NoImpl ELSE impl[i]]

\* An exception leaves open: the unique_ptr deletes the block; probe_gguf
\* catches it and reports an invalid file.
Throw ==
  /\ Deleted({call.impl})
  /\ call' = Idle
  /\ outcome' = IF call.to = "probe" THEN "invalid" ELSE "threw"
  /\ UNCHANGED handle

-----------------------------------------------------------------------------
(* open, phase by phase. *)

\* make_unique<Impl>; "to" is the handle that takes the result, or the probe.
Begin(i, to) ==
  /\ call = Idle
  /\ impl[i].state = "none"
  /\ impl' = [impl EXCEPT ![i] = [NoImpl EXCEPT !.state = "opening"]]
  /\ call' = [impl |-> i, phase |-> "open", to |-> to]
  /\ outcome' = "none"
  /\ UNCHANGED <<fds, maps, handle, views, touched, advised>>

Enter(phase) == call' = [call EXCEPT !.phase = phase]

\* The step that opens the file, measures it or maps it fails.
SystemCallFails == call.phase \in {"open", "fstat", "mmap"} /\ Throw

\* ::open
OpenFd ==
  /\ call.phase = "open"
  /\ fds' = fds \cup {call.impl}
  /\ Enter("fstat")
  /\ UNCHANGED <<impl, maps, handle, views, touched, advised, outcome>>

\* fstat
Fstat ==
  /\ call.phase = "fstat"
  /\ \E n \in FileSizes : impl' = [impl EXCEPT ![call.impl].size = n]
  /\ Enter("mmap")
  /\ UNCHANGED <<fds, maps, handle, views, touched, advised, outcome>>

\* mmap, which refuses an empty file.
Mmap ==
  /\ call.phase = "mmap"
  /\ impl[call.impl].size > 0
  /\ maps' = maps \cup {call.impl}
  /\ Enter("header")
  /\ UNCHANGED <<impl, fds, handle, views, touched, advised, outcome>>

\* The block of the call, and whether the cursor can read n more bytes.
Cur == impl[call.impl]
Room(n) == n <= Cur.size /\ Cur.pos <= Cur.size - n

\* A file that is too short or does not begin with the magic.
HeaderThrows == call.phase = "header" /\ Throw

\* Magic, version and counts; the version is stored and not compared.
ReadHeader ==
  /\ call.phase = "header"
  /\ Room(HeaderLen)
  /\ \E v \in Versions, n, m \in Counts :
       impl' = [impl EXCEPT ![call.impl] =
                  [Cur EXCEPT !.pos = HeaderLen, !.version = v,
                              !.tensorCount = n, !.metadataCount = m]]
  /\ Enter("metadata")
  /\ UNCHANGED <<fds, maps, handle, views, touched, advised, outcome>>

\* Mutant of SetAlignment: the value is not cut to 32 bits.
SetAlignment_Wide(e, old) == IF e.key = "alignment" THEN e.value ELSE old

\* The last general.alignment entry counts.
SetAlignment(e, old) == IF e.key = "alignment" THEN e.value % Word32 ELSE old

MetadataPending == Cur.metadataRead < Cur.metadataCount

\* One more metadata entry.
ReadMetadata ==
  /\ call.phase = "metadata"
  /\ MetadataPending
  /\ \E e \in MetadataEntry :
       /\ Room(e.len)
       /\ e.parses
       /\ impl' = [impl EXCEPT ![call.impl] =
                     [Cur EXCEPT !.pos = Cur.pos + e.len,
                                 !.metadataRead = Cur.metadataRead + 1,
                                 !.alignment = SetAlignment(e, Cur.alignment)]]
  /\ UNCHANGED <<fds, maps, call, handle, views, touched, advised, outcome>>

\* Mutant of MetadataThrows: a cut file is waited for.
MetadataThrows_NotIfCut ==
  /\ call.phase = "metadata"
  /\ MetadataPending
  /\ \/ (\A e \in MetadataEntry : ~Room(e.len)) /\ UNCHANGED vars
     \/ (\E e \in MetadataEntry : Room(e.len) /\ ~e.parses) /\ Throw

\* An entry that is cut off, of unknown type, not a string array where one is
\* expected, or an alignment that is no number.
MetadataThrows ==
  /\ call.phase = "metadata"
  /\ MetadataPending
  /\ \E e \in MetadataEntry : ~Room(e.len) \/ ~e.parses
  /\ Throw

MetadataDone ==
  /\ call.phase = "metadata"
  /\ ~MetadataPending
  /\ Enter("tensors")
  /\ UNCHANGED <<impl, fds, maps, handle, views, touched, advised, outcome>>

TensorsPending == Len(Cur.tensors) < Cur.tensorCount

\* One more entry of the tensor directory.
ReadTensor ==
  /\ call.phase = "tensors"
  /\ TensorsPending
  /\ \E t \in TensorEntry :
       /\ Room(t.len)
       /\ impl' = [impl EXCEPT ![call.impl] =
                     [Cur EXCEPT !.pos = Cur.pos + t.len,
                                 !.tensors = Append(Cur.tensors, t)]]
  /\ UNCHANGED <<fds, maps, call, handle, views, touched, advised, outcome>>

TensorThrows ==
  /\ call.phase = "tensors"
  /\ TensorsPending
  /\ \E t \in TensorEntry : ~Room(t.len)
  /\ Throw

\* data_start is computed from where the cursor stands.
TensorsDone ==
  /\ call.phase = "tensors"
  /\ ~TensorsPending
  /\ impl' = [impl EXCEPT ![call.impl].dataStart = AlignUp(Cur.pos, Cur.alignment)]
  /\ Enter("bounds")
  /\ UNCHANGED <<fds, maps, handle, views, touched, advised, outcome>>

\* The tensors the bounds loop looks at: one without bytes is skipped.
Sized(i) == {t \in {impl[i].tensors[k] : k \in 1 .. Len(impl[i].tensors)} : t.bytes # 0}

AllInside(i) == \A t \in Sized(i) : InBounds(impl[i].size, Start(i, t), t.bytes)

\* Mutant of OpenChecks: offsets are taken from the end of the directory,
\* before it is aligned.
OpenChecks_Unaligned(i) ==
  \A t \in Sized(i) : InBounds(impl[i].size, (impl[i].pos + t.offset) % Word, t.bytes)

\* The bounds loop at the end of open.
OpenChecks(i) == AllInside(i)

\* "GGUF tensor points outside file"
BoundsThrow == call.phase = "bounds" /\ ~OpenChecks(call.impl) /\ Throw

\* The file is valid and moves into the handle, whose old file goes.
ReturnFile ==
  /\ call.phase = "bounds"
  /\ call.to # "probe"
  /\ OpenChecks(call.impl)
  /\ LET D == {handle[call.to]} \cap Impl
     IN  /\ Closed(D)
         /\ impl' = [i \in Impl |-> IF i \in D THEN NoImpl
                                    ELSE IF i = call.impl THEN [impl[i] EXCEPT !.state = "valid"]
                                    ELSE impl[i]]
  /\ handle' = [handle EXCEPT ![call.to] = call.impl]
  /\ call' = Idle
  /\ outcome' = "opened"

\* probe_gguf copies the counts and its file is destroyed.
ReturnProbe ==
  /\ call.phase = "bounds"
  /\ call.to = "probe"
  /\ OpenChecks(call.impl)
  /\ Deleted({call.impl})
  /\ call' = Idle
  /\ outcome' = "probed"
  /\ UNCHANGED handle

-----------------------------------------------------------------------------
(* GgufFile objects between opens. *)

\* operator=(GgufFile&&), on itself without effect.
MoveAssign(h, g) ==
  /\ call = Idle
  /\ h # g
  /\ Deleted({handle[h]} \cap Impl)
  /\ handle' = [handle EXCEPT ![h] = handle[g], ![g] = Null]
  /\ outcome' = "none"
  /\ UNCHANGED call

\* ~GgufFile; the object is made again, empty.
Drop(h) ==
  /\ call = Idle
  /\ handle[h] # Null
  /\ Deleted({handle[h]})
  /\ handle' = [handle EXCEPT ![h] = Null]
  /\ outcome' = "none"
  /\ UNCHANGED call

\* The tensor infos a client can have copied from any file that is open.
Infos == UNION {{impl[i].tensors[k] : k \in 1 .. Len(impl[i].tensors)} :
                  i \in {j \in Impl : impl[j].state = "valid"}}

\* How tensor_bytes fails: for a tensor of the file that the bounds loop of open
\* looked at, or for an info of another file or of a tensor without bytes.
OutOfBounds(i, t) == IF t \in Sized(i) THEN "own_out_of_bounds" ELSE "out_of_bounds"

\* tensor_bytes, of an info of this file or of another one.
TensorBytes(h, t) ==
  /\ call = Idle
  /\ IF handle[h] = Null
       THEN outcome' = "not_open" /\ UNCHANGED views
       ELSE IF InBounds(impl[handle[h]].size, Start(handle[h], t), t.bytes)
              THEN /\ views' = views \cup {[impl |-> handle[h], lo |-> Start(handle[h], t),
                                            size |-> t.bytes]}
                   /\ outcome' = "viewed"
              ELSE outcome' = OutOfBounds(handle[h], t) /\ UNCHANGED views
  /\ UNCHANGED <<impl, fds, maps, call, handle, touched, advised>>

\* The pages a range of bytes lies on.
Pages(lo, n) == lo \div Page .. (lo + n - 1) \div Page

\* madvise refuses an address that is not on a page boundary, and the result
\* is dropped.
AdviceTaken(lo) == lo % Page = 0

\* One byte of every page of a tensor, and its last one.
TouchedBytes(lo, n) == {lo + k : k \in {j \in 0 .. n - 1 : j % Page = 0} \cup {n - 1}}

\* prefetch_tensors over a file whose tensors are all in bounds.
Prefetch(h, touch) ==
  /\ call = Idle
  /\ handle[h] # Null
  /\ LET i == handle[h]
     IN  /\ AllInside(i)
         /\ advised' = advised \cup
              {[impl |-> i, page |-> p] : p \in
                 UNION {Pages(Start(i, t), t.bytes) :
                          t \in {s \in Sized(i) : AdviceTaken(Start(i, s))}}}
         /\ touched' = IF touch
              THEN {[impl |-> i, byte |-> b] : b \in
                      UNION {TouchedBytes(Start(i, t), t.bytes) : t \in Sized(i)}}
              ELSE {}
  /\ outcome' = "prefetched"
  /\ UNCHANGED <<impl, fds, maps, call, handle, views>>

\* prefetch_tensors throws: no file, or a tensor out of bounds.
PrefetchThrows(h) ==
  /\ call = Idle
  /\ \/ handle[h] = Null /\ outcome' = "not_open"
     \/ handle[h] # Null /\ ~AllInside(handle[h]) /\ outcome' = "prefetch_bounds"
  /\ UNCHANGED <<impl, fds, maps, call, handle, views, touched, advised>>

-----------------------------------------------------------------------------
Opening ==
  \/ SystemCallFails \/ OpenFd \/ Fstat \/ Mmap
  \/ HeaderThrows \/ ReadHeader
  \/ ReadMetadata \/ MetadataThrows \/ MetadataDone
  \/ ReadTensor \/ TensorThrows \/ TensorsDone
  \/ BoundsThrow \/ ReturnFile \/ ReturnProbe

Next ==
  \/ Opening
  \/ \E i \in Impl, to \in Handle \cup {"probe"} : Begin(i, to)
  \/ \E h, g \in Handle : MoveAssign(h, g)
  \/ \E h \in Handle : Drop(h) \/ PrefetchThrows(h)
  \/ \E h \in Handle, touch \in BOOLEAN : Prefetch(h, touch)
  \/ \E h \in Handle : \E t \in Infos : TensorBytes(h, t)

\* A call that began runs on; the client need not do anything.
Spec == Init /\ [][Next]_vars /\ WF_vars(Opening)

-----------------------------------------------------------------------------
(* Properties. *)

Phases == {"open", "fstat", "mmap", "header", "metadata", "tensors", "bounds"}

Block ==
  [state : {"none", "opening", "valid"}, size : 0 .. Word - 1, pos : Nat, version : Nat,
   tensorCount : Nat, metadataCount : Nat, metadataRead : Nat,
   alignment : 0 .. Word32 - 1, dataStart : 0 .. Word - 1, tensors : Seq(TensorEntry)]

\* Types; 64-bit and 32-bit fields keep their width.
TypeOK ==
  /\ impl \in [Impl -> Block]
  /\ fds \subseteq Impl /\ maps \subseteq Impl
  /\ \/ call = Idle
     \/ call \in [impl : Impl, phase : Phases, to : Handle \cup {"probe"}]
  /\ handle \in [Handle -> Impl \cup {Null}]
  /\ views \subseteq [impl : Impl, lo : Nat, size : Nat]
  /\ touched \subseteq [impl : Impl, byte : Nat]
  /\ advised \subseteq [impl : Impl, page : Nat]

\* Descriptors and mappings belong to blocks that live, a block that lives has
\* one owner, the call in progress or one handle, and a handle's file is
\* mapped: whatever step of open fails, nothing leaks.
Released ==
  /\ \A i \in Impl : i \in fds \cup maps => impl[i].state # "none"
  /\ maps \subseteq fds
  /\ \A i \in Impl : impl[i].state # "none" =>
       \/ call.impl = i
       \/ \E h \in Handle : handle[h] = i
  /\ \A h \in Handle : handle[h] # Null =>
       /\ handle[h] # call.impl
       /\ handle[h] \in maps
       /\ impl[handle[h]].state = "valid"
       /\ \A g \in Handle : handle[g] = handle[h] => g = h

\* The cursor, the spans handed out and the bytes prefetch reads stay inside
\* a mapping that exists, also when offsets and counts wrap.
ReadsInside ==
  /\ \A i \in Impl : impl[i].pos <= impl[i].size
  /\ \A v \in views : v.impl \in maps /\ v.lo + v.size <= impl[v.impl].size
  /\ \A b \in touched : b.impl \in maps /\ b.byte < impl[b.impl].size

\* What open accepted, prefetch_tensors and tensor_bytes accept: their bounds
\* checks never fail for a tensor with bytes of the file itself, wherever the
\* file was moved.  (One without bytes, an unknown type among them, is not
\* looked at by open, and tensor_bytes throws for it if it starts outside.)
CheckedOnce == outcome \notin {"prefetch_bounds", "own_out_of_bounds"}

\* Every open and every probe comes to an end, however large the counts the
\* file declares.
OpenReturns == call # Idle ~> call = Idle

\* "issue OS prefetch advice for mapped tensor pages"
\* (docs/universal_acceleration.md:16): after prefetch_tensors the pages
\* of every tensor of the file have been advised.
AdvisesPages ==
  outcome = "prefetched" =>
    \E h \in Handle :
      /\ handle[h] # Null
      /\ \A t \in Sized(handle[h]) : \A p \in Pages(Start(handle[h], t), t.bytes) :
           [impl |-> handle[h], page |-> p] \in advised
=============================================================================
