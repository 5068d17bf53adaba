-------------------------------- MODULE Quant --------------------------------
(***************************************************************************)
(* Quantized and half-precision tensors: src/quant.cpp, and the sizes of   *)
(* src/gguf.cpp.  A matrix kernel is which calls it accepts, and which     *)
(* parts of which buffers every output adds up, in the order of its loops. *)
(*                                                                         *)
(* A read is <<buffer, first, width, part>>: in bytes for the "rows" of a  *)
(* GGUF tensor, in elements for every other buffer; part says which half   *)
(* of a byte holds a four-bit weight.  A term is the sequence of reads     *)
(* multiplied into one summand, an output the sequence of terms it adds.   *)
(* Sizes stay below the range of size_t, as those of buffers in memory do. *)
(***************************************************************************)
EXTENDS Integers, Sequences, FiniteSetsExt

At(buffer, i) == <<buffer, i, 1, "whole">>

Least(m, n)  == IF m < n THEN m ELSE n
Blocks(n)    == (n + 31) \div 32

-----------------------------------------------------------------------------
(* Data types: one block is [elements, bytes] of a tensor. *)

Single(bytes) == [elements |-> 1, bytes |-> bytes]
By32(bytes)   == [elements |-> 32, bytes |-> bytes]
By256(bytes)  == [elements |-> 256, bytes |-> bytes]

\* tensor_nbytes, by data type.
TensorBlock ==
  [f32 |-> Single(4), f16 |-> Single(2), bf16 |-> Single(2),
   q4_0 |-> By32(18), q4_1 |-> By32(20), q5_0 |-> By32(22), q5_1 |-> By32(24),
   q8_0 |-> By32(34), q2_k |-> By256(84), q3_k |-> By256(110), q4_k |-> By256(144),
   q5_k |-> By256(176), q6_k |-> By256(210), q8_k |-> By256(292),
   iq2_xxs |-> By256(66), iq2_xs |-> By256(74), iq3_xxs |-> By256(98),
   iq1_s |-> By256(50), iq4_nl |-> By32(18), iq3_s |-> By256(110),
   iq2_s |-> By256(82), iq4_xs |-> By256(136), iq1_m |-> By256(56),
   tq1_0 |-> By256(54), tq2_0 |-> By256(66), unknown |-> Single(0)]

DataType == DOMAIN TensorBlock

TensorBytes(dtype, n) ==
  LET block == TensorBlock[dtype]
  IN  ((n + block.elements - 1) \div block.elements) * block.bytes

\* dtype_size, a table of its own.
DtypeSize ==
  [f32 |-> 4, f16 |-> 2, bf16 |-> 2, q4_0 |-> 18, q4_1 |-> 20, q5_0 |-> 22,
   q5_1 |-> 24, q8_0 |-> 34, q2_k |-> 84, q3_k |-> 110, q4_k |-> 144, q5_k |-> 176,
   q6_k |-> 210, q8_k |-> 292, iq2_xxs |-> 66, iq2_xs |-> 74, iq3_xxs |-> 98,
   iq1_s |-> 50, iq4_nl |-> 18, iq3_s |-> 110, iq2_s |-> 82, iq4_xs |-> 136,
   iq1_m |-> 56, tq1_0 |-> 54, tq2_0 |-> 66, unknown |-> 0]

-----------------------------------------------------------------------------
(* matvec_gguf_*_f32: one row of a mapped tensor for each output. *)

\* dtype_has_low_ram_matvec, and the types that matvec_gguf_any_f32 passes on.
LowRam     == {"f32", "f16", "q4_0", "q4_1", "q8_0"}
Quantized  == {"q4_0", "q4_1", "q8_0"}
Dispatched == {"f32", "f16"} \cup Quantized

\* What each kernel takes for the bytes of a block, and for those before its
\* weights (a scale, and for q4_1 a minimum).
BlockBytes == [q4_0 |-> 18, q4_1 |-> 20, q8_0 |-> 34]
Header     == [q4_0 |-> 2, q4_1 |-> 4, q8_0 |-> 2]

RowBytes(dtype, cols) ==
  CASE dtype = "f32" -> cols * 4
    [] dtype = "f16" -> cols * 2
    [] OTHER         -> Blocks(cols) * BlockBytes[dtype]

\* Mutant of MatvecAccepts: a row is taken for a single block.
MatvecAccepts_OneBlock(dtype, size, cols) ==
  /\ dtype # "f32" => cols # 0 /\ size["x"] = cols
  /\ size["rows"] >= size["y"] * (IF dtype \in Quantized THEN BlockBytes[dtype]
                                  ELSE RowBytes(dtype, cols))

\* The branch for f32 looks neither at cols nor at x.
MatvecAccepts(dtype, size, cols) ==
  /\ dtype # "f32" => cols # 0 /\ size["x"] = cols
  /\ size["rows"] >= size["y"] * RowBytes(dtype, cols)

\* Weight i of the block that begins at byte start.
WeightRead(dtype, start, i) ==
  LET weights == start + Header[dtype]
  IN  IF dtype = "q8_0" THEN <<"rows", weights + i, 1, "whole">>
      ELSE <<"rows", weights + i \div 2, 1, IF i % 2 = 0 THEN "low" ELSE "high">>

\* Mutant of WeightReads: blocks follow each other every 32 bytes.
WeightReads_BlockStride(dtype, cols, r, c) ==
  LET row   == r * RowBytes(dtype, cols)
      start == row + (c \div 32) * 32
  IN  CASE dtype = "f32" -> << <<"rows", (r * cols + c) * 4, 4, "whole">> >>
        [] dtype = "f16" -> << <<"rows", row + c * 2, 2, "whole">> >>
        [] OTHER         -> << <<"rows", start, Header[dtype], "whole">>,
                               WeightRead(dtype, start, c % 32) >>

\* What is read for the weight of row r and column c.
WeightReads(dtype, cols, r, c) ==
  LET row   == r * RowBytes(dtype, cols)
      start == row + (c \div 32) * BlockBytes[dtype]
  IN  CASE dtype = "f32" -> << <<"rows", (r * cols + c) * 4, 4, "whole">> >>
        [] dtype = "f16" -> << <<"rows", row + c * 2, 2, "whole">> >>
        [] OTHER         -> << <<"rows", start, Header[dtype], "whole">>,
                               WeightRead(dtype, start, c % 32) >>

MatvecOutputs(dtype, size, cols) ==
  [y \in 1 .. size["y"] |->
     [p \in 1 .. cols |-> WeightReads(dtype, cols, y - 1, p - 1) \o <<At("x", p - 1)>>]]

\* matvec_q4_0_f32 and dot_q4_0_f32: rows of Q4Block objects.
MatvecQ4Accepts(size, cols) ==
  /\ cols # 0 /\ size["x"] = cols
  /\ size["blocks"] >= size["y"] * Blocks(cols)

MatvecQ4Outputs(size, cols) ==
  [y \in 1 .. size["y"] |->
     [p \in 1 .. cols |-> <<At("blocks", (y - 1) * Blocks(cols) + (p - 1) \div 32),
                            At("x", p - 1)>>]]

-----------------------------------------------------------------------------
(* fp16_to_f32: the fields of a half to the fields of a float. *)

\* One round of the loop for a subnormal half.  exp is unsigned and passes
\* below zero; of its 32 bits the shift by 23 keeps nine.
Shifted(s) ==
  IF (s.mant \div 1024) % 2 = 1 THEN s
  ELSE [exp |-> (s.exp - 1) % 512, mant |-> 2 * s.mant]

\* Mutant of Normalised: the exponent starts at 0.
Normalised_FromZero(mant) ==
  LET loop[n \in 0 .. 10] == IF n = 0 THEN [exp |-> 0, mant |-> mant] ELSE Shifted(loop[n - 1])
  IN  loop[10]

\* Ten rounds are enough to bring the leading bit of a mantissa to bit 10.
Normalised(mant) ==
  LET loop[n \in 0 .. 10] == IF n = 0 THEN [exp |-> 1, mant |-> mant] ELSE Shifted(loop[n - 1])
  IN  loop[10]

\* Bit 8 of a biased exponent would fall on the sign.
Float(sign, exp, mant) ==
  LET biased == (exp + 127 - 15) % 512
  IN  [sign |-> IF biased >= 256 THEN 1 ELSE sign,
       exp  |-> biased % 256, mant |-> mant * 8192]

Fp16ToF32(h) ==
  LET sign == h \div 32768
      exp  == (h \div 1024) % 32
      mant == h % 1024
  IN  CASE exp = 0 /\ mant = 0 -> [sign |-> sign, exp |-> 0, mant |-> 0]
        [] exp = 0 /\ mant # 0 -> Float(sign, Normalised(mant).exp, Normalised(mant).mant % 1024)
        [] exp = 31            -> [sign |-> sign, exp |-> 255, mant |-> mant * 8192]
        [] OTHER               -> Float(sign, exp, mant)

-----------------------------------------------------------------------------
(* quantize_q4_0: values are integers, and a scale is a fraction. *)

Magnitude(v) == IF v < 0 THEN -v ELSE v

Largest(values, base) ==
  Max({0} \cup {Magnitude(values[i]) : i \in base + 1 .. Least(base + 32, Len(values))})

\* n / d to a nearest integer.  A quotient of floats falls on either side of
\* a tie, which goes up or down as tie says.
NearbyInt(n, d, tie) == (2 * n + d - IF tie = "down" THEN 1 ELSE 0) \div (2 * d)

Clamped(q) == IF q < -8 THEN -8 ELSE Least(q, 7)

\* The scale is the fraction itself, so the values are multiples of a unit whose
\* seventh a float holds.  Not so for subnormals: amax / 7.0f is 0 when amax is
\* at most three times the smallest of them, and the values are divided by it.
QuantizeBlock(values, b, tie) ==
  LET amax  == Largest(values, b * 32)
      scale == IF amax = 0 THEN [num |-> 1, den |-> 1] ELSE [num |-> amax, den |-> 7]
      value(i)  == IF b * 32 + i < Len(values) THEN values[b * 32 + i + 1] ELSE 0
      nibble(i) == Clamped(NearbyInt(value(i) * scale.den, scale.num, tie)) + 8
  IN  [scale  |-> scale,
       packed |-> [j \in 0 .. 15 |-> nibble(2 * j) + ((16 * nibble(2 * j + 1)) % 256)]]

Quantize(values, tie) ==
  [b \in 1 .. Blocks(Len(values)) |-> QuantizeBlock(values, b - 1, tie)]

\* What dot_q4_0_f32 and the GGUF kernels make of weight i of a block.
Unpacked(packed, i) ==
  (IF i % 2 = 0 THEN packed[i \div 2] % 16 ELSE packed[i \div 2] \div 16) - 8
=============================================================================
