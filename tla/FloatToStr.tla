----------------------------- MODULE FloatToStr -----------------------------
(***************************************************************************)
(* float_to_str of springbok.cpp: the text of a binary32 value, written    *)
(* without the C library, and the way its comment says to call it: once    *)
(* for the length, once more into a buffer of that length.                 *)
(*                                                                         *)
(* The arithmetic is exact.  A value is its bit pattern: the magnitude     *)
(* (raw & 0x7FFFFFFF, below 2^31) and the sign.  The finite nonzero ones   *)
(* are unpacked to a 24-bit significand times a power of two; a product    *)
(* is rounded to nearest, ties to even.  Multiplying by 2^32 or 2^-32 is   *)
(* exact, and no product below overflows or is denormal.  A 64-bit         *)
(* integer is a pair of limbs of 24 bits, which all of them fit.           *)
(*                                                                         *)
(* Which characters a value has is a function of it; how they get into     *)
(* the buffer is a step per character.                                     *)
(***************************************************************************)
EXTENDS Integers, Sequences, FiniteSets

CONSTANTS Values,        \* the values that may be passed
          ShortLengths,  \* lengths of a buffer, beside the one asked for
          MemorySize     \* bytes of memory from the start of the buffer

LargestPattern == \h7FFFFFFF

ASSUME ValueAssumption ==
  Values \subseteq [raw : 0..LargestPattern, negative : BOOLEAN]
ASSUME SizeAssumption ==
  /\ MemorySize \in Nat
  /\ ShortLengths \subseteq 1..MemorySize

-----------------------------------------------------------------------------
(* binary32 *)

Infinity == \h7F800000
One      == \h3F800000
TenToThe7 == \h4B189680

TwoToThe23 == 8388608
TwoToThe24 == 16777216

(* The fraction and the exponent of a finite nonzero pattern; a denormal   *)
(* one is shifted up to 24 bits.                                           *)
Unpack(raw) ==
  LET biased   == raw \div TwoToThe23
      fraction == raw % TwoToThe23
      shift    == CHOOSE k \in 1..23 :
                    fraction * 2^k \in TwoToThe23..(TwoToThe24 - 1)
  IN  IF biased > 0
      THEN [sig |-> fraction + TwoToThe23, exp |-> biased - 150]
      ELSE [sig |-> fraction * 2^shift, exp |-> -149 - shift]

RoundUp(top, rest, half) ==
  \/ rest > half
  \/ rest = half /\ top % 2 = 1

(* A product of 47 or 48 bits, high above 24 bits of rest, times 2^exp: the *)
(* upper 24 bits are kept.                                                  *)
Rounded(high, rest, exp) ==
  LET wide == high >= TwoToThe23
      top  == IF wide THEN high ELSE high * 2 + rest \div TwoToThe23
      tail == IF wide THEN rest ELSE (rest % TwoToThe23) * 2
      sig  == IF RoundUp(top, tail, TwoToThe23) THEN top + 1 ELSE top
      kept == exp + (IF wide THEN 24 ELSE 23)
  IN  IF sig = TwoToThe24 THEN [sig |-> TwoToThe23, exp |-> kept + 1]
                          ELSE [sig |-> sig, exp |-> kept]

(* a * b in binary32, by halves of 12 bits. *)
Multiply(a, b) ==
  LET a1 == a.sig \div 4096   a0 == a.sig % 4096
      b1 == b.sig \div 4096   b0 == b.sig % 4096
      mid  == a1 * b0 + a0 * b1
      low  == (mid % 4096) * 4096 + a0 * b0
      high == a1 * b1 + mid \div 4096 + low \div TwoToThe24
  IN  Rounded(high, low % TwoToThe24, a.exp + b.exp)

Scale2(a, k) == [a EXCEPT !.exp = @ + k]

(* static_cast<uint64_t> of a value below 2^44: its integral part. *)
ToInteger(a) ==
  IF a.exp <= -24 THEN <<0, 0>>
  ELSE IF a.exp <= 0 THEN <<0, a.sig \div 2^(0 - a.exp)>>
  ELSE <<a.sig \div 2^(24 - a.exp), (a.sig % 2^(24 - a.exp)) * 2^a.exp>>

Million == Unpack(\h49742400)         \* 1000000.f

-----------------------------------------------------------------------------
(* The tables.  Patterns of positive values compare as integers do. *)

RawBucketStart == <<
  \h00000000, \h00000007, \h00000047, \h000002c9, \h00001be0, \h000116c2, \h000ae397,
  \h006ce3ee, \h02081cea, \h03aa2424, \h0554ad2d, \h0704ec3c, \h08a6274b, \h0a4fb11e,
  \h0c01ceb3, \h0da2425f, \h0f4ad2f7, \h10fd87b5, \h129e74d1, \h14461206, \h15f79687,
  \h179abe14, \h19416d9a, \h1af1c900, \h1c971da0, \h1e3ce508, \h1fec1e4a, \h219392ee,
  \h233877aa, \h24e69594, \h26901d7c, \h283424dc, \h29e12e13, \h2b8cbccc, \h2d2febff,
  \h2edbe6fe, \h3089705f, \h322bcc77, \h33d6bf94, \h358637bd, \h3727c5ac, \h38d1b717,
  \h3a83126e, \h3c23d70a, \h3dcccccc, \h3f7fffff, \h411fffff, \h42c7ffff, \h4479ffff,
  \h461c3fff, \h47c34fff, \h497423ff, \h4b18967f, \h4cbebc1f, \h4e6e6b27, \h501502f8,
  \h51ba43b7, \h5368d4a5, \h551184e7, \h56b5e620, \h58635fa9, \h5a0e1bc9, \h5bb1a2bc,
  \h5d5e0b6b, \h5f0ac723, \h60ad78eb, \h6258d726, \h64078678, \h65a96816, \h6753c21b,
  \h69045951, \h6aa56fa5, \h6c4ecb8f, \h6e013f39, \h6fa18f07, \h7149f2c9, \h72fc6f7c,
  \h749dc5ad, \h76453719, \h77f684df, \h799a130b, \h7b4097ce, \h7cf0bdc2, \h7e967699 >>

RawBucketScale == <<
  \h7a335dbf, \h788f7e32, \h76e596b7, \h7537abc6, \h7392efd1, \h71eb194f, \h703c143f,
  \h6e967699, \h6cf0bdc2, \h6b4097cf, \h699a130c, \h67f684df, \h66453719, \h649dc5ae,
  \h62fc6f7c, \h6149f2ca, \h5fa18f08, \h5e013f3a, \h5c4ecb8f, \h5aa56fa6, \h59045952,
  \h5753c21c, \h55a96816, \h54078678, \h5258d726, \h50ad78ec, \h4f0ac723, \h4d5e0b6b,
  \h4bb1a2bc, \h4a0e1bca, \h48635faa, \h46b5e621, \h551184e7, \h5368d4a5, \h51ba43b7,
  \h501502f9, \h4e6e6b28, \h4cbebc20, \h4b189680, \h49742400, \h47c35000, \h461c4000,
  \h447a0000, \h42c80000, \h41200000, \h3f800000, \h3dcccccd, \h3c23d70b, \h3a83126f,
  \h38d1b718, \h3727c5ad, \h358637be, \h43d6bf95, \h422bcc78, \h40897060, \h3edbe6ff,
  \h3d2febff, \h3b8cbccc, \h39e12e13, \h383424dd, \h36901d7d, \h34e69595, \h333877aa,
  \h319392ef, \h2fec1e4a, \h2e3ce509, \h2c971da1, \h2af1c900, \h29416d9a, \h279abe15,
  \h25f79687, \h24461206, \h229e74d2, \h20fd87b5, \h1f4ad2f8, \h1da24260, \h1c01ceb3,
  \h1a4fb11f, \h18a6274b, \h1704ec3d, \h1554ad2e, \h13aa2425, \h12081cea, \h1059c7dc >>

(* bucket_start[e + 45] and bucket_scale[e + 45] *)
BucketStart(e) == RawBucketStart[e + 46]
BucketScale(e) == Unpack(RawBucketScale[e + 46])

(* Faulty variant: a power of ten that is rounded down to the value itself  *)
(* is taken for a smaller one.                                             *)
BucketOfEqual(raw) == CHOOSE e \in -45..38 :
                        /\ BucketStart(e) <= raw
                        /\ \A f \in (e + 1)..38 : ~(BucketStart(f) <= raw)

(* "the first smaller power of 10": the search runs down from 10^38. *)
Bucket(raw) == CHOOSE e \in -45..38 :
                 /\ BucketStart(e) < raw
                 /\ \A f \in (e + 1)..38 : ~(BucketStart(f) < raw)

Prescaled(raw, e) ==
  CASE e < -45 + 32 -> Scale2(Unpack(raw), 32)
    [] e >= 39 - 32 -> Scale2(Unpack(raw), -32)
    [] OTHER        -> Unpack(raw)

Scaled(raw, e) == Multiply(Prescaled(raw, e), BucketScale(e))

-----------------------------------------------------------------------------
(* The characters of a value.                                              *)

DigitText == <<"0", "1", "2", "3", "4", "5", "6", "7", "8", "9">>

\* value / 10 and value % 10 of a pair of limbs
DivideByTen(v) == LET low == (v[1] % 10) * TwoToThe24 + v[2]
                  IN  [quotient |-> <<v[1] \div 10, low \div 10>>,
                       remainder |-> low % 10]

\* digits[0..15], the least significant one first
Digits(v) ==
  LET rest[i \in 0..15] == IF i = 0 THEN v ELSE DivideByTen(rest[i - 1]).quotient
  IN  [i \in 0..15 |-> DivideByTen(rest[i]).remainder]

\* The first digit printed: leading zeros are left out down to the digit in
\* front of the point.
FirstDigit(digits, fixedPoint) ==
  CHOOSE i \in fixedPoint..15 :
    /\ i = fixedPoint \/ digits[i] # 0
    /\ \A j \in (i + 1)..15 : digits[j] = 0

Sign(negative) == IF negative THEN <<"-">> ELSE <<>>

\* digits[from] down to digits[to]
DigitsDown(digits, from, to) ==
  [k \in 1..(from - to + 1) |-> DigitText[digits[from + 1 - k] + 1]]

\* print_fp_num
FpNum(v, negative, fixedPoint) ==
  LET digits == Digits(v)
  IN  Sign(negative)
      \o DigitsDown(digits, FirstDigit(digits, fixedPoint), fixedPoint)
      \o (IF fixedPoint = 0 THEN <<>>
          ELSE <<".">> \o DigitsDown(digits, fixedPoint - 1, 0))

IsZero(v) == v.raw = 0
\* value < 0: neither a NaN nor a zero is
Below0(v) == v.negative /\ ~IsZero(v)

NanText         == <<"[", "N", "a", "N", "]">>
InfinityText(v) == <<"[", IF v.negative THEN "-" ELSE "+", "I", "N", "F", "]">>

FixedText(v) == FpNum(ToInteger(Multiply(Unpack(v.raw), Million)), Below0(v), 6)

MantissaText(v) ==
  FpNum(ToInteger(Multiply(Scaled(v.raw, Bucket(v.raw)), Million)), Below0(v), 6)

\* Faulty variant: the exponent is printed without its sign.
ScientificTextUnsigned(v) ==
  LET e == Bucket(v.raw)
  IN  MantissaText(v) \o <<"e">> \o FpNum(<<0, IF e < 0 THEN -e ELSE e>>, FALSE, 0)

ScientificText(v) ==
  LET e == Bucket(v.raw)
  IN  MantissaText(v) \o <<"e">> \o FpNum(<<0, IF e < 0 THEN -e ELSE e>>, e < 0, 0)

\* 1.f <= absv < 10000000.f
Fixed(v) == v.raw >= One /\ v.raw < TenToThe7

Characters(v) ==
  CASE v.raw > Infinity -> NanText
    [] v.raw = Infinity -> InfinityText(v)
    [] Fixed(v)         -> FixedText(v)
    [] IsZero(v)        -> FpNum(<<0, 0>>, FALSE, 0)
    [] OTHER            -> ScientificText(v)

-----------------------------------------------------------------------------
(* The caller of the comment above float_to_str, and the calls it makes.   *)

VARIABLES value,     \* the value to print
          needed,    \* what the call for the length returned; 0 before it
          stage,     \* "caller", "printing", "returned"
          len, buffer, \* the arguments of the latest call; whether there is a buffer
          todo,      \* the characters not yet printed
          l,         \* those printed, whether they fitted or not; what is returned
          memory     \* the bytes from the start of the buffer

vars == <<value, needed, stage, len, buffer, todo, l, memory>>

Garbage == [i \in 0..(MemorySize - 1) |-> "garbage"]

Init == /\ value \in Values
        /\ needed = 0
        /\ stage = "caller"
        /\ len = 0
        /\ buffer = FALSE
        /\ todo = <<>>
        /\ l = 0
        /\ memory = Garbage

\* float_to_str(length, given ? buffer : NULL, value).  A NULL buffer with a length is
\* refused.
Call(length, given) ==
  /\ stage = "caller"
  /\ length \in 0..MemorySize
  /\ len' = length
  /\ buffer' = given
  /\ l' = 0
  /\ memory' = Garbage
  /\ IF ~given /\ length # 0
     THEN stage' = "returned" /\ todo' = <<>>
     ELSE stage' = "printing" /\ todo' = Characters(value)
  /\ UNCHANGED <<value, needed>>

\* Once for the length, then for the text, or into a buffer of another length, or
\* with none at all.
Measure == needed = 0 /\ Call(0, FALSE)
Convert == needed > 0 /\ Call(needed, TRUE)
ConvertElsewhere ==
  needed > 0 /\ \E length \in ShortLengths, given \in BOOLEAN : Call(length, given)

Store(i, character) == memory' = [memory EXCEPT ![i] = character]

\* "if (*l < len) buffer[*l] = c; (*l)++", in print_str and print_fp_num
Put ==
  /\ stage = "printing"
  /\ todo # <<>>
  /\ IF l < len THEN Store(l, Head(todo)) ELSE UNCHANGED memory
  /\ l' = l + 1
  /\ todo' = Tail(todo)
  /\ UNCHANGED <<value, needed, stage, len, buffer>>

\* Faulty variant: the terminator is put behind a buffer that is full.
TerminateBehind ==
  /\ stage = "printing"
  /\ todo = <<>>
  /\ IF l < len THEN Store(l, "NUL")
     ELSE IF len > 0 THEN Store(len, "NUL")
     ELSE UNCHANGED memory
  /\ l' = l + 1
  /\ stage' = "returned"
  /\ UNCHANGED <<value, needed, len, buffer, todo>>

\* "Add a null terminator, even if there isn't room."
Terminate ==
  /\ stage = "printing"
  /\ todo = <<>>
  /\ IF l < len THEN Store(l, "NUL")
     ELSE IF len > 0 THEN Store(len - 1, "NUL")
     ELSE UNCHANGED memory
  /\ l' = l + 1
  /\ stage' = "returned"
  /\ UNCHANGED <<value, needed, len, buffer, todo>>

\* The caller keeps what its first call returned.
Return ==
  /\ stage = "returned"
  /\ stage' = "caller"
  /\ needed' = IF needed = 0 THEN l ELSE needed
  /\ UNCHANGED <<value, len, buffer, todo, l, memory>>

Next == Measure \/ Convert \/ ConvertElsewhere \/ Put \/ Terminate \/ Return

Spec == Init /\ [][Next]_vars

-----------------------------------------------------------------------------
(* Properties                                                              *)

Answered == stage = "returned" /\ (buffer \/ len = 0)

\* The buffer the first call asks for is the one the second call needs: every call
\* returns the length that was measured whatever its buffer holds; the text and its
\* terminator fill a buffer of that length exactly; a shorter buffer holds the beginning
\* of the same text and is terminated too; nothing is stored behind a buffer, nor
\* through a NULL one.
MeasuredThenPrinted ==
  stage = "returned" =>
    /\ \A i \in len..(MemorySize - 1) : memory[i] = "garbage"
    /\ ~Answered => l = 0 /\ memory = Garbage
    /\ Answered =>
         LET end == IF len < l THEN len - 1 ELSE l - 1
         IN  /\ needed # 0 => l = needed
             /\ len > 0 => memory[end] = "NUL"
             /\ \A i \in 0..(end - 1) :
                  /\ memory[i] \notin {"NUL", "garbage"}
                  /\ memory[i] = Characters(value)[i + 1]

\* The text a call leaves: the memory up to the terminator.
TextEnd == CHOOSE i \in 0..(MemorySize - 1) :
             memory[i] = "NUL" /\ \A j \in 0..(i - 1) : memory[j] # "NUL"
Text    == [i \in 1..TextEnd |-> memory[i - 1]]

IsNumber   == value.raw < Infinity /\ value.raw > 0
FullNumber == Answered /\ needed > 0 /\ len >= needed /\ IsNumber

DigitCharacters == {DigitText[d] : d \in 1..10}

\* Where the digits in front of the exponent are.
MantissaPlaces == {i \in DOMAIN Text : /\ Text[i] \in DigitCharacters
                                       /\ \A j \in 1..i : Text[j] # "e"}

\* "Always prints at least 7 significant figures" (springbok.cpp:112): seven digits
\* or more, the first of them not zero, whichever bucket the search stopped at and
\* however the product by the table was rounded.
SevenSignificantDigits ==
  FullNumber =>
    /\ Cardinality(MantissaPlaces) >= 7
    /\ \A i \in MantissaPlaces :
         (\A j \in MantissaPlaces : i <= j) => Text[i] # "0"
=============================================================================
