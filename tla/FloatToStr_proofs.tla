-------------------------- MODULE FloatToStr_proofs --------------------------
(***************************************************************************)
(* Theorems about float_to_str: for every value of binary32, every length  *)
(* of a buffer and every size of the memory around it.                     *)
(***************************************************************************)
EXTENDS FloatToStr, FiniteSetTheorems, SequenceTheorems, WellFoundedInduction, TLAPS

-----------------------------------------------------------------------------
(* Unpacked numbers                                                        *)

Significand == {n \in Nat : TwoToThe23 <= n /\ n < TwoToThe24}
Normalised  == [sig : Significand, exp : Int]
Numbers     == {n \in Nat : 0 < n /\ n < Infinity}   \* the finite patterns but zero

\* The range Unpack writes.
LEMMA SignificandRange == Significand = TwoToThe23..(TwoToThe24 - 1)
<1>1. TwoToThe23 \in Nat /\ TwoToThe24 \in Int
  BY DEF TwoToThe23, TwoToThe24
<1> QED
  BY <1>1 DEF Significand

\* The powers of two that occur.
LEMMA Powers ==
  /\ 2^0 = 1 /\ 2^1 = 2 /\ 2^2 = 4 /\ 2^3 = 8 /\ 2^4 = 16 /\ 2^5 = 32 /\ 2^6 = 64
  /\ 2^7 = 128 /\ 2^8 = 256 /\ 2^9 = 512 /\ 2^10 = 1024 /\ 2^11 = 2048
  /\ 2^12 = 4096 /\ 2^13 = 8192 /\ 2^14 = 16384 /\ 2^15 = 32768 /\ 2^16 = 65536
  /\ 2^17 = 131072 /\ 2^18 = 262144 /\ 2^19 = 524288 /\ 2^20 = 1048576
  /\ 2^21 = 2097152 /\ 2^22 = 4194304 /\ 2^23 = TwoToThe23 /\ 2^24 = TwoToThe24
  BY SMTT(20) DEF TwoToThe23, TwoToThe24

\* A denormal fraction reaches 24 bits when it is shifted up.
LEMMA DenormalShift ==
  ASSUME NEW fraction \in Nat, 0 < fraction, fraction < TwoToThe23
  PROVE  \E k \in 1..23 : fraction * 2^k \in Significand
<1> SUFFICES ASSUME \A k \in 1..23 : ~ (fraction * 2^k \in Significand) PROVE FALSE
  OBVIOUS
<1>1. /\ fraction * 2 \notin Significand /\ fraction * 4 \notin Significand
      /\ fraction * 8 \notin Significand /\ fraction * 16 \notin Significand
      /\ fraction * 32 \notin Significand /\ fraction * 64 \notin Significand
      /\ fraction * 128 \notin Significand /\ fraction * 256 \notin Significand
      /\ fraction * 512 \notin Significand /\ fraction * 1024 \notin Significand
      /\ fraction * 2048 \notin Significand /\ fraction * 4096 \notin Significand
  BY SMTT(20), Powers
<1>2. /\ fraction * 8192 \notin Significand /\ fraction * 16384 \notin Significand
      /\ fraction * 32768 \notin Significand /\ fraction * 65536 \notin Significand
      /\ fraction * 131072 \notin Significand /\ fraction * 262144 \notin Significand
      /\ fraction * 524288 \notin Significand /\ fraction * 1048576 \notin Significand
      /\ fraction * 2097152 \notin Significand /\ fraction * 4194304 \notin Significand
      /\ fraction * TwoToThe23 \notin Significand
  BY SMTT(20), Powers
<1> QED
  BY SMTT(20), <1>1, <1>2 DEF Significand, TwoToThe23, TwoToThe24

\* The fields of a pattern.
LEMMA Fields ==
  ASSUME NEW raw \in Numbers
  PROVE  /\ raw \in Int /\ raw \div TwoToThe23 \in Nat
         /\ raw % TwoToThe23 \in Nat /\ raw % TwoToThe23 < TwoToThe23
         /\ raw = (raw \div TwoToThe23) * TwoToThe23 + (raw % TwoToThe23)
  BY DEF Numbers, Infinity, TwoToThe23

\* A normal pattern has its fields for significand and exponent.
LEMMA UnpackNormal ==
  ASSUME NEW raw \in Numbers, TwoToThe23 <= raw
  PROVE  /\ Unpack(raw) \in Normalised
         /\ Unpack(raw).sig = (raw % TwoToThe23) + TwoToThe23
         /\ Unpack(raw).exp = (raw \div TwoToThe23) - 150
<1> DEFINE biased   == raw \div TwoToThe23
           fraction == raw % TwoToThe23
<1>1. /\ raw \in Int /\ biased \in Nat /\ fraction \in Nat /\ fraction < TwoToThe23
      /\ raw = biased * TwoToThe23 + fraction
  BY Fields
<1>2. biased > 0
  BY <1>1 DEF TwoToThe23
<1>3. Unpack(raw) = [sig |-> fraction + TwoToThe23, exp |-> biased - 150]
  BY <1>2 DEF Unpack
<1>4. fraction + TwoToThe23 \in Significand
  BY <1>1 DEF Significand, TwoToThe23, TwoToThe24
<1> HIDE DEF biased, fraction
<1>5. biased - 150 \in Int
  BY <1>1
<1>6. /\ Unpack(raw).sig = fraction + TwoToThe23 /\ Unpack(raw).exp = biased - 150
      /\ Unpack(raw) \in Normalised
  BY <1>3, <1>4, <1>5 DEF Normalised
<1> QED
  BY <1>6 DEF biased, fraction

\* A denormal one is shifted up.
LEMMA UnpackDenormal ==
  ASSUME NEW raw \in Numbers, raw < TwoToThe23
  PROVE  /\ Unpack(raw) \in Normalised
         /\ \E k \in 1..23 : /\ Unpack(raw).sig = raw * 2^k
                             /\ Unpack(raw).exp = -149 - k
<1> DEFINE biased   == raw \div TwoToThe23
           fraction == raw % TwoToThe23
<1>1. /\ raw \in Int /\ biased \in Nat /\ fraction \in Nat /\ fraction < TwoToThe23
      /\ raw = biased * TwoToThe23 + fraction
  BY Fields
<1>2. biased = 0 /\ fraction = raw /\ 0 < fraction
  BY <1>1 DEF Numbers, TwoToThe23
<1> DEFINE Fits(k) == fraction * 2^k \in TwoToThe23..(TwoToThe24 - 1)
           shift   == CHOOSE k \in 1..23 : Fits(k)
<1>3. \E k \in 1..23 : Fits(k)
  <2>1. PICK k \in 1..23 : raw * 2^k \in Significand
    BY <1>1, <1>2, DenormalShift
  <2>2. Fits(k)
    BY <1>2, <2>1, SignificandRange
  <2> QED
    BY <2>2, Zenon
<1>4. Unpack(raw) = [sig |-> fraction * 2^shift, exp |-> -149 - shift]
  BY <1>2 DEF Unpack
<1> HIDE DEF Fits
<1>5. shift \in 1..23 /\ Fits(shift)
  BY <1>3, Zenon
<1> HIDE DEF shift, biased, fraction
<1>6. -149 - shift \in Int
  BY <1>5
<1>7. fraction * 2^shift \in Significand
  BY <1>5, SignificandRange DEF Fits
<1>8. /\ Unpack(raw).sig = raw * 2^shift /\ Unpack(raw).exp = -149 - shift
      /\ Unpack(raw) \in Normalised
  BY <1>2, <1>4, <1>6, <1>7 DEF Normalised
<1> QED
  BY <1>5, <1>8, Zenon

\* Every finite pattern but zero unpacks to 24 bits and an exponent.
LEMMA UnpackType ==
  ASSUME NEW raw \in Numbers
  PROVE  /\ Unpack(raw) \in Normalised
         /\ Unpack(raw).exp <= (raw \div TwoToThe23) - 150
<1>1. raw \in Int
  BY Fields
<1>2. CASE TwoToThe23 <= raw
  BY <1>1, <1>2, UnpackNormal, Fields
<1>3. CASE raw < TwoToThe23
  <2>1. PICK k \in 1..23 : Unpack(raw).exp = -149 - k
    BY <1>3, UnpackDenormal
  <2>2. raw \div TwoToThe23 \in Nat
    BY Fields
  <2>3. -149 - k <= (raw \div TwoToThe23) - 150
    BY <2>2
  <2>4. Unpack(raw) \in Normalised
    BY <1>3, UnpackDenormal
  <2>5. Unpack(raw).exp <= (raw \div TwoToThe23) - 150
    BY <2>1, <2>3
  <2> QED
    BY <2>4, <2>5
<1> QED
  BY <1>1, <1>2, <1>3 DEF TwoToThe23

-----------------------------------------------------------------------------
(* Products                                                                *)

\* The product of two significands has 47 or 48 bits.
LEMMA ProductRange ==
  ASSUME NEW a \in Significand, NEW b \in Significand
  PROVE  /\ a * b \in Nat
         /\ TwoToThe23 * TwoToThe23 <= a * b
         /\ a * b < TwoToThe24 * TwoToThe24
<1>1. /\ a \in Int /\ b \in Int /\ 8388608 <= a /\ a <= 16777215
      /\ 8388608 <= b /\ b <= 16777215
  BY DEF Significand, TwoToThe23, TwoToThe24
<1>2. a * b \in Int /\ 8388608 * b <= a * b /\ a * b <= 16777215 * b
  BY <1>1
<1> QED
  BY <1>1, <1>2 DEF TwoToThe23, TwoToThe24

\* Cut into halves of 12 bits, it is put together from four small products.
LEMMA ProductOfHalves ==
  ASSUME NEW a \in Significand, NEW b \in Significand
  PROVE  LET a1 == a \div 4096   a0 == a % 4096
             b1 == b \div 4096   b0 == b % 4096
             mid  == a1 * b0 + a0 * b1
         IN  a * b = ((a1 * b1) * TwoToThe24 + mid * 4096) + (a0 * b0)
<1> DEFINE a1 == a \div 4096
           a0 == a % 4096
           b1 == b \div 4096
           b0 == b % 4096
<1>1. /\ a1 \in Nat /\ a0 \in Nat /\ a = a1 * 4096 + a0
      /\ b1 \in Nat /\ b0 \in Nat /\ b = b1 * 4096 + b0
  BY DEF Significand
<1> HIDE DEF a1, a0, b1, b0
<1>2. (a1 * 4096 + a0) * (b1 * 4096 + b0)
        = ((a1 * b1) * 16777216 + (a1 * b0 + a0 * b1) * 4096) + (a0 * b0)
  BY <1>1
<1>3. a * b = ((a1 * b1) * TwoToThe24 + (a1 * b0 + a0 * b1) * 4096) + (a0 * b0)
  BY <1>1, <1>2 DEF TwoToThe24
<1> QED
  BY <1>3 DEF a1, a0, b1, b0

\* Rounding 48 bits to 24: the exponent grows by 24, by 23 if there are only 47, or by
\* one more if the significand overflows.
LEMMA RoundProduct ==
  ASSUME NEW high \in Nat, NEW rest \in Nat, NEW x \in Int, rest < TwoToThe24,
         TwoToThe23 * TwoToThe23 <= high * TwoToThe24 + rest,
         high * TwoToThe24 + rest < TwoToThe24 * TwoToThe24
  PROVE  LET result  == Rounded(high, rest, x)
             product == high * TwoToThe24 + rest
         IN  /\ result \in Normalised
             /\ x + 23 <= result.exp /\ result.exp <= x + 25
             /\ TwoToThe23 * TwoToThe24 <= product => x + 24 <= result.exp
             /\ result.exp = x + 23 => product < (result.sig + 1) * TwoToThe23
<1> DEFINE product == high * TwoToThe24 + rest
           wide == high >= TwoToThe23
           top  == IF wide THEN high ELSE high * 2 + rest \div TwoToThe23
           tail == IF wide THEN rest ELSE (rest % TwoToThe23) * 2
           sig  == IF RoundUp(top, tail, TwoToThe23) THEN top + 1 ELSE top
           exp  == x + (IF wide THEN 24 ELSE 23)
           result == IF sig = TwoToThe24 THEN [sig |-> TwoToThe23, exp |-> exp + 1]
                                         ELSE [sig |-> sig, exp |-> exp]
<1>0. Rounded(high, rest, x) = result
  BY DEF Rounded
<1>1. /\ TwoToThe23 = 8388608 /\ TwoToThe24 = 16777216
      /\ TwoToThe23 * TwoToThe23 = 70368744177664
      /\ TwoToThe23 * TwoToThe24 = 140737488355328
      /\ TwoToThe24 * TwoToThe24 = 281474976710656
  BY DEF TwoToThe23, TwoToThe24
<1>2. CASE wide
  <2>1. /\ top = high /\ exp = x + 24 /\ top \in Nat
        /\ 8388608 <= top /\ top < 16777216
    BY <1>1, <1>2
  <2> HIDE DEF top, exp, tail
  <2>2. sig \in Nat /\ 8388608 <= sig /\ sig <= 16777216 /\ exp \in Int
    BY <2>1
  <2> HIDE DEF sig
  <2>3. result \in Normalised /\ exp <= result.exp /\ result.exp <= exp + 1
    BY <1>1, <2>2 DEF Normalised, Significand
  <2> HIDE DEF result
  <2>4. /\ x + 24 <= result.exp /\ result.exp <= x + 25 /\ result.exp \in Int
    BY <2>1, <2>3 DEF Normalised
  <2> QED
    BY <1>0, <2>3, <2>4 DEF result, sig, top, exp, tail
<1>3. CASE ~ wide
  <2>1. /\ top = high * 2 + rest \div 8388608 /\ exp = x + 23 /\ top \in Nat
        /\ 8388608 <= top /\ top < 16777216
        /\ product < 140737488355328 /\ product < (top + 1) * 8388608
    BY <1>1, <1>3
  <2> HIDE DEF top, exp, tail
  <2>2. sig \in Nat /\ top <= sig /\ 8388608 <= sig /\ sig <= 16777216 /\ exp \in Int
    BY <2>1
  <2> HIDE DEF sig
  <2>3. /\ result \in Normalised /\ exp <= result.exp /\ result.exp <= exp + 1
        /\ result.exp = exp => result.sig = sig
    BY <1>1, <2>2 DEF Normalised, Significand
  <2> HIDE DEF result
  <2>4. /\ x + 23 <= result.exp /\ result.exp <= x + 25 /\ result.exp \in Int
    BY <2>1, <2>3 DEF Normalised
  <2>5. result.exp = x + 23 => product < (result.sig + 1) * TwoToThe23
    BY <1>1, <2>1, <2>2, <2>3
  <2>6. ~ (TwoToThe23 * TwoToThe24 <= product)
    BY <1>1, <2>1
  <2> QED
    BY <1>0, <2>3, <2>4, <2>5, <2>6 DEF result, sig, top, exp, tail
<1> QED
  BY <1>2, <1>3

\* A product is normalised; its exponent follows from the size of the exact product.
LEMMA MultiplyBounds ==
  ASSUME NEW a \in Normalised, NEW b \in Normalised
  PROVE  LET result == Multiply(a, b)
             x       == a.exp + b.exp
             product == a.sig * b.sig
         IN  /\ result \in Normalised
             /\ x + 23 <= result.exp /\ result.exp <= x + 25
             /\ TwoToThe23 * TwoToThe24 <= product => x + 24 <= result.exp
             /\ result.exp = x + 23 => product < (result.sig + 1) * TwoToThe23
<1> DEFINE a1 == a.sig \div 4096
           a0 == a.sig % 4096
           b1 == b.sig \div 4096
           b0 == b.sig % 4096
           mid  == a1 * b0 + a0 * b1
           low  == (mid % 4096) * 4096 + a0 * b0
           high == a1 * b1 + mid \div 4096 + low \div TwoToThe24
           rest == low % TwoToThe24
           x       == a.exp + b.exp
           product == a.sig * b.sig
<1>1. a.sig \in Significand /\ b.sig \in Significand /\ x \in Int
  BY DEF Normalised
<1>2. /\ product \in Nat
      /\ TwoToThe23 * TwoToThe23 <= product
      /\ product < TwoToThe24 * TwoToThe24
  BY <1>1, ProductRange
<1>3. a1 \in Nat /\ a0 \in Nat /\ b1 \in Nat /\ b0 \in Nat
  BY <1>1 DEF Significand
<1>4. product = ((a1 * b1) * TwoToThe24 + mid * 4096) + (a0 * b0)
  BY <1>1, ProductOfHalves
<1> HIDE DEF product, a1, a0, b1, b0
<1>5. a1 * b1 \in Nat /\ mid \in Nat /\ a0 * b0 \in Nat
  BY <1>3
<1> HIDE DEF mid
<1> HIDE DEF mid
<1>6. /\ high \in Nat /\ rest \in Nat /\ rest < TwoToThe24
      /\ high * TwoToThe24 + rest = ((a1 * b1) * TwoToThe24 + mid * 4096) + (a0 * b0)
  <2> DEFINE p11 == a1 * b1
             p00 == a0 * b0
             lo == (mid % 4096) * 4096 + p00
             hi == p11 + mid \div 4096 + lo \div TwoToThe24
             re == lo % TwoToThe24
  <2>1. p11 \in Nat /\ p00 \in Nat /\ mid \in Nat
    BY <1>5
  <2>2. high = hi /\ rest = re
    OBVIOUS
  <2> HIDE DEF p11, p00, high, rest
  <2>3. /\ hi \in Nat /\ re \in Nat /\ re < TwoToThe24
        /\ hi * TwoToThe24 + re = (p11 * TwoToThe24 + mid * 4096) + p00
    BY <2>1 DEF TwoToThe24
  <2> HIDE DEF hi, re
  <2> QED
    BY <2>2, <2>3 DEF p11, p00
<1>7. Multiply(a, b) = Rounded(high, rest, x)
  BY DEF Multiply, mid, a1, a0, b1, b0
<1> HIDE DEF high, rest, x
<1>8. product = high * TwoToThe24 + rest
  BY <1>4, <1>6
<1> HIDE DEF product
<1>9. PICK h \in Nat, r \in Nat, y \in Int : h = high /\ r = rest /\ y = x
  BY <1>1, <1>6
<1>10. /\ Multiply(a, b) = Rounded(h, r, y) /\ product = h * TwoToThe24 + r
       /\ r < TwoToThe24
       /\ TwoToThe23 * TwoToThe23 <= h * TwoToThe24 + r
       /\ h * TwoToThe24 + r < TwoToThe24 * TwoToThe24
  BY <1>2, <1>6, <1>7, <1>8, <1>9
<1>11. LET result == Rounded(h, r, y)
           whole  == h * TwoToThe24 + r
       IN  /\ result \in Normalised
           /\ y + 23 <= result.exp /\ result.exp <= y + 25
           /\ TwoToThe23 * TwoToThe24 <= whole => y + 24 <= result.exp
           /\ result.exp = y + 23 => whole < (result.sig + 1) * TwoToThe23
  BY <1>10, RoundProduct, Zenon
<1> QED
  BY <1>9, <1>10, <1>11 DEF x, product

-----------------------------------------------------------------------------
(* The fixed-point number that is printed                                  *)

Limb == {n \in Nat : n < TwoToThe24}

\* The number a pair of limbs stands for.
Whole(v) == v[1] * TwoToThe24 + v[2]

\* 1000000.f unpacked.
LEMMA MillionUnpacked == Million = [sig |-> 16000000, exp |-> -4]
  BY DEF Million, Unpack, TwoToThe23

\* Shifted up, a significand spreads over both limbs and loses nothing.
LEMMA ToIntegerShiftedUp ==
  ASSUME NEW a \in Normalised, a.exp \in 1..22
  PROVE  /\ ToInteger(a) = <<ToInteger(a)[1], ToInteger(a)[2]>>
         /\ ToInteger(a)[1] \in Limb /\ ToInteger(a)[2] \in Limb
         /\ a.sig <= Whole(ToInteger(a)) /\ Whole(ToInteger(a)) <= a.sig * 4194304
<1>0. a.sig \in Nat /\ a.sig < TwoToThe24 /\ a.exp \in Int
  BY DEF Normalised, Significand
<1>1. CASE a.exp = 1
  BY <1>0, <1>1, Powers DEF ToInteger, Limb, Whole, TwoToThe23, TwoToThe24
<1>2. CASE a.exp = 2
  BY <1>0, <1>2, Powers DEF ToInteger, Limb, Whole, TwoToThe23, TwoToThe24
<1>3. CASE a.exp = 3
  BY <1>0, <1>3, Powers DEF ToInteger, Limb, Whole, TwoToThe23, TwoToThe24
<1>4. CASE a.exp = 4
  BY <1>0, <1>4, Powers DEF ToInteger, Limb, Whole, TwoToThe23, TwoToThe24
<1>5. CASE a.exp = 5
  BY <1>0, <1>5, Powers DEF ToInteger, Limb, Whole, TwoToThe23, TwoToThe24
<1>6. CASE a.exp = 6
  BY <1>0, <1>6, Powers DEF ToInteger, Limb, Whole, TwoToThe23, TwoToThe24
<1>7. CASE a.exp = 7
  BY <1>0, <1>7, Powers DEF ToInteger, Limb, Whole, TwoToThe23, TwoToThe24
<1>8. CASE a.exp = 8
  BY <1>0, <1>8, Powers DEF ToInteger, Limb, Whole, TwoToThe23, TwoToThe24
<1>9. CASE a.exp = 9
  BY <1>0, <1>9, Powers DEF ToInteger, Limb, Whole, TwoToThe23, TwoToThe24
<1>10. CASE a.exp = 10
  BY <1>0, <1>10, Powers DEF ToInteger, Limb, Whole, TwoToThe23, TwoToThe24
<1>11. CASE a.exp = 11
  BY <1>0, <1>11, Powers DEF ToInteger, Limb, Whole, TwoToThe23, TwoToThe24
<1>12. CASE a.exp = 12
  <2>1. ToInteger(a) = <<a.sig \div 4096, (a.sig % 4096) * 4096>>
    BY <1>0, <1>12, Powers DEF ToInteger
  <2> QED
    BY <1>0, <2>1 DEF Limb, Whole, TwoToThe24
<1>13. CASE a.exp = 13
  BY <1>0, <1>13, Powers DEF ToInteger, Limb, Whole, TwoToThe23, TwoToThe24
<1>14. CASE a.exp = 14
  BY <1>0, <1>14, Powers DEF ToInteger, Limb, Whole, TwoToThe23, TwoToThe24
<1>15. CASE a.exp = 15
  BY <1>0, <1>15, Powers DEF ToInteger, Limb, Whole, TwoToThe23, TwoToThe24
<1>16. CASE a.exp = 16
  BY <1>0, <1>16, Powers DEF ToInteger, Limb, Whole, TwoToThe23, TwoToThe24
<1>17. CASE a.exp = 17
  BY <1>0, <1>17, Powers DEF ToInteger, Limb, Whole, TwoToThe23, TwoToThe24
<1>18. CASE a.exp = 18
  BY <1>0, <1>18, Powers DEF ToInteger, Limb, Whole, TwoToThe23, TwoToThe24
<1>19. CASE a.exp = 19
  BY <1>0, <1>19, Powers DEF ToInteger, Limb, Whole, TwoToThe23, TwoToThe24
<1>20. CASE a.exp = 20
  BY <1>0, <1>20, Powers DEF ToInteger, Limb, Whole, TwoToThe23, TwoToThe24
<1>21. CASE a.exp = 21
  BY <1>0, <1>21, Powers DEF ToInteger, Limb, Whole, TwoToThe23, TwoToThe24
<1>22. CASE a.exp = 22
  BY <1>0, <1>22, Powers DEF ToInteger, Limb, Whole, TwoToThe23, TwoToThe24
<1> QED
  BY <1>1, <1>2, <1>3, <1>4, <1>5, <1>6, <1>7, <1>8, <1>9, <1>10, <1>11,
     <1>12, <1>13, <1>14, <1>15, <1>16, <1>17, <1>18, <1>19, <1>20, <1>21, <1>22

\* Without a shift, or shifted down by at most four places, it fits the lower limb.
LEMMA ToIntegerShiftedDown ==
  ASSUME NEW a \in Normalised, a.exp \in -4..0
  PROVE  /\ ToInteger(a) = <<0, ToInteger(a)[2]>>
         /\ ToInteger(a)[2] \in Limb
         /\ a.sig < (ToInteger(a)[2] + 1) * 16
         /\ a.exp > -4 => a.sig < (ToInteger(a)[2] + 1) * 8
<1>0. a.sig \in Nat /\ a.sig < TwoToThe24 /\ a.exp \in Int
  BY DEF Normalised, Significand
<1>1. CASE a.exp = 0
  <2>1. ToInteger(a) = <<0, a.sig \div 1>>
    BY <1>0, <1>1, Powers DEF ToInteger
  <2> QED
    BY <1>0, <1>1, <2>1 DEF Limb, TwoToThe24
<1>2. CASE a.exp = -1
  <2>1. 2^(0 - a.exp) = 2
    BY <1>2, Powers
  <2>2. ToInteger(a) = <<0, a.sig \div 2>>
    BY <1>0, <1>2, <2>1 DEF ToInteger
  <2> QED
    BY <1>0, <1>2, <2>2 DEF Limb, TwoToThe24
<1>3. CASE a.exp = -2
  <2>1. 2^(0 - a.exp) = 4
    BY <1>3, Powers
  <2>2. ToInteger(a) = <<0, a.sig \div 4>>
    BY <1>0, <1>3, <2>1 DEF ToInteger
  <2> QED
    BY <1>0, <1>3, <2>2 DEF Limb, TwoToThe24
<1>4. CASE a.exp = -3
  <2>1. 2^(0 - a.exp) = 8
    BY <1>4, Powers
  <2>2. ToInteger(a) = <<0, a.sig \div 8>>
    BY <1>0, <1>4, <2>1 DEF ToInteger
  <2> QED
    BY <1>0, <1>4, <2>2 DEF Limb, TwoToThe24
<1>5. CASE a.exp = -4
  <2>1. 2^(0 - a.exp) = 16
    BY <1>5, Powers
  <2>2. ToInteger(a) = <<0, a.sig \div 16>>
    BY <1>0, <1>5, <2>1 DEF ToInteger
  <2> QED
    BY <1>0, <1>5, <2>2 DEF Limb, TwoToThe24
<1> QED
  BY <1>1, <1>2, <1>3, <1>4, <1>5

\* The least product of 48 bits.
TwoToThe47 == 140737488355328

\* What print_fp_num is handed: seven digits at least, and no more than fifteen.
Printable(v) ==
  /\ v = <<v[1], v[2]>> /\ v[1] \in Limb /\ v[2] \in Limb
  /\ 1000000 <= Whole(v) /\ Whole(v) < TwoToThe47

\* A number from 1 up, times a million, keeps seven digits in front of the point, however
\* the product is rounded.
LEMMA MillionTimes ==
  ASSUME NEW a \in Normalised, -23 <= a.exp, a.exp <= 1
  PROVE  Printable(ToInteger(Multiply(a, Million)))
<1> DEFINE m == Million
           r == Multiply(a, m)
           v == ToInteger(r)
<1>1. m \in Normalised /\ m.sig = 16000000 /\ m.exp = -4
  BY MillionUnpacked DEF Normalised, Significand, TwoToThe23, TwoToThe24
<1> HIDE DEF m
<1>2. /\ r \in Normalised
      /\ (a.exp + m.exp) + 23 <= r.exp /\ r.exp <= (a.exp + m.exp) + 25
      /\ r.exp = (a.exp + m.exp) + 23 => a.sig * m.sig < (r.sig + 1) * TwoToThe23
  BY <1>1, MultiplyBounds
<1> HIDE DEF r
<1>3. a.exp \in Int /\ a.sig \in Nat /\ 8388608 <= a.sig
  BY DEF Normalised, Significand, TwoToThe23
<1>4. r.exp \in Int /\ r.sig \in Nat /\ 8388608 <= r.sig /\ r.sig < 16777216
  BY <1>2 DEF Normalised, Significand, TwoToThe23, TwoToThe24
<1>5. -4 <= r.exp /\ r.exp <= 22
  BY <1>1, <1>2, <1>3, <1>4
<1>6. r.exp = -4 => 16000000 <= r.sig
  <2> SUFFICES ASSUME r.exp = -4 PROVE 16000000 <= r.sig
    OBVIOUS
  <2>1. a.exp = -23 /\ r.exp = (a.exp + m.exp) + 23
    BY <1>1, <1>2, <1>3, <1>4
  <2>2. a.sig * 16000000 < (r.sig + 1) * 8388608
    BY <1>1, <1>2, <2>1 DEF TwoToThe23
  <2> QED
    BY <1>3, <1>4, <2>2
<1>7. CASE r.exp \in -4..0
  <2>1. /\ v = <<0, v[2]>> /\ v[2] \in Limb
        /\ r.sig < (v[2] + 1) * 16
        /\ r.exp > -4 => r.sig < (v[2] + 1) * 8
    BY <1>2, <1>7, ToIntegerShiftedDown
  <2> HIDE DEF v
  <2>2. v[1] = 0 /\ v[2] \in Nat /\ v[2] < 16777216
    BY <2>1 DEF Limb, TwoToThe24
  <2>3. 1000000 <= v[2]
    BY <1>4, <1>5, <1>6, <2>1, <2>2
  <2>4. Printable(v)
    BY <2>1, <2>2, <2>3 DEF Printable, Whole, Limb, TwoToThe24, TwoToThe47
  <2> QED
    BY <2>4 DEF v, r, m
<1>8. CASE r.exp \in 1..22
  <2>1. /\ v = <<v[1], v[2]>> /\ v[1] \in Limb /\ v[2] \in Limb
        /\ r.sig <= Whole(v) /\ Whole(v) <= r.sig * 4194304
    BY <1>2, <1>8, ToIntegerShiftedUp
  <2> HIDE DEF v
  <2>2. Whole(v) \in Nat
    BY <2>1 DEF Limb, Whole, TwoToThe24
  <2>3. 1000000 <= Whole(v) /\ Whole(v) < TwoToThe47
    BY <1>4, <2>1, <2>2 DEF TwoToThe47
  <2>4. Printable(v)
    BY <2>1, <2>3 DEF Printable
  <2> QED
    BY <2>4 DEF v, r, m
<1> QED
  BY <1>4, <1>5, <1>7, <1>8

-----------------------------------------------------------------------------
(* The tables                                                              *)

\* The exponent the prescaling adds, the pattern a bucket ends with and the exponent
\* its scale adds.
Prescale(e)  == IF e < -45 + 32 THEN 32 ELSE IF e >= 39 - 32 THEN -32 ELSE 0
BucketEnd(e) == IF e = 38 THEN Infinity - 1 ELSE BucketStart(e + 1)
RawScale(e)  == RawBucketScale[e + 46]

\* What the proofs need of the tables, entry by entry: the scales are normal numbers; the
\* largest value of a bucket is not scaled far beyond 10; the smallest normal one is
\* scaled to 1 at least.
TableFits(e) ==
  LET first == BucketStart(e) + 1
      added == Prescale(e) + RawScale(e) \div TwoToThe23
  IN  /\ BucketStart(e) \in Nat /\ BucketEnd(e) \in Nat
      /\ RawScale(e) \in Numbers /\ TwoToThe23 <= RawScale(e)
      /\ BucketEnd(e) < Infinity
      /\ BucketEnd(e) \div TwoToThe23 + added <= 276
      /\ e >= -37 =>
           /\ TwoToThe23 <= first
           /\ 253 <= first \div TwoToThe23 + added
           /\ first \div TwoToThe23 + added = 253 =>
                TwoToThe47 <= ((first % TwoToThe23) + TwoToThe23)
                                   * ((RawScale(e) % TwoToThe23) + TwoToThe23)

\* They hold of every entry.
LEMMA Tables ==
  ASSUME NEW e \in -45..38
  PROVE  TableFits(e)
<1>1. e = -45 \/ e = -44 \/ e = -43 \/ e = -42 \/ e = -41 \/ e = -40 \/ e = -39 \/
      e = -38 \/ e = -37 \/ e = -36 \/ e = -35 \/ e = -34 \/ e = -33 \/ e = -32 \/
      e = -31 \/ e = -30 \/ e = -29 \/ e = -28 \/ e = -27 \/ e = -26 \/ e = -25 \/
      e = -24 \/ e = -23 \/ e = -22 \/ e = -21 \/ e = -20 \/ e = -19 \/ e = -18 \/
      e = -17 \/ e = -16 \/ e = -15 \/ e = -14 \/ e = -13 \/ e = -12 \/ e = -11 \/
      e = -10 \/ e = -9 \/ e = -8 \/ e = -7 \/ e = -6 \/ e = -5 \/ e = -4 \/ e = -3 \/
      e = -2 \/ e = -1 \/ e = 0 \/ e = 1 \/ e = 2 \/ e = 3 \/ e = 4 \/ e = 5 \/
      e = 6 \/ e = 7 \/ e = 8 \/ e = 9 \/ e = 10 \/ e = 11 \/ e = 12 \/ e = 13 \/
      e = 14 \/ e = 15 \/ e = 16 \/ e = 17 \/ e = 18 \/ e = 19 \/ e = 20 \/ e = 21 \/
      e = 22 \/ e = 23 \/ e = 24 \/ e = 25 \/ e = 26 \/ e = 27 \/ e = 28 \/ e = 29 \/
      e = 30 \/ e = 31 \/ e = 32 \/ e = 33 \/ e = 34 \/ e = 35 \/ e = 36 \/ e = 37 \/
      e = 38
  OBVIOUS
<1> QED
  BY <1>1, SMTT(60) DEF TableFits, Prescale, BucketEnd, RawScale, BucketStart,
     RawBucketStart, RawBucketScale, Numbers, Infinity, TwoToThe23, TwoToThe47

-----------------------------------------------------------------------------
(* The bucket of a value and the number it is scaled to                    *)

\* A set of natural numbers that is not empty has a least element.
LEMMA LeastNumber ==
  ASSUME NEW T \in SUBSET Nat, T # {}
  PROVE  \E m \in T : \A n \in T : ~ (n < m)
<1>1. PICK m \in T : \A n \in T : ~ (<<n, m>> \in OpToRel(<, Nat))
  BY NatLessThanWellFounded, WFMin, Zenon
<1> QED
  BY <1>1, Zenon DEF OpToRel

\* The search that runs down from 10^38 stops inside the tables, at the bucket that holds
\* the value, for every finite value but zero (springbok.cpp:203-209).
THEOREM BucketHolds ==
  ASSUME NEW raw \in Numbers
  PROVE  /\ Bucket(raw) \in -45..38
         /\ BucketStart(Bucket(raw)) < raw
         /\ raw <= BucketEnd(Bucket(raw))
<1> DEFINE Below(e) == BucketStart(e) < raw
           T == {n \in 0..83 : Below(38 - n)}
           Found(e) == Below(e) /\ \A f \in (e + 1)..38 : ~ Below(f)
<1>1. raw \in Int /\ 0 < raw /\ raw <= Infinity - 1
  BY DEF Numbers, Infinity
<1>2. BucketStart(-45) = 0
  BY DEF BucketStart, RawBucketStart
<1>3. Below(-45)
  BY <1>1, <1>2
<1>4. T \in SUBSET Nat /\ 83 \in T
  BY <1>3
<1> HIDE DEF Below, T
<1>5. PICK m \in T : \A n \in T : ~ (n < m)
  BY <1>4, LeastNumber, Zenon
<1> USE DEF T
<1>6. m \in 0..83 /\ Below(38 - m)
  OBVIOUS
<1>7. ASSUME NEW f \in ((38 - m) + 1)..38 PROVE ~ Below(f)
  <2>1. 38 - f \in 0..83 /\ 38 - f < m /\ 38 - (38 - f) = f
    BY <1>6
  <2> QED
    BY <1>5, <2>1
<1>8. 38 - m \in -45..38 /\ Found(38 - m)
  BY <1>6, <1>7
<1>9. Bucket(raw) = CHOOSE e \in -45..38 : Found(e)
  BY DEF Bucket, Below
<1> HIDE DEF Found
<1>10. Bucket(raw) \in -45..38 /\ Found(Bucket(raw))
  BY <1>8, <1>9, Zenon
<1> DEFINE b == Bucket(raw)
<1> HIDE DEF b
<1>11. b \in -45..38 /\ Below(b) /\ \A f \in (b + 1)..38 : ~ Below(f)
  BY <1>10 DEF Found, b
<1>12. raw <= BucketEnd(b)
  <2>1. CASE b = 38
    BY <1>1, <2>1 DEF BucketEnd
  <2>2. CASE b # 38
    <3>1. b + 1 \in -45..38 /\ b + 1 \in (b + 1)..38
      BY <1>11, <2>2
    <3>2. ~ (BucketStart(b + 1) < raw)
      BY <1>11, <3>1 DEF Below
    <3>3. BucketStart(b + 1) \in Nat
      BY <3>1, Tables DEF TableFits
    <3> QED
      BY <1>1, <2>2, <3>2, <3>3 DEF BucketEnd
  <2> QED
    BY <2>1, <2>2
<1> QED
  BY <1>11, <1>12 DEF b, Below

\* A denormal value of one of the first eight buckets is shifted no further than the
\* smallest of its bucket.
LEMMA DenormalBuckets ==
  ASSUME NEW raw \in Nat, NEW k \in 1..23, NEW p \in Nat, p = raw * 2^k, p < TwoToThe24,
         NEW e \in -45..38, e < -37, BucketStart(e) < raw
  PROVE  LET x == ((-149 - k) + Prescale(e)) + (RawScale(e) \div TwoToThe23 - 150)
         IN  /\ -47 <= x
             /\ x = -47 =>
                  TwoToThe47 <= p * ((RawScale(e) % TwoToThe23) + TwoToThe23)
<1>0. \/ (k = 1 /\ p = raw * 2) \/ (k = 2 /\ p = raw * 4)
      \/ (k = 3 /\ p = raw * 8) \/ (k = 4 /\ p = raw * 16)
      \/ (k = 5 /\ p = raw * 32) \/ (k = 6 /\ p = raw * 64)
      \/ (k = 7 /\ p = raw * 128) \/ (k = 8 /\ p = raw * 256)
      \/ (k = 9 /\ p = raw * 512) \/ (k = 10 /\ p = raw * 1024)
      \/ (k = 11 /\ p = raw * 2048) \/ (k = 12 /\ p = raw * 4096)
      \/ (k = 13 /\ p = raw * 8192) \/ (k = 14 /\ p = raw * 16384)
      \/ (k = 15 /\ p = raw * 32768) \/ (k = 16 /\ p = raw * 65536)
      \/ (k = 17 /\ p = raw * 131072) \/ (k = 18 /\ p = raw * 262144)
      \/ (k = 19 /\ p = raw * 524288) \/ (k = 20 /\ p = raw * 1048576)
      \/ (k = 21 /\ p = raw * 2097152) \/ (k = 22 /\ p = raw * 4194304)
      \/ (k = 23 /\ p = raw * 8388608)
  <2>1. CASE k = 1
    BY <2>1, Powers DEF TwoToThe23
  <2>2. CASE k = 2
    BY <2>2, Powers DEF TwoToThe23
  <2>3. CASE k = 3
    BY <2>3, Powers DEF TwoToThe23
  <2>4. CASE k = 4
    BY <2>4, Powers DEF TwoToThe23
  <2>5. CASE k = 5
    BY <2>5, Powers DEF TwoToThe23
  <2>6. CASE k = 6
    BY <2>6, Powers DEF TwoToThe23
  <2>7. CASE k = 7
    BY <2>7, Powers DEF TwoToThe23
  <2>8. CASE k = 8
    BY <2>8, Powers DEF TwoToThe23
  <2>9. CASE k = 9
    BY <2>9, Powers DEF TwoToThe23
  <2>10. CASE k = 10
    BY <2>10, Powers DEF TwoToThe23
  <2>11. CASE k = 11
    BY <2>11, Powers DEF TwoToThe23
  <2>12. CASE k = 12
    BY <2>12, Powers DEF TwoToThe23
  <2>13. CASE k = 13
    BY <2>13, Powers DEF TwoToThe23
  <2>14. CASE k = 14
    BY <2>14, Powers DEF TwoToThe23
  <2>15. CASE k = 15
    BY <2>15, Powers DEF TwoToThe23
  <2>16. CASE k = 16
    BY <2>16, Powers DEF TwoToThe23
  <2>17. CASE k = 17
    BY <2>17, Powers DEF TwoToThe23
  <2>18. CASE k = 18
    BY <2>18, Powers DEF TwoToThe23
  <2>19. CASE k = 19
    BY <2>19, Powers DEF TwoToThe23
  <2>20. CASE k = 20
    BY <2>20, Powers DEF TwoToThe23
  <2>21. CASE k = 21
    BY <2>21, Powers DEF TwoToThe23
  <2>22. CASE k = 22
    BY <2>22, Powers DEF TwoToThe23
  <2>23. CASE k = 23
    BY <2>23, Powers DEF TwoToThe23
  <2> QED
    BY <2>1, <2>2, <2>3, <2>4, <2>5, <2>6, <2>7, <2>8, <2>9, <2>10, <2>11, <2>12,
       <2>13, <2>14, <2>15, <2>16, <2>17, <2>18, <2>19, <2>20, <2>21, <2>22, <2>23
<1>1. CASE e = -45
  <2>1. /\ BucketStart(e) = 0 /\ RawScale(e) \div TwoToThe23 = 244
        /\ (RawScale(e) % TwoToThe23) + TwoToThe23 = 11754943
        /\ Prescale(e) = 32
    BY <1>1 DEF Prescale, RawScale, BucketStart, RawBucketStart, RawBucketScale,
       TwoToThe23
  <2> QED
    BY <1>0, <2>1 DEF TwoToThe24, TwoToThe47
<1>2. CASE e = -44
  <2>1. /\ BucketStart(e) = 7 /\ RawScale(e) \div TwoToThe23 = 241
        /\ (RawScale(e) % TwoToThe23) + TwoToThe23 = 9403954
        /\ Prescale(e) = 32
    BY <1>2 DEF Prescale, RawScale, BucketStart, RawBucketStart, RawBucketScale,
       TwoToThe23
  <2> QED
    BY <1>0, <2>1 DEF TwoToThe24, TwoToThe47
<1>3. CASE e = -43
  <2>1. /\ BucketStart(e) = 71 /\ RawScale(e) \div TwoToThe23 = 237
        /\ (RawScale(e) % TwoToThe23) + TwoToThe23 = 15046327
        /\ Prescale(e) = 32
    BY <1>3 DEF Prescale, RawScale, BucketStart, RawBucketStart, RawBucketScale,
       TwoToThe23
  <2> QED
    BY <1>0, <2>1 DEF TwoToThe24, TwoToThe47
<1>4. CASE e = -42
  <2>1. /\ BucketStart(e) = 713 /\ RawScale(e) \div TwoToThe23 = 234
        /\ (RawScale(e) % TwoToThe23) + TwoToThe23 = 12037062
        /\ Prescale(e) = 32
    BY <1>4 DEF Prescale, RawScale, BucketStart, RawBucketStart, RawBucketScale,
       TwoToThe23
  <2> QED
    BY <1>0, <2>1 DEF TwoToThe24, TwoToThe47
<1>5. CASE e = -41
  <2>1. /\ BucketStart(e) = 7136 /\ RawScale(e) \div TwoToThe23 = 231
        /\ (RawScale(e) % TwoToThe23) + TwoToThe23 = 9629649
        /\ Prescale(e) = 32
    BY <1>5 DEF Prescale, RawScale, BucketStart, RawBucketStart, RawBucketScale,
       TwoToThe23
  <2> QED
    BY <1>0, <2>1 DEF TwoToThe24, TwoToThe47
<1>6. CASE e = -40
  <2>1. /\ BucketStart(e) = 71362 /\ RawScale(e) \div TwoToThe23 = 227
        /\ (RawScale(e) % TwoToThe23) + TwoToThe23 = 15407439
        /\ Prescale(e) = 32
    BY <1>6 DEF Prescale, RawScale, BucketStart, RawBucketStart, RawBucketScale,
       TwoToThe23
  <2> QED
    BY <1>0, <2>1 DEF TwoToThe24, TwoToThe47
<1>7. CASE e = -39
  <2>1. /\ BucketStart(e) = 713623 /\ RawScale(e) \div TwoToThe23 = 224
        /\ (RawScale(e) % TwoToThe23) + TwoToThe23 = 12325951
        /\ Prescale(e) = 32
    BY <1>7 DEF Prescale, RawScale, BucketStart, RawBucketStart, RawBucketScale,
       TwoToThe23
  <2> QED
    BY <1>0, <2>1 DEF TwoToThe24, TwoToThe47
<1>8. CASE e = -38
  <2>1. /\ BucketStart(e) = 7136238 /\ RawScale(e) \div TwoToThe23 = 221
        /\ (RawScale(e) % TwoToThe23) + TwoToThe23 = 9860761
        /\ Prescale(e) = 32
    BY <1>8 DEF Prescale, RawScale, BucketStart, RawBucketStart, RawBucketScale,
       TwoToThe23
  <2> QED
    BY <1>0, <2>1 DEF TwoToThe24, TwoToThe47
<1> QED
  BY <1>1, <1>2, <1>3, <1>4, <1>5, <1>6, <1>7, <1>8

\* Prescaling adds to the exponent.
LEMMA PrescaledType ==
  ASSUME NEW raw \in Numbers, NEW e \in -45..38
  PROVE  /\ Prescaled(raw, e) \in Normalised
         /\ Prescaled(raw, e).sig = Unpack(raw).sig
         /\ Prescaled(raw, e).exp = Unpack(raw).exp + Prescale(e)
<1> DEFINE u == Unpack(raw)
<1>1. u \in Normalised
  BY UnpackType
<1> HIDE DEF u
<1>2. Prescaled(raw, e) = IF e < -45 + 32 THEN Scale2(u, 32)
                          ELSE IF e >= 39 - 32 THEN Scale2(u, -32) ELSE u
  BY DEF Prescaled, u
<1>3. u.sig \in Significand /\ u.exp \in Int /\ u = [sig |-> u.sig, exp |-> u.exp]
  BY <1>1 DEF Normalised
<1>4. CASE e < -45 + 32
  BY <1>2, <1>3, <1>4 DEF Scale2, Prescale, Normalised, u
<1>5. CASE e >= 39 - 32
  BY <1>2, <1>3, <1>5 DEF Scale2, Prescale, Normalised, u
<1>6. CASE ~ (e < -45 + 32) /\ ~ (e >= 39 - 32)
  BY <1>2, <1>3, <1>6 DEF Prescale, Normalised, u
<1> QED
  BY <1>4, <1>5, <1>6

\* A scale is a normal number.
LEMMA ScaleType ==
  ASSUME NEW e \in -45..38
  PROVE  /\ BucketScale(e) \in Normalised
         /\ BucketScale(e).sig = (RawScale(e) % TwoToThe23) + TwoToThe23
         /\ BucketScale(e).exp = RawScale(e) \div TwoToThe23 - 150
<1>1. RawScale(e) \in Numbers /\ TwoToThe23 <= RawScale(e)
  BY Tables DEF TableFits
<1> QED
  BY <1>1, UnpackNormal DEF BucketScale, RawScale

\* The exponents of a value and of the scale of its bucket add up to a product from 1 up,
\* and not far above 10.
LEMMA BucketExponent ==
  ASSUME NEW raw \in Numbers, NEW e \in -45..38,
         BucketStart(e) < raw, raw <= BucketEnd(e)
  PROVE  LET a == Prescaled(raw, e)
             b == BucketScale(e)
         IN  /\ -47 <= a.exp + b.exp /\ a.exp + b.exp <= -24
             /\ a.exp + b.exp = -47 => TwoToThe47 <= a.sig * b.sig
<1> DEFINE u == Unpack(raw)
           a == Prescaled(raw, e)
           b == BucketScale(e)
           s == RawScale(e) \div TwoToThe23
           t == (RawScale(e) % TwoToThe23) + TwoToThe23
           first == BucketStart(e) + 1
<1>1. u \in Normalised /\ u.exp <= (raw \div TwoToThe23) - 150
  BY UnpackType
<1>2. a.sig = u.sig /\ a.exp = u.exp + Prescale(e)
  BY PrescaledType
<1>3. b.sig = t /\ b.exp = s - 150
  BY ScaleType
<1>4. TableFits(e)
  BY Tables
<1>5. /\ BucketStart(e) \in Nat /\ BucketEnd(e) \in Nat
      /\ BucketEnd(e) \div TwoToThe23 + (Prescale(e) + s) <= 276
      /\ e >= -37 =>
           /\ TwoToThe23 <= first
           /\ 253 <= first \div TwoToThe23 + (Prescale(e) + s)
           /\ first \div TwoToThe23 + (Prescale(e) + s) = 253 =>
                TwoToThe47 <= ((first % TwoToThe23) + TwoToThe23) * t
  BY <1>4 DEF TableFits
<1>6. RawScale(e) \in Nat /\ s \in Nat /\ t \in Nat /\ Prescale(e) \in Int
  BY <1>4 DEF TableFits, Numbers, Prescale, TwoToThe23
<1>7. raw \in Nat /\ u.sig \in Nat /\ u.exp \in Int /\ u.sig < TwoToThe24
  BY <1>1 DEF Normalised, Significand, Numbers
<1> HIDE DEF u, a, b, s, t
<1>8. a.exp + b.exp = ((u.exp + Prescale(e)) + s) - 150
  BY <1>2, <1>3, <1>6, <1>7
<1>9. ((u.exp + Prescale(e)) + s) - 150 <= -24
  <2>1. raw \div TwoToThe23 <= BucketEnd(e) \div TwoToThe23
    BY <1>5, <1>7 DEF TwoToThe23
  <2>2. raw \div TwoToThe23 \in Int /\ BucketEnd(e) \div TwoToThe23 \in Int
    BY <1>5, <1>7 DEF TwoToThe23
  <2> QED
    BY <1>1, <1>5, <1>6, <1>7, <2>1, <2>2
<1>10. CASE raw < TwoToThe23
  <2>1. e < -37
    BY <1>5, <1>7, <1>10 DEF TwoToThe23
  <2>2. PICK k \in 1..23 : u.sig = raw * 2^k /\ u.exp = -149 - k
    BY <1>10, UnpackDenormal DEF u
  <2>3. /\ -47 <= ((-149 - k) + Prescale(e)) + (s - 150)
        /\ ((-149 - k) + Prescale(e)) + (s - 150) = -47 => TwoToThe47 <= u.sig * t
    <3>1. u.sig \in Nat /\ u.sig < TwoToThe24 /\ raw \in Nat /\ BucketStart(e) < raw
      BY <1>7
    <3> QED
      BY <2>1, <2>2, <3>1, DenormalBuckets, Zenon DEF s, t
  <2>4. ((-149 - k) + Prescale(e)) + (s - 150) = ((u.exp + Prescale(e)) + s) - 150
    BY <1>6, <2>2
  <2> QED
    BY <1>2, <1>3, <1>8, <1>9, <2>3, <2>4 DEF a, b
<1>11. CASE TwoToThe23 <= raw
  <2> DEFINE c == raw \div TwoToThe23
             f == raw % TwoToThe23
             c0 == first \div TwoToThe23
             f0 == first % TwoToThe23
  <2>1. u.sig = f + TwoToThe23 /\ u.exp = c - 150
    BY <1>11, UnpackNormal DEF u
  <2>2. /\ c \in Nat /\ f \in Nat /\ c0 \in Nat /\ f0 \in Nat
        /\ c0 <= c /\ (c0 = c => f0 <= f) /\ 1 <= c
    BY <1>5, <1>7, <1>11 DEF TwoToThe23
  <2>3. CASE e >= -37
    <3>1. /\ 253 <= c0 + (Prescale(e) + s)
          /\ c0 + (Prescale(e) + s) = 253 => TwoToThe47 <= (f0 + TwoToThe23) * t
      BY <1>5, <2>3
    <3> HIDE DEF c, f, c0, f0
    <3>2. -47 <= ((u.exp + Prescale(e)) + s) - 150
      BY <1>6, <2>1, <2>2, <3>1
    <3>3. ASSUME ((u.exp + Prescale(e)) + s) - 150 = -47
          PROVE  TwoToThe47 <= u.sig * t
      <4>1. c0 = c /\ c0 + (Prescale(e) + s) = 253
        BY <1>6, <2>1, <2>2, <3>1, <3>3
      <4>2. TwoToThe47 <= (f0 + TwoToThe23) * t /\ f0 <= f
        BY <2>2, <3>1, <4>1
      <4>3. (f0 + TwoToThe23) * t <= (f + TwoToThe23) * t
        BY <1>6, <2>2, <4>2 DEF TwoToThe23
      <4>4. (f0 + TwoToThe23) * t \in Int /\ (f + TwoToThe23) * t \in Int
        BY <1>6, <2>2 DEF TwoToThe23
      <4> QED
        BY <2>1, <4>2, <4>3, <4>4 DEF TwoToThe47
    <3>4. ((u.exp + Prescale(e)) + s) - 150 = -47 => TwoToThe47 <= u.sig * t
      BY <3>3
    <3> QED
      <4>1. -47 <= a.exp + b.exp /\ a.exp + b.exp <= -24
        BY <1>8, <1>9, <3>2
      <4>2. a.exp + b.exp = -47 => TwoToThe47 <= a.sig * b.sig
        <5>1. a.sig = u.sig /\ b.sig = t
          BY <1>2, <1>3
        <5>2. a.exp + b.exp = -47 => TwoToThe47 <= u.sig * t
          BY <1>8, <3>4, Zenon
        <5> QED
          BY <5>1, <5>2
      <4> QED
        BY <4>1, <4>2 DEF a, b
  <2>4. CASE e < -37
    <3>1. /\ Prescale(e) = 32 /\ 221 <= s
      <4>1. e = -45 \/ e = -44 \/ e = -43 \/ e = -42 \/ e = -41 \/ e = -40 \/ e = -39 \/ e = -38
        BY <2>4
      <4> QED
        BY <4>1, SMTT(20) DEF s, Prescale, RawScale, RawBucketScale, TwoToThe23
    <3>2. -47 < ((u.exp + Prescale(e)) + s) - 150
      BY <1>6, <2>1, <2>2, <3>1
    <3> QED
      BY <1>2, <1>3, <1>6, <1>7, <1>8, <1>9, <3>2 DEF a, b
  <2> QED
    BY <2>3, <2>4
<1> QED
  BY <1>7, <1>10, <1>11 DEF TwoToThe23

\* Scaled by its bucket, a value is 1 at least (and less than 32), however the product is
\* rounded (springbok.cpp:220-222).
THEOREM ScaledRange ==
  ASSUME NEW raw \in Numbers, NEW e \in -45..38,
         BucketStart(e) < raw, raw <= BucketEnd(e)
  PROVE  /\ Scaled(raw, e) \in Normalised
         /\ -23 <= Scaled(raw, e).exp /\ Scaled(raw, e).exp <= 1
<1> DEFINE a == Prescaled(raw, e)
           b == BucketScale(e)
<1>1. a \in Normalised /\ b \in Normalised
  BY PrescaledType, ScaleType
<1>2. /\ -47 <= a.exp + b.exp /\ a.exp + b.exp <= -24
      /\ a.exp + b.exp = -47 => TwoToThe47 <= a.sig * b.sig
  BY BucketExponent, Zenon
<1>3. Scaled(raw, e) = Multiply(a, b)
  BY DEF Scaled
<1> HIDE DEF a, b
<1> DEFINE r == Multiply(a, b)
<1>4. /\ r \in Normalised
      /\ (a.exp + b.exp) + 23 <= r.exp /\ r.exp <= (a.exp + b.exp) + 25
      /\ TwoToThe23 * TwoToThe24 <= a.sig * b.sig => (a.exp + b.exp) + 24 <= r.exp
  BY <1>1, MultiplyBounds
<1>5. a.exp \in Int /\ b.exp \in Int /\ r.exp \in Int
  BY <1>1, <1>4 DEF Normalised
<1> HIDE DEF r
<1>6. TwoToThe23 * TwoToThe24 = TwoToThe47
  BY DEF TwoToThe23, TwoToThe24, TwoToThe47
<1>7. -23 <= r.exp /\ r.exp <= 1
  BY <1>2, <1>4, <1>5, <1>6
<1> QED
  BY <1>3, <1>4, <1>7 DEF r

\* The number in front of a decimal exponent has seven digits at least and fits the integer
\* that print_fp_num is handed, with room to spare (springbok.cpp:225).
THEOREM MantissaPrintable ==
  ASSUME NEW raw \in Numbers
  PROVE  Printable(ToInteger(Multiply(Scaled(raw, Bucket(raw)), Million)))
<1>1. /\ Bucket(raw) \in -45..38
      /\ BucketStart(Bucket(raw)) < raw /\ raw <= BucketEnd(Bucket(raw))
  BY BucketHolds
<1> DEFINE a == Scaled(raw, Bucket(raw))
<1>2. a \in Normalised /\ -23 <= a.exp /\ a.exp <= 1
  BY <1>1, ScaledRange
<1> HIDE DEF a
<1>3. Printable(ToInteger(Multiply(a, Million)))
  BY <1>2, MillionTimes
<1> QED
  BY <1>3 DEF a

\* The number of a fixed-point text.
LEMMA FixedPrintable ==
  ASSUME NEW raw \in Nat, One <= raw, raw < TenToThe7
  PROVE  /\ raw \in Numbers
         /\ Printable(ToInteger(Multiply(Unpack(raw), Million)))
<1>1. raw \in Numbers /\ TwoToThe23 <= raw
  BY DEF Numbers, One, TenToThe7, Infinity, TwoToThe23
<1>2. 127 <= raw \div TwoToThe23 /\ raw \div TwoToThe23 <= 150
  BY DEF One, TenToThe7, TwoToThe23
<1> DEFINE a == Unpack(raw)
<1>3. a \in Normalised /\ a.exp = (raw \div TwoToThe23) - 150
  BY <1>1, UnpackNormal
<1>4. raw \div TwoToThe23 \in Int
  BY <1>1, Fields
<1>5. -23 <= a.exp /\ a.exp <= 1
  BY <1>2, <1>3, <1>4
<1> HIDE DEF a
<1>6. Printable(ToInteger(Multiply(a, Million)))
  BY <1>3, <1>5, MillionTimes
<1> QED
  BY <1>1, <1>6 DEF a

-----------------------------------------------------------------------------
(* Digits                                                                  *)

Pairs == Limb \X Limb

\* Quotient and remainder of a division by ten.
LEMMA ByTen ==
  ASSUME NEW n \in Nat
  PROVE  \E q \in Nat, r \in 0..9 : n \div 10 = q /\ n % 10 = r /\ n = 10 * q + r
<1>1. n \div 10 \in Nat /\ n % 10 \in 0..9
  OBVIOUS
<1>2. n = 10 * (n \div 10) + (n % 10)
  OBVIOUS
<1> QED
  BY <1>1, <1>2

\* One step of the division by ten.
LEMMA Division ==
  ASSUME NEW v \in Pairs
  PROVE  /\ DivideByTen(v).quotient \in Pairs
         /\ DivideByTen(v).remainder \in 0..9
         /\ Whole(v) = 10 * Whole(DivideByTen(v).quotient) + DivideByTen(v).remainder
<1>1. PICK h \in Limb, w \in Limb : v = <<h, w>>
  BY DEF Pairs
<1>2. h \in Nat /\ w \in Nat /\ h < TwoToThe24 /\ w < TwoToThe24
  BY DEF Limb
<1>3. PICK hq \in Nat, hr \in 0..9 : h \div 10 = hq /\ h % 10 = hr /\ h = 10 * hq + hr
  BY <1>2, ByTen, Zenon
<1>4. hr * TwoToThe24 + w \in Nat /\ hr * TwoToThe24 + w < 10 * TwoToThe24
  BY <1>2 DEF TwoToThe24
<1>5. PICK low \in Nat : low = hr * TwoToThe24 + w
  BY <1>4, Zenon
<1>6. PICK lq \in Nat, lr \in 0..9 : low \div 10 = lq /\ low % 10 = lr /\ low = 10 * lq + lr
  BY ByTen, Zenon
<1>7. DivideByTen(v).quotient = <<hq, lq>> /\ DivideByTen(v).remainder = lr
  BY <1>1, <1>3, <1>5, <1>6 DEF DivideByTen
<1>8. hq < TwoToThe24 /\ lq < TwoToThe24
  BY <1>2, <1>3, <1>4, <1>5, <1>6 DEF TwoToThe24
<1>9. h * TwoToThe24 + w = 10 * (hq * TwoToThe24 + lq) + lr
  BY <1>2, <1>3, <1>5, <1>6 DEF TwoToThe24
<1>10. Whole(<<hq, lq>>) = hq * TwoToThe24 + lq /\ Whole(v) = h * TwoToThe24 + w
  BY <1>1 DEF Whole
<1>11. <<hq, lq>> \in Pairs
  BY <1>8 DEF Pairs, Limb
<1> QED
  BY <1>7, <1>9, <1>10, <1>11

\* A number can be divided any number of times: the shortest sequence that does not exist
\* would continue one that does.
LEMMA Iterates ==
  ASSUME NEW v \in Pairs, NEW n \in Nat
  PROVE  \E f \in [0..n -> Pairs] :
           f[0] = v /\ \A i \in 1..n : f[i] = DivideByTen(f[i - 1]).quotient
<1> DEFINE Run(f, k) == f[0] = v /\ \A i \in 1..k : f[i] = DivideByTen(f[i - 1]).quotient
           Missing == {k \in Nat : ~ \E f \in [0..k -> Pairs] : Run(f, k)}
<1> SUFFICES ASSUME Missing # {} PROVE FALSE
  <2> HIDE DEF Missing, Run
  <2>1. n \in Missing => Missing # {}
    BY Zenon
  <2>2. n \notin Missing
    BY <2>1, Zenon
  <2>3. \E f \in [0..n -> Pairs] : Run(f, n)
    BY <2>2, Zenon DEF Missing
  <2> QED
    BY <2>3, Zenon DEF Run
<1>0. Missing \in SUBSET Nat
  OBVIOUS
<1>1. PICK m \in Missing : \A k \in Missing : ~ (k < m)
  <2> HIDE DEF Missing
  <2> QED
    BY <1>0, LeastNumber, Zenon
<1>2. m \in Nat /\ ~ \E f \in [0..m -> Pairs] : Run(f, m)
  OBVIOUS
<1>3. m # 0
  <2> SUFFICES ASSUME m = 0 PROVE FALSE
    OBVIOUS
  <2> DEFINE g == [i \in 0..m |-> v]
  <2>1. g \in [0..m -> Pairs]
    OBVIOUS
  <2>2. g[0] = v /\ 1..m = {}
    OBVIOUS
  <2> HIDE DEF g
  <2>3. Run(g, m)
    BY <2>2
  <2> QED
    BY <1>2, <2>1, <2>3
<1>4. m - 1 \in Nat /\ m - 1 < m
  BY <1>2, <1>3
<1>5. m - 1 \notin Missing
  <2> HIDE DEF Missing
  <2> QED
    BY <1>1, <1>4
<1>6. PICK f \in [0..(m - 1) -> Pairs] : Run(f, m - 1)
  BY <1>4, <1>5
<1> DEFINE g == [i \in 0..m |-> IF i = m THEN DivideByTen(f[m - 1]).quotient ELSE f[i]]
<1>7. g \in [0..m -> Pairs]
  <2>1. f[m - 1] \in Pairs
    BY <1>4
  <2>2. DivideByTen(f[m - 1]).quotient \in Pairs
    BY <2>1, Division
  <2> QED
    BY <1>4, <2>2
<1>8. g[0] = v
  BY <1>2, <1>3, <1>6
<1>9. ASSUME NEW i \in 1..m PROVE g[i] = DivideByTen(g[i - 1]).quotient
  <2>1. i - 1 \in 0..m /\ i - 1 # m /\ g[i - 1] = f[i - 1]
    BY <1>4
  <2>2. CASE i = m
    BY <1>4, <2>1, <2>2
  <2>3. CASE i # m
    <3>1. i \in 1..(m - 1) /\ g[i] = f[i]
      BY <1>4, <2>3
    <3> QED
      BY <1>6, <2>1, <3>1
  <2> QED
    BY <2>2, <2>3
<1> HIDE DEF g
<1>10. Run(g, m)
  BY <1>8, <1>9
<1> QED
  BY <1>2, <1>7, <1>10

\* What is left of a number after each digit, and the digits that are split off.
Rests(v) == {rest \in [0..15 -> Pairs] :
               /\ rest[0] = v
               /\ \A i \in 1..15 : rest[i] = DivideByTen(rest[i - 1]).quotient}

\* Both exist: the function the digits are taken from has a value.
LEMMA DigitsSplit ==
  ASSUME NEW v \in Pairs
  PROVE  \E rest \in Rests(v) : Digits(v) = [i \in 0..15 |-> DivideByTen(rest[i]).remainder]
<1> DEFINE rest[i \in 0..15] == IF i = 0 THEN v ELSE DivideByTen(rest[i - 1]).quotient
           Rec(f) == f = [i \in 0..15 |-> IF i = 0 THEN v
                                          ELSE DivideByTen(f[i - 1]).quotient]
<1>1. Digits(v) = [i \in 0..15 |-> DivideByTen(rest[i]).remainder]
  BY Zenon DEF Digits
<1>2. rest = CHOOSE f : Rec(f)
  BY Zenon
<1>4. PICK f \in [0..15 -> Pairs] :
             f[0] = v /\ \A i \in 1..15 : f[i] = DivideByTen(f[i - 1]).quotient
  <2>1. PICK n \in Nat : n = 15
    OBVIOUS
  <2>2. PICK f \in [0..n -> Pairs] :
               f[0] = v /\ \A i \in 1..n : f[i] = DivideByTen(f[i - 1]).quotient
    BY Iterates, Zenon
  <2> QED
    BY <2>1, <2>2
<1>5. ASSUME NEW i \in 1..15 PROVE i - 1 \in 0..15
  OBVIOUS
<1>6. ASSUME NEW i \in 1..15 PROVE f[i] = DivideByTen(f[i - 1]).quotient
  BY <1>4, <1>5
<1>7. f = [i \in 0..15 |-> f[i]]
  BY <1>4
<1>8. ASSUME NEW i \in 0..15
      PROVE  f[i] = IF i = 0 THEN v ELSE DivideByTen(f[i - 1]).quotient
  <2>1. CASE i = 0
    BY <1>4, <2>1
  <2>2. CASE i # 0
    <3>1. i \in 1..15
      BY <2>2
    <3> QED
      BY <1>6, <2>2, <3>1
  <2> QED
    BY <2>1, <2>2
<1>9. Rec(f)
  BY <1>7, <1>8, Zenon
<1> HIDE DEF Rec, rest
<1>10. Rec(rest)
  BY <1>2, <1>9, Zenon
<1>11. rest = [i \in 0..15 |-> IF i = 0 THEN v ELSE DivideByTen(rest[i - 1]).quotient]
  BY <1>10, Zenon DEF Rec
<1>12. rest[0] = v
  BY <1>11
<1>13. ASSUME NEW i \in 1..15 PROVE rest[i] = DivideByTen(rest[i - 1]).quotient
  <2>1. i \in 0..15 /\ i # 0
    OBVIOUS
  <2> QED
    BY <1>11, <2>1, Zenon
<1> DEFINE Outside == {i \in 0..15 : rest[i] \notin Pairs}
<1>14. ASSUME Outside # {} PROVE FALSE
  <2>1. Outside \in SUBSET Nat
    OBVIOUS
  <2>2. PICK m \in Outside : \A n \in Outside : ~ (n < m)
    <3> HIDE DEF Outside
    <3> QED
      BY <1>14, <2>1, LeastNumber, Zenon
  <2>3. m \in 0..15 /\ rest[m] \notin Pairs
    BY <2>2, Zenon
  <2>4. m \in 1..15 /\ m - 1 \in 0..15 /\ m - 1 < m
    BY <1>12, <2>3
  <2>5. rest[m - 1] \in Pairs
    BY <2>2, <2>4
  <2> QED
    BY <1>13, <2>3, <2>4, <2>5, Division
<1>15. \A i \in 0..15 : rest[i] \in Pairs
  BY <1>14, Zenon
<1>16. rest = [i \in 0..15 |-> rest[i]]
  BY <1>11, Zenon
<1>17. rest \in [0..15 -> Pairs]
  BY <1>15, <1>16, Zenon
<1> QED
  BY <1>1, <1>12, <1>13, <1>17, Zenon DEF Rests

DigitLists == [0..15 -> 0..9]

\* The digits of a number are decimal digits.
LEMMA DigitsType ==
  ASSUME NEW v \in Pairs
  PROVE  Digits(v) \in DigitLists
<1>1. PICK rest \in Rests(v) : Digits(v) = [i \in 0..15 |-> DivideByTen(rest[i]).remainder]
  BY DigitsSplit, Zenon
<1>2. \A i \in 0..15 : rest[i] \in Pairs
  BY DEF Rests
<1>3. \A i \in 0..15 : DivideByTen(rest[i]).remainder \in 0..9
  BY <1>2, Division
<1> QED
  BY <1>1, <1>3, Zenon DEF DigitLists

\* The search for the first digit stops, at the latest in front of the point.
LEMMA FirstDigitFound ==
  ASSUME NEW digits \in DigitLists, NEW p \in 0..15
  PROVE  /\ FirstDigit(digits, p) \in p..15
         /\ FirstDigit(digits, p) = p \/ digits[FirstDigit(digits, p)] # 0
         /\ \A j \in (FirstDigit(digits, p) + 1)..15 : digits[j] = 0
<1> DEFINE Stops(i) == i = p \/ digits[i] # 0
           T == {n \in 0..(15 - p) : Stops(15 - n)}
           First(i) == Stops(i) /\ \A j \in (i + 1)..15 : digits[j] = 0
<1>1. T \in SUBSET Nat
  OBVIOUS
<1>2. 15 - p \in T
  OBVIOUS
<1>3. PICK m \in T : \A n \in T : ~ (n < m)
  <2> HIDE DEF T
  <2> QED
    BY <1>1, <1>2, LeastNumber, Zenon
<1>4. m \in 0..(15 - p) /\ Stops(15 - m)
  BY <1>3, Zenon
<1>5. ASSUME NEW j \in ((15 - m) + 1)..15 PROVE digits[j] = 0
  <2>1. 15 - j \in 0..(15 - p) /\ 15 - j < m /\ 15 - (15 - j) = j
    BY <1>4
  <2>2. 15 - j \notin T
    <3> HIDE DEF T
    <3> QED
      BY <1>3, <2>1, Zenon
  <2>3. ~ Stops(15 - (15 - j))
    <3> HIDE DEF Stops
    <3> QED
      BY <2>1, <2>2, Zenon
  <2> QED
    BY <2>1, <2>3
<1>6. 15 - m \in p..15 /\ First(15 - m)
  BY <1>4, <1>5
<1>7. FirstDigit(digits, p) = CHOOSE i \in p..15 : First(i)
  BY Zenon DEF FirstDigit
<1> HIDE DEF First
<1>8. FirstDigit(digits, p) \in p..15 /\ First(FirstDigit(digits, p))
  BY <1>6, <1>7, Zenon
<1> QED
  BY <1>8, Zenon DEF First

\* A number from 1000000 up has a digit in front of the point that is not zero: seven of
\* its digits are printed.
LEMMA SevenDigits ==
  ASSUME NEW v, Printable(v)
  PROVE  /\ v \in Pairs
         /\ FirstDigit(Digits(v), 6) \in 6..15
         /\ Digits(v)[FirstDigit(Digits(v), 6)] # 0
<1>1. v \in Pairs
  BY DEF Printable, Pairs
<1> DEFINE d == Digits(v)
           i == FirstDigit(d, 6)
<1>2. d \in DigitLists
  BY <1>1, DigitsType
<1>3. PICK rest \in Rests(v) : d = [k \in 0..15 |-> DivideByTen(rest[k]).remainder]
  BY <1>1, DigitsSplit, Zenon
<1> HIDE DEF d
<1>4. i \in 6..15 /\ (i = 6 \/ d[i] # 0) /\ \A j \in (i + 1)..15 : d[j] = 0
  <2>1. 6 \in 0..15
    OBVIOUS
  <2> QED
    BY <1>2, <2>1, FirstDigitFound
<1> HIDE DEF i
<1> SUFFICES ASSUME d[i] = 0 PROVE FALSE
  BY <1>1, <1>4 DEF d, i
<1>5. \A j \in 6..15 : d[j] = 0
  BY <1>4
<1> DEFINE n(k) == Whole(rest[k])
<1>6. \A k \in 0..15 : rest[k] \in Pairs
  BY DEF Rests
<1>7. \A k \in 0..15 : n(k) \in Nat
  BY <1>6 DEF Pairs, Limb, Whole, TwoToThe24
<1>8. \A k \in 0..14 : n(k) = 10 * n(k + 1) + d[k]
  <2> SUFFICES ASSUME NEW k \in 0..14 PROVE n(k) = 10 * n(k + 1) + d[k]
    OBVIOUS
  <2>1. k \in 0..15 /\ k + 1 \in 1..15 /\ (k + 1) - 1 = k
    OBVIOUS
  <2>2. rest[k + 1] = DivideByTen(rest[k]).quotient
    BY <2>1 DEF Rests
  <2>3. d[k] = DivideByTen(rest[k]).remainder
    BY <1>3, <2>1
  <2> QED
    BY <1>6, <2>1, <2>2, <2>3, Division, Zenon
<1>9. 1000000 <= n(0) /\ n(0) < 140737488355328
  BY DEF Rests, Printable, TwoToThe47
<1> HIDE DEF n
<1>10. d[0] \in 0..9 /\ d[1] \in 0..9 /\ d[2] \in 0..9 /\ d[3] \in 0..9 /\ d[4] \in 0..9
       /\ d[5] \in 0..9
  BY <1>2 DEF DigitLists
<1>11. /\ n(0) = 10 * n(1) + d[0] /\ n(1) = 10 * n(2) + d[1] /\ n(2) = 10 * n(3) + d[2]
       /\ n(3) = 10 * n(4) + d[3] /\ n(4) = 10 * n(5) + d[4] /\ n(5) = 10 * n(6) + d[5]
  BY <1>8
<1>12. /\ n(6) = 10 * n(7) /\ n(7) = 10 * n(8) /\ n(8) = 10 * n(9) /\ n(9) = 10 * n(10)
       /\ n(10) = 10 * n(11) /\ n(11) = 10 * n(12) /\ n(12) = 10 * n(13)
       /\ n(13) = 10 * n(14) /\ n(14) = 10 * n(15)
  BY <1>5, <1>7, <1>8
<1>13. n(0) \in Nat /\ n(1) \in Nat /\ n(2) \in Nat /\ n(3) \in Nat /\ n(4) \in Nat
       /\ n(5) \in Nat /\ n(6) \in Nat /\ n(7) \in Nat /\ n(8) \in Nat /\ n(9) \in Nat
       /\ n(10) \in Nat /\ n(11) \in Nat /\ n(12) \in Nat /\ n(13) \in Nat
       /\ n(14) \in Nat /\ n(15) \in Nat
  BY <1>7
<1>14. n(6) = 1000000000 * n(15)
  BY <1>12, <1>13
<1>15. /\ 1000000 * n(6) <= n(0) /\ n(0) <= 1000000 * n(6) + 999999
  BY <1>10, <1>11, <1>13
<1>16. n(15) = 0
  BY <1>9, <1>13, <1>14, <1>15
<1> QED
  BY <1>9, <1>13, <1>14, <1>15, <1>16

TenToThe15 == 1000000000000000

\* The digits are the number's: a number below 10^15 is what its digits say, each times
\* its power of ten (print_fp_num), so that nothing is lost when the divisions go on in
\* two limbs and when they stop after sixteen digits.
THEOREM DigitsAreTheNumber ==
  ASSUME NEW v \in Pairs, Whole(v) < TenToThe15
  PROVE  /\ Digits(v)[15] = 0
         /\ LET d == Digits(v)
            IN  Whole(v) =
                  d[0] + 10 * (d[1] + 10 * (d[2] + 10 * (d[3] + 10 * (d[4] + 10 * (d[5]
                    + 10 * (d[6] + 10 * (d[7] + 10 * (d[8] + 10 * (d[9] + 10 * (d[10]
                    + 10 * (d[11] + 10 * (d[12] + 10 * (d[13] + 10 * d[14])))))))))))))
<1> DEFINE d == Digits(v)
<1>1. d \in DigitLists
  BY DigitsType
<1>2. PICK rest \in Rests(v) : d = [k \in 0..15 |-> DivideByTen(rest[k]).remainder]
  BY DigitsSplit, Zenon
<1> HIDE DEF d
<1> DEFINE n(k) == Whole(rest[k])
           past == Whole(DivideByTen(rest[15]).quotient)
<1>3. \A k \in 0..15 : rest[k] \in Pairs
  BY DEF Rests
<1>4. /\ \A k \in 0..15 : n(k) \in Nat
      /\ past \in Nat
  <2>1. \A w \in Pairs : Whole(w) \in Nat
    BY DEF Pairs, Limb, Whole, TwoToThe24
  <2>2. 15 \in 0..15
    OBVIOUS
  <2>3. DivideByTen(rest[15]).quotient \in Pairs
    BY <1>3, <2>2, Division
  <2> QED
    BY <1>3, <2>1, <2>3
<1>5. \A k \in 0..14 : n(k) = 10 * n(k + 1) + d[k]
  <2> SUFFICES ASSUME NEW k \in 0..14 PROVE n(k) = 10 * n(k + 1) + d[k]
    OBVIOUS
  <2>1. k \in 0..15 /\ k + 1 \in 1..15 /\ (k + 1) - 1 = k
    OBVIOUS
  <2>2. rest[k + 1] = DivideByTen(rest[k]).quotient
    BY <2>1 DEF Rests
  <2>3. d[k] = DivideByTen(rest[k]).remainder
    BY <1>2, <2>1
  <2> QED
    BY <1>3, <2>1, <2>2, <2>3, Division, Zenon
<1>6. n(15) = 10 * past + d[15]
  <2>1. 15 \in 0..15
    OBVIOUS
  <2>2. rest[15] \in Pairs /\ d[15] = DivideByTen(rest[15]).remainder
    BY <1>2, <1>3, <2>1
  <2> QED
    BY <2>2, Division, Zenon
<1>7. n(0) = Whole(v)
  BY DEF Rests
<1> HIDE DEF n, past
<1>8. \A k \in 0..15 : d[k] \in 0..9
  BY <1>1 DEF DigitLists
<1>9. /\ n(0) = 10 * n(1) + d[0] /\ n(1) = 10 * n(2) + d[1] /\ n(2) = 10 * n(3) + d[2]
      /\ n(3) = 10 * n(4) + d[3] /\ n(4) = 10 * n(5) + d[4] /\ n(5) = 10 * n(6) + d[5]
      /\ n(6) = 10 * n(7) + d[6] /\ n(7) = 10 * n(8) + d[7] /\ n(8) = 10 * n(9) + d[8]
      /\ n(9) = 10 * n(10) + d[9] /\ n(10) = 10 * n(11) + d[10]
      /\ n(11) = 10 * n(12) + d[11] /\ n(12) = 10 * n(13) + d[12]
      /\ n(13) = 10 * n(14) + d[13] /\ n(14) = 10 * n(15) + d[14]
  BY <1>5
<1>10. /\ d[0] \in 0..9 /\ d[1] \in 0..9 /\ d[2] \in 0..9 /\ d[3] \in 0..9 /\ d[4] \in 0..9
       /\ d[5] \in 0..9 /\ d[6] \in 0..9 /\ d[7] \in 0..9 /\ d[8] \in 0..9 /\ d[9] \in 0..9
       /\ d[10] \in 0..9 /\ d[11] \in 0..9 /\ d[12] \in 0..9 /\ d[13] \in 0..9
       /\ d[14] \in 0..9 /\ d[15] \in 0..9
  BY <1>8
<1>11. n(0) \in Nat /\ n(1) \in Nat /\ n(2) \in Nat /\ n(3) \in Nat /\ n(4) \in Nat
       /\ n(5) \in Nat /\ n(6) \in Nat /\ n(7) \in Nat /\ n(8) \in Nat /\ n(9) \in Nat
       /\ n(10) \in Nat /\ n(11) \in Nat /\ n(12) \in Nat /\ n(13) \in Nat
       /\ n(14) \in Nat /\ n(15) \in Nat
  BY <1>4
<1>12. n(15) = 0
  <2>1. n(0) >= 100000 * n(5) /\ n(5) >= 100000 * n(10) /\ n(10) >= 100000 * n(15)
    BY <1>9, <1>10, <1>11
  <2> QED
    BY <1>7, <1>11, <2>1 DEF TenToThe15
<1>13. d[15] = 0
  BY <1>4, <1>6, <1>10, <1>12
<1>14. n(0) = d[0] + 10 * (d[1] + 10 * (d[2] + 10 * (d[3] + 10 * (d[4] + 10 * (d[5]
                + 10 * (d[6] + 10 * (d[7] + 10 * (d[8] + 10 * (d[9] + 10 * (d[10]
                + 10 * (d[11] + 10 * (d[12] + 10 * (d[13] + 10 * d[14])))))))))))))
  <2>1. \A k \in 0..14 : n(k) = d[k] + 10 * n(k + 1)
    <3> SUFFICES ASSUME NEW k \in 0..14 PROVE n(k) = d[k] + 10 * n(k + 1)
      OBVIOUS
    <3>1. k \in 0..15 /\ k + 1 \in 0..15
      OBVIOUS
    <3>2. n(k + 1) \in Nat /\ d[k] \in 0..9
      BY <1>4, <1>8, <3>1
    <3> QED
      BY <1>5, <3>2
  <2>2. n(14) = d[14]
    <3>1. n(14) = 10 * n(15) + d[14] /\ d[14] \in Nat
      BY <1>9, <1>10
    <3> QED
      BY <1>12, <3>1
  <2>3. /\ n(0) = d[0] + 10 * n(1) /\ n(1) = d[1] + 10 * n(2) /\ n(2) = d[2] + 10 * n(3)
        /\ n(3) = d[3] + 10 * n(4) /\ n(4) = d[4] + 10 * n(5) /\ n(5) = d[5] + 10 * n(6)
        /\ n(6) = d[6] + 10 * n(7) /\ n(7) = d[7] + 10 * n(8) /\ n(8) = d[8] + 10 * n(9)
        /\ n(9) = d[9] + 10 * n(10) /\ n(10) = d[10] + 10 * n(11) /\ n(11) = d[11] + 10 * n(12)
        /\ n(12) = d[12] + 10 * n(13) /\ n(13) = d[13] + 10 * n(14)
    BY <2>1
  <2> HIDE DEF d
  <2> QED
    BY <2>2, <2>3
<1> QED
  BY <1>7, <1>13, <1>14 DEF d

-----------------------------------------------------------------------------
(* The text of a value                                                     *)

Printed == DigitCharacters \cup {"-", "+", ".", "e", "[", "]", "N", "a", "I", "F"}

\* What stands where in a concatenation.
LEMMA Joined ==
  ASSUME NEW S, NEW s \in Seq(S), NEW t \in Seq(S)
  PROVE  /\ s \o t \in Seq(S)
         /\ Len(s) \in Nat /\ Len(t) \in Nat /\ Len(s \o t) = Len(s) + Len(t)
         /\ \A i \in 1..Len(s) : (s \o t)[i] = s[i]
         /\ \A i \in 1..Len(t) : (s \o t)[Len(s) + i] = t[i]
  BY ConcatProperties, LenProperties

\* A text that is continued.
LEMMA Begins ==
  ASSUME NEW s \in Seq(Printed), NEW t \in Seq(Printed)
  PROVE  /\ s \o t \in Seq(Printed)
         /\ Len(s) \in Nat /\ Len(t) \in Nat /\ Len(s \o t) = Len(s) + Len(t)
         /\ \A i \in 1..Len(s) : (s \o t)[i] = s[i]
  BY Joined

\* A run of digits, from the most significant one.
LEMMA DigitsDownType ==
  ASSUME NEW digits \in DigitLists, NEW from \in 0..15, NEW to \in 0..from
  PROVE  /\ DigitsDown(digits, from, to) \in Seq(DigitCharacters)
         /\ Len(DigitsDown(digits, from, to)) = (from - to) + 1
         /\ DigitsDown(digits, from, to)[1] = DigitText[digits[from] + 1]
<1> DEFINE n == (from - to) + 1
           s == DigitsDown(digits, from, to)
<1>1. n \in Nat /\ 1 <= n
  OBVIOUS
<1>2. s = [k \in 1..n |-> DigitText[digits[(from + 1) - k] + 1]]
  BY DEF DigitsDown
<1>3. ASSUME NEW k \in 1..n PROVE DigitText[digits[(from + 1) - k] + 1] \in DigitCharacters
  <2>1. (from + 1) - k \in 0..15
    OBVIOUS
  <2>2. digits[(from + 1) - k] + 1 \in 1..10
    BY <2>1 DEF DigitLists
  <2> QED
    BY <2>2, Zenon DEF DigitCharacters
<1>4. (from + 1) - 1 = from /\ 1 \in 1..n
  BY <1>1
<1>5. s[1] = DigitText[digits[from] + 1]
  BY <1>2, <1>4
<1>6. s \in [1..n -> DigitCharacters]
  BY <1>2, <1>3, Zenon
<1> HIDE DEF n, s
<1>7. s \in Seq(DigitCharacters) /\ Len(s) = n
  BY <1>1, <1>6, SeqDef, LenProperties
<1> QED
  BY <1>5, <1>7 DEF n, s

\* Only the digit zero is printed as a zero.
LEMMA NonzeroDigit ==
  ASSUME NEW d \in 0..9, d # 0
  PROVE  DigitText[d + 1] # "0"
<1>1. d = 1 \/ d = 2 \/ d = 3 \/ d = 4 \/ d = 5 \/ d = 6 \/ d = 7 \/ d = 8 \/ d = 9
  OBVIOUS
<1> QED
  BY <1>1 DEF DigitText

\* The sign is one character at most.
LEMMA SignType ==
  ASSUME NEW negative \in BOOLEAN
  PROVE  /\ Sign(negative) \in Seq(Printed)
         /\ Len(Sign(negative)) \in 0..1
         /\ \A i \in 1..Len(Sign(negative)) : Sign(negative)[i] = "-"
<1>1. CASE negative
  <2>1. Sign(negative) = <<"-">>
    BY <1>1 DEF Sign
  <2>2. "-" \in Printed
    BY DEF Printed
  <2> QED
    BY <2>1, <2>2
<1>2. CASE ~ negative
  <2>1. Sign(negative) = << >>
    BY <1>2 DEF Sign
  <2> QED
    BY <2>1
<1> QED
  BY <1>1, <1>2

\* Without a point: a sign and digits.
LEMMA WholeText ==
  ASSUME NEW v \in Pairs, NEW negative \in BOOLEAN
  PROVE  FpNum(v, negative, 0) \in Seq(Printed)
<1> DEFINE d == Digits(v)
           f == FirstDigit(d, 0)
           a == Sign(negative)
           b == DigitsDown(d, f, 0)
<1>1. d \in DigitLists
  BY DigitsType
<1> HIDE DEF d
<1>2. 0 \in 0..15
  OBVIOUS
<1>3. f \in 0..15
  BY <1>1, <1>2, FirstDigitFound
<1> HIDE DEF f
<1>4. 0 \in 0..f
  BY <1>3
<1>5. b \in Seq(DigitCharacters)
  BY <1>1, <1>3, <1>4, DigitsDownType, Zenon
<1>6. a \in Seq(Printed)
  BY SignType
<1> HIDE DEF a, b
<1>7. b \in Seq(Printed)
  BY <1>5 DEF Printed
<1>8. FpNum(v, negative, 0) = (a \o b) \o << >>
  BY DEF FpNum, a, b, f, d
<1>9. << >> \in Seq(Printed)
  OBVIOUS
<1>10. a \o b \in Seq(Printed)
  BY <1>6, <1>7, Joined
<1>11. (a \o b) \o << >> \in Seq(Printed)
  BY <1>9, <1>10, Joined
<1> QED
  BY <1>8, <1>11, Zenon

\* With six places behind the point: n characters of sign, digits from number f on, the
\* first of them not zero, the point, six digits.
Layout(s, n, f) ==
  /\ s \in Seq(Printed) /\ Len(s) = (n + f) + 2
  /\ \A i \in 1..n : s[i] = "-"
  /\ \A i \in (n + 1)..((n + f) - 5) : s[i] \in DigitCharacters
  /\ s[n + 1] # "0"
  /\ s[(n + f) - 4] = "."
  /\ \A i \in ((n + f) - 3)..((n + f) + 2) : s[i] \in DigitCharacters

\* The text of such a number has this layout.
LEMMA NumberText ==
  ASSUME NEW v, Printable(v), NEW negative \in BOOLEAN
  PROVE  \E n \in 0..1, f \in 6..15 : Layout(FpNum(v, negative, 6), n, f)
<1> DEFINE d == Digits(v)
           f == FirstDigit(d, 6)
           a == Sign(negative)
           b == DigitsDown(d, f, 6)
           c == <<".">>
           e == DigitsDown(d, 5, 0)
           n == Len(a)
<1>1. v \in Pairs /\ f \in 6..15 /\ d[f] # 0
  BY SevenDigits
<1>2. d \in DigitLists
  BY <1>1, DigitsType
<1> HIDE DEF d
<1>3. /\ a \in Seq(Printed) /\ n \in 0..1
      /\ \A i \in 1..n : a[i] = "-"
  BY SignType
<1> HIDE DEF f, a
<1>4. f \in 0..15 /\ 6 \in 0..f
  BY <1>1
<1>5. /\ b \in Seq(DigitCharacters) /\ Len(b) = (f - 6) + 1
      /\ b[1] = DigitText[d[f] + 1]
  BY <1>2, <1>4, DigitsDownType, Zenon
<1>6. 5 \in 0..15 /\ 0 \in 0..5
  OBVIOUS
<1>7. e \in Seq(DigitCharacters) /\ Len(e) = 6
  BY <1>2, <1>6, DigitsDownType
<1>8. FpNum(v, negative, 6) = (a \o b) \o (c \o e)
  BY DEF FpNum, a, b, c, e, f, d
<1>9. b[1] # "0"
  <2>1. d[f] \in 0..9
    BY <1>2, <1>4 DEF DigitLists
  <2> QED
    BY <1>1, <1>5, <2>1, NonzeroDigit
<1>10. c \in Seq(Printed) /\ Len(c) = 1 /\ c[1] = "."
  BY DEF Printed
<1> HIDE DEF b, c, e
<1>11. b \in Seq(Printed) /\ e \in Seq(Printed)
  BY <1>5, <1>7 DEF Printed
<1> DEFINE x == a \o b
           y == c \o e
           s == x \o y
<1>12. /\ x \in Seq(Printed) /\ Len(x) = n + ((f - 6) + 1)
       /\ \A i \in 1..n : x[i] = a[i]
       /\ \A i \in 1..Len(b) : x[n + i] = b[i]
  BY <1>3, <1>5, <1>11, Joined
<1>13. /\ y \in Seq(Printed) /\ Len(y) = 7
       /\ \A i \in 1..1 : y[i] = c[i]
       /\ \A i \in 1..6 : y[1 + i] = e[i]
  <2>1. /\ y \in Seq(Printed) /\ Len(y) = Len(c) + Len(e)
        /\ \A i \in 1..Len(c) : y[i] = c[i]
        /\ \A i \in 1..Len(e) : y[Len(c) + i] = e[i]
    <3>1. c \in Seq(Printed) /\ e \in Seq(Printed)
      BY <1>10, <1>11
    <3> QED
      BY <3>1, Joined
  <2> HIDE DEF y
  <2> QED
    BY <1>7, <1>10, <2>1
<1> HIDE DEF x, y
<1>14. /\ s \in Seq(Printed) /\ Len(s) = Len(x) + Len(y)
       /\ \A i \in 1..Len(x) : s[i] = x[i]
       /\ \A i \in 1..Len(y) : s[Len(x) + i] = y[i]
  <2>1. x \in Seq(Printed) /\ y \in Seq(Printed)
    BY <1>12, <1>13
  <2> QED
    BY <2>1, Joined
<1> HIDE DEF s, n
<1>15. n \in Nat /\ f \in Nat /\ 6 <= f
  BY <1>1, <1>3
<1>16. Len(s) = (n + f) + 2 /\ Len(x) = (n + f) - 5
  BY <1>12, <1>13, <1>14, <1>15
<1>17. ASSUME NEW i \in 1..n PROVE s[i] = "-"
  <2>1. i \in 1..Len(x)
    BY <1>15, <1>16
  <2> QED
    BY <1>3, <1>12, <1>14, <2>1
<1>18. ASSUME NEW i \in 1..Len(b)
       PROVE  s[n + i] = b[i]
  <2>1. n + i \in 1..Len(x)
    BY <1>5, <1>15, <1>16
  <2> QED
    BY <1>12, <1>14, <2>1
<1>19. ASSUME NEW i \in (n + 1)..((n + f) - 5) PROVE s[i] \in DigitCharacters
  <2>1. i - n \in 1..Len(b) /\ n + (i - n) = i
    BY <1>5, <1>15
  <2>2. s[n + (i - n)] = b[i - n]
    BY <1>18, <2>1, Zenon
  <2>3. b[i - n] \in DigitCharacters
    BY <1>5, <2>1, ElementOfSeq
  <2> QED
    BY <2>1, <2>2, <2>3
<1>20. s[n + 1] # "0"
  <2>1. 1 \in 1..Len(b)
    BY <1>5, <1>15
  <2> QED
    BY <1>9, <1>18, <2>1
<1>21. s[(n + f) - 4] = "."
  <2>1. 1 \in 1..Len(y) /\ Len(x) + 1 = (n + f) - 4
    BY <1>13, <1>15, <1>16
  <2>2. s[Len(x) + 1] = y[1]
    BY <1>14, <2>1
  <2>3. y[1] = "."
    BY <1>10, <1>13
  <2> QED
    BY <2>1, <2>2, <2>3
<1>22. ASSUME NEW i \in ((n + f) - 3)..((n + f) + 2) PROVE s[i] \in DigitCharacters
  <2>1. PICK k \in 1..6 : i = Len(x) + (1 + k)
    <3>1. i - ((n + f) - 4) \in 1..6
      BY <1>15
    <3>2. i = Len(x) + (1 + (i - ((n + f) - 4)))
      BY <1>15, <1>16
    <3> QED
      BY <3>1, <3>2
  <2>2. s[Len(x) + (1 + k)] = y[1 + k]
    BY <1>13, <1>14
  <2>3. y[1 + k] = e[k] /\ e[k] \in DigitCharacters
    <3>1. k \in 1..Len(e)
      BY <1>7
    <3>2. e[k] \in DigitCharacters
      BY <1>7, <3>1, ElementOfSeq, Zenon
    <3> QED
      BY <1>13, <3>2
  <2> QED
    BY <2>1, <2>2, <2>3
<1>23. Layout(s, n, f)
  BY <1>14, <1>16, <1>17, <1>19, <1>20, <1>21, <1>22 DEF Layout
<1>24. FpNum(v, negative, 6) = s
  BY <1>8, Zenon DEF s, x, y
<1> QED
  BY <1>1, <1>3, <1>23, <1>24, Zenon

\* The patterns of binary32.
Patterns == [raw : 0..LargestPattern, negative : BOOLEAN]

\* What a pattern is made of.
LEMMA PatternFields ==
  ASSUME NEW v \in Patterns
  PROVE  v.raw \in Nat /\ v.negative \in BOOLEAN
<1>1. v.raw \in 0..LargestPattern /\ v.negative \in BOOLEAN
  BY Zenon DEF Patterns
<1> QED
  BY <1>1

\* The text of a finite number but zero: a layout of seven digits or more, and an exponent
\* if it is not a fixed-point one.
LEMMA NumberCharacters ==
  ASSUME NEW v \in Patterns, 0 < v.raw, v.raw < Infinity
  PROVE  \E n \in 0..1, f \in 6..15, s \in Seq(Printed) :
           /\ Layout(s, n, f)
           /\ \/ Characters(v) = s
              \/ \E t \in Seq(Printed) : Characters(v) = (s \o <<"e">>) \o t
<1>1. v.raw \in Nat /\ v.negative \in BOOLEAN /\ v.raw \in Numbers
  BY PatternFields DEF Numbers
<1>2. Below0(v) \in BOOLEAN
  BY <1>1 DEF Below0
<1>3. ~ (v.raw > Infinity) /\ ~ (v.raw = Infinity) /\ ~ IsZero(v)
  BY <1>1 DEF Infinity, IsZero
<1>4. CASE Fixed(v)
  <2> DEFINE w == ToInteger(Multiply(Unpack(v.raw), Million))
  <2>1. Printable(w)
    BY <1>1, <1>4, FixedPrintable DEF Fixed
  <2>2. Characters(v) = FixedText(v)
    BY <1>3, <1>4, Zenon DEF Characters
  <2>3. FixedText(v) = FpNum(w, Below0(v), 6)
    BY Zenon DEF FixedText
  <2> HIDE DEF w
  <2>4. \E n \in 0..1, f \in 6..15 : Layout(FpNum(w, Below0(v), 6), n, f)
    BY <1>2, <2>1, NumberText, Zenon
  <2>5. \A n, f : Layout(FpNum(w, Below0(v), 6), n, f) => FixedText(v) \in Seq(Printed)
    BY <2>3, Zenon DEF Layout
  <2> QED
    BY <2>2, <2>3, <2>4, <2>5, Zenon
<1>5. CASE ~ Fixed(v)
  <2> DEFINE e == Bucket(v.raw)
             w == ToInteger(Multiply(Scaled(v.raw, e), Million))
             t == FpNum(<<0, IF e < 0 THEN -e ELSE e>>, e < 0, 0)
             s == MantissaText(v)
  <2>1. Printable(w)
    BY <1>1, MantissaPrintable, Zenon
  <2>2. e \in -45..38
    BY <1>1, BucketHolds
  <2>3. Characters(v) = ScientificText(v)
    BY <1>3, <1>5, Zenon DEF Characters
  <2>4. ScientificText(v) = (s \o <<"e">>) \o t
    BY Zenon DEF ScientificText
  <2>5. s = FpNum(w, Below0(v), 6)
    BY Zenon DEF MantissaText
  <2> HIDE DEF w, e, s
  <2>6. \E n \in 0..1, f \in 6..15 : Layout(s, n, f)
    BY <1>2, <2>1, <2>5, NumberText, Zenon
  <2>7. <<0, IF e < 0 THEN -e ELSE e>> \in Pairs
    <3>1. (IF e < 0 THEN -e ELSE e) \in Limb /\ 0 \in Limb
      BY <2>2 DEF Limb, TwoToThe24
    <3> QED
      BY <3>1, Zenon DEF Pairs
  <2>8. (e < 0) \in BOOLEAN
    BY <2>2
  <2>9. t \in Seq(Printed)
    BY <2>7, <2>8, WholeText, Zenon
  <2>10. \A n, f : Layout(s, n, f) => s \in Seq(Printed)
    BY Zenon DEF Layout
  <2> QED
    BY <2>3, <2>4, <2>6, <2>9, <2>10, Zenon
<1> QED
  BY <1>4, <1>5, Zenon

\* Every text is made of printed characters.
LEMMA CharactersType ==
  ASSUME NEW v \in Patterns
  PROVE  Characters(v) \in Seq(Printed)
<1>1. v.raw \in Nat /\ v.negative \in BOOLEAN
  BY PatternFields
<1>2. CASE v.raw > Infinity
  <2>1. ~ (v.raw = Infinity) /\ ~ Fixed(v) /\ ~ IsZero(v)
    BY <1>1, <1>2 DEF Infinity, Fixed, TenToThe7, IsZero
  <2>2. Characters(v) = NanText
    BY <1>2, <2>1, Zenon DEF Characters
  <2>3. NanText \in Seq(Printed)
    BY DEF NanText, Printed
  <2> QED
    BY <2>2, <2>3
<1>3. CASE v.raw = Infinity
  <2>1. ~ (v.raw > Infinity) /\ ~ Fixed(v) /\ ~ IsZero(v)
    BY <1>1, <1>3 DEF Infinity, Fixed, TenToThe7, IsZero
  <2>2. Characters(v) = InfinityText(v)
    BY <1>3, <2>1, Zenon DEF Characters
  <2>3. InfinityText(v) \in Seq(Printed)
    BY DEF InfinityText, Printed
  <2> QED
    BY <2>2, <2>3
<1>4. CASE v.raw = 0
  <2>1. ~ (v.raw > Infinity) /\ ~ (v.raw = Infinity) /\ ~ Fixed(v) /\ IsZero(v)
    BY <1>1, <1>4 DEF Infinity, Fixed, One, IsZero
  <2>2. Characters(v) = FpNum(<<0, 0>>, FALSE, 0)
    BY <2>1, Zenon DEF Characters
  <2>3. <<0, 0>> \in Pairs /\ FALSE \in BOOLEAN
    BY DEF Pairs, Limb, TwoToThe24
  <2> QED
    BY <2>2, <2>3, WholeText, Zenon
<1>5. CASE 0 < v.raw /\ v.raw < Infinity
  <2>1. PICK n \in 0..1, f \in 6..15, s \in Seq(Printed) :
               \/ Characters(v) = s
               \/ \E t \in Seq(Printed) : Characters(v) = (s \o <<"e">>) \o t
    BY <1>5, NumberCharacters, Zenon
  <2>2. CASE Characters(v) = s
    BY <2>2
  <2>3. ASSUME NEW t \in Seq(Printed), Characters(v) = (s \o <<"e">>) \o t
        PROVE  Characters(v) \in Seq(Printed)
    <3>1. <<"e">> \in Seq(Printed)
      BY DEF Printed
    <3>2. s \o <<"e">> \in Seq(Printed)
      BY <3>1, Joined
    <3>3. (s \o <<"e">>) \o t \in Seq(Printed)
      BY <3>2, Joined
    <3> QED
      BY <2>3, <3>3, Zenon
  <2> QED
    BY <2>1, <2>2, <2>3, Zenon
<1> QED
  BY <1>1, <1>2, <1>3, <1>4, <1>5 DEF Infinity

-----------------------------------------------------------------------------
(* What a call has done so far                                             *)

Places == 0..(MemorySize - 1)
Bytes  == Printed \cup {"NUL", "garbage"}

\* While the characters are put: those put so far that fit are in the buffer, the others
\* are still to come.
PrintingInv ==
  LET text == Characters(value)
  IN  /\ buffer \/ len = 0
      /\ l \in 0..Len(text)
      /\ todo \in Seq(Printed) /\ Len(todo) = Len(text) - l
      /\ \A i \in 1..Len(todo) : todo[i] = text[l + i]
      /\ \A i \in Places : memory[i] = IF i < l /\ i < len THEN text[i + 1] ELSE "garbage"

\* After it: the text and its terminator are counted, whether they fitted or not.
ReturnedInv ==
  /\ MeasuredThenPrinted
  /\ Answered => l = Len(Characters(value)) + 1

\* The call for the length comes first, and it has no buffer.
CallInv ==
  /\ needed = 0 => len = 0
  /\ needed # 0 => needed = Len(Characters(value)) + 1

TypeInv ==
  /\ value \in Patterns
  /\ needed \in Nat
  /\ stage \in {"caller", "printing", "returned"}
  /\ len \in 0..MemorySize
  /\ buffer \in BOOLEAN
  /\ memory \in [Places -> Bytes]

Inv == /\ TypeInv
       /\ CallInv
       /\ stage = "printing" => PrintingInv
       /\ stage = "returned" => ReturnedInv

\* The ten digits.
LEMMA TenDigits == DigitCharacters = {"0", "1", "2", "3", "4", "5", "6", "7", "8", "9"}
<1>1. /\ DigitText[1] = "0" /\ DigitText[2] = "1" /\ DigitText[3] = "2"
      /\ DigitText[4] = "3" /\ DigitText[5] = "4" /\ DigitText[6] = "5"
      /\ DigitText[7] = "6" /\ DigitText[8] = "7" /\ DigitText[9] = "8"
      /\ DigitText[10] = "9"
  BY DEF DigitText
<1>2. \A d \in 1..10 : d = 1 \/ d = 2 \/ d = 3 \/ d = 4 \/ d = 5 \/ d = 6 \/ d = 7
                        \/ d = 8 \/ d = 9 \/ d = 10
  OBVIOUS
<1> QED
  BY <1>1, <1>2 DEF DigitCharacters

\* A digit is no sign, no point and no exponent.
LEMMA DigitIsNoOther ==
  ASSUME NEW c \in DigitCharacters
  PROVE  c \notin {"e", "-", "."}
  BY TenDigits

\* No character of a text is a terminator, nor what lies in unused memory.
LEMMA TextIsNoTerminator ==
  ASSUME NEW c \in Printed
  PROVE  c \notin {"NUL", "garbage"}
  BY TenDigits DEF Printed

\* Storing a byte leaves a memory of bytes.
LEMMA Stored ==
  ASSUME NEW m \in [Places -> Bytes], NEW i, NEW c \in Bytes
  PROVE  [m EXCEPT ![i] = c] \in [Places -> Bytes]
<1> DEFINE n == [m EXCEPT ![i] = c]
<1>1. n = [j \in Places |-> IF j = i THEN c ELSE m[j]]
  BY Zenon
<1>2. \A j \in Places : (IF j = i THEN c ELSE m[j]) \in Bytes
  BY Zenon
<1> QED
  BY <1>1, <1>2, Zenon

\* The invariant holds at the start.
LEMMA Inits == Init => Inv
<1> SUFFICES ASSUME Init PROVE Inv
  OBVIOUS
<1>1. value \in Patterns
  BY ValueAssumption, Zenon DEF Init, Patterns
<1>2. memory \in [Places -> Bytes]
  BY Zenon DEF Init, Garbage, Places, Bytes
<1>3. 0 \in 0..MemorySize
  BY SizeAssumption
<1>4. /\ needed = 0 /\ stage = "caller" /\ len = 0 /\ buffer = FALSE
  BY Zenon DEF Init
<1>5. TypeInv
  <2>1. needed \in Nat
    BY <1>4
  <2>2. stage \in {"caller", "printing", "returned"} /\ buffer \in BOOLEAN
    BY <1>4, Zenon
  <2> QED
    BY <1>1, <1>2, <1>3, <1>4, <2>1, <2>2, Zenon DEF TypeInv
<1>6. CallInv
  BY <1>4 DEF CallInv
<1> QED
  BY <1>4, <1>5, <1>6 DEF Inv

\* A call starts with nothing put and nothing stored; a NULL buffer with a length is
\* answered at once.
LEMMA Calling ==
  ASSUME Inv, NEW length, NEW given \in BOOLEAN, Call(length, given),
         needed = 0 => length = 0
  PROVE  Inv'
<1> DEFINE text == Characters(value)
<1>1. /\ stage = "caller" /\ length \in 0..MemorySize
      /\ len' = length /\ buffer' = given /\ l' = 0 /\ memory' = Garbage
      /\ value' = value /\ needed' = needed
  BY Zenon DEF Call
<1>2. text \in Seq(Printed)
  BY CharactersType DEF Inv, TypeInv
<1>3. stage' \in {"printing", "returned"}
  BY DEF Call
<1>4. memory' \in [Places -> Bytes]
  BY <1>1, Zenon DEF Garbage, Places, Bytes
<1>5. TypeInv'
  BY <1>1, <1>3, <1>4 DEF Inv, TypeInv
<1>6. CallInv'
  BY <1>1 DEF Inv, CallInv
<1>7. ASSUME NEW i \in Places PROVE memory'[i] = "garbage"
  BY <1>1, Zenon DEF Garbage, Places
<1>8. stage' = "printing" => PrintingInv'
  <2> SUFFICES ASSUME stage' = "printing" PROVE PrintingInv'
    OBVIOUS
  <2>1. todo' = text /\ (given \/ length = 0)
    BY DEF Call
  <2>2. Characters(value') = text
    BY <1>1, Zenon
  <2> HIDE DEF text
  <2>3. Len(text) \in Nat
    BY <1>2, LenProperties
  <2>4. 0 \in 0..Len(text) /\ Len(text) - 0 = Len(text)
    BY <2>3
  <2>5. \A i \in 1..Len(text) : text[i] = text[0 + i]
    BY <2>3
  <2>6. \A i \in Places :
          memory'[i] = IF i < 0 /\ i < length THEN text[i + 1] ELSE "garbage"
    BY <1>7, SizeAssumption DEF Places
  <2> QED
    BY <1>1, <1>2, <2>1, <2>2, <2>4, <2>5, <2>6 DEF PrintingInv
<1>9. stage' = "returned" => ReturnedInv'
  <2> SUFFICES ASSUME stage' = "returned" PROVE ReturnedInv'
    OBVIOUS
  <2>1. ~ given /\ length # 0
    BY DEF Call
  <2>2. ~ Answered'
    BY <1>1, <2>1 DEF Answered
  <2>3. \A i \in length..(MemorySize - 1) : memory'[i] = "garbage"
    <3> SUFFICES ASSUME NEW i \in length..(MemorySize - 1) PROVE memory'[i] = "garbage"
      OBVIOUS
    <3>1. i \in Places
      BY <1>1, SizeAssumption DEF Places
    <3> QED
      BY <1>7, <3>1
  <2> QED
    BY <1>1, <2>2, <2>3, Zenon DEF ReturnedInv, MeasuredThenPrinted, Garbage
<1> QED
  BY <1>5, <1>6, <1>8, <1>9, Zenon DEF Inv

\* A character that does not fit is counted and not stored.
LEMMA Putting ==
  ASSUME Inv, Put
  PROVE  Inv'
<1> DEFINE text == Characters(value)
<1>1. /\ stage = "printing" /\ todo # << >>
      /\ l' = l + 1 /\ todo' = Tail(todo)
      /\ value' = value /\ needed' = needed /\ stage' = stage /\ len' = len
      /\ buffer' = buffer
      /\ memory' = IF l < len THEN [memory EXCEPT ![l] = Head(todo)] ELSE memory
  BY Zenon DEF Put, Store
<1>2. text \in Seq(Printed)
  BY CharactersType DEF Inv, TypeInv
<1>3. /\ buffer \/ len = 0
      /\ l \in 0..Len(text)
      /\ todo \in Seq(Printed) /\ Len(todo) = Len(text) - l
      /\ \A i \in 1..Len(todo) : todo[i] = text[l + i]
      /\ \A i \in Places : memory[i] = IF i < l /\ i < len THEN text[i + 1] ELSE "garbage"
  BY <1>1, Zenon DEF Inv, PrintingInv
<1>4. TypeInv
  BY DEF Inv
<1> HIDE DEF text
<1>5. Len(text) \in Nat /\ Len(todo) \in Nat /\ Len(todo) # 0
  BY <1>1, <1>2, <1>3, LenProperties, EmptySeq
<1>6. /\ Head(todo) \in Printed /\ Head(todo) = todo[1]
      /\ Tail(todo) \in Seq(Printed) /\ Len(Tail(todo)) = Len(todo) - 1
      /\ \A i \in 1..Len(Tail(todo)) : Tail(todo)[i] = todo[i + 1]
  BY <1>1, <1>3, HeadTailProperties
<1>7. Head(todo) = text[l + 1]
  BY <1>3, <1>5, <1>6
<1>8. memory \in [Places -> Bytes] /\ len \in 0..MemorySize
  BY <1>4 DEF TypeInv
<1>9. memory' \in [Places -> Bytes]
  <2>1. Head(todo) \in Bytes
    BY <1>6, Zenon DEF Bytes
  <2>2. [memory EXCEPT ![l] = Head(todo)] \in [Places -> Bytes]
    BY <1>8, <2>1, Stored, Zenon
  <2> QED
    BY <1>1, <1>8, <2>2, Zenon
<1>10. l + 1 \in 0..Len(text) /\ Len(todo) - 1 = Len(text) - (l + 1)
  BY <1>3, <1>5
<1>11. ASSUME NEW i \in 1..Len(Tail(todo)) PROVE Tail(todo)[i] = text[(l + 1) + i]
  <2>1. i + 1 \in 1..Len(todo) /\ l + (i + 1) = (l + 1) + i
    BY <1>3, <1>5, <1>6
  <2> QED
    BY <1>3, <1>6, <2>1
<1>12. ASSUME NEW i \in Places
       PROVE  memory'[i] = IF i < l + 1 /\ i < len THEN text[i + 1] ELSE "garbage"
  <2>1. i \in Nat /\ l \in Nat /\ len \in Nat
    BY <1>3, <1>8, SizeAssumption DEF Places
  <2>2. CASE i = l /\ l < len
    BY <1>1, <1>7, <1>8, <2>1, <2>2
  <2>3. CASE ~ (i = l /\ l < len)
    <3>1. memory'[i] = memory[i]
      BY <1>1, <1>8, <2>3
    <3>2. (i < l + 1 /\ i < len) <=> (i < l /\ i < len)
      BY <2>1, <2>3
    <3> QED
      BY <1>3, <3>1, <3>2
  <2> QED
    BY <2>2, <2>3
<1>13. Characters(value') = text
  BY <1>1, Zenon DEF text
<1>14. PrintingInv'
  BY <1>1, <1>3, <1>6, <1>10, <1>11, <1>12, <1>13 DEF PrintingInv
<1>15. TypeInv'
  BY <1>1, <1>4, <1>9 DEF TypeInv
<1>16. CallInv'
  BY <1>1, Zenon DEF Inv, CallInv
<1> QED
  BY <1>1, <1>14, <1>15, <1>16 DEF Inv

\* The last step of a call: the terminator stands behind the text or in the last place of
\* the buffer.
LEMMA Terminating ==
  ASSUME Inv, Terminate
  PROVE  Inv'
<1> DEFINE text == Characters(value)
<1>1. /\ stage = "printing" /\ todo = << >>
      /\ l' = l + 1 /\ stage' = "returned"
      /\ value' = value /\ needed' = needed /\ len' = len
      /\ buffer' = buffer /\ todo' = todo
      /\ memory' = IF l < len THEN [memory EXCEPT ![l] = "NUL"]
                   ELSE IF len > 0 THEN [memory EXCEPT ![len - 1] = "NUL"] ELSE memory
  BY Zenon DEF Terminate, Store
<1>2. text \in Seq(Printed)
  BY CharactersType DEF Inv, TypeInv
<1>3. /\ buffer \/ len = 0
      /\ l \in 0..Len(text)
      /\ todo \in Seq(Printed) /\ Len(todo) = Len(text) - l
      /\ \A i \in Places : memory[i] = IF i < l /\ i < len THEN text[i + 1] ELSE "garbage"
  BY <1>1, Zenon DEF Inv, PrintingInv
<1>4. TypeInv
  BY DEF Inv
<1>5. Characters(value') = text
  BY <1>1, Zenon
<1>6. needed # 0 => needed = Len(text) + 1
  BY Zenon DEF Inv, CallInv
<1> HIDE DEF text
<1>7. Len(todo) = 0
  BY <1>1, EmptySeq
<1>8. Len(text) \in Nat
  BY <1>2, LenProperties
<1>9. l = Len(text)
  BY <1>3, <1>7, <1>8
<1>10. /\ memory \in [Places -> Bytes] /\ len \in 0..MemorySize
       /\ MemorySize \in Nat /\ needed \in Nat
  BY <1>4, SizeAssumption DEF TypeInv
<1>11. memory' \in [Places -> Bytes]
  <2>1. "NUL" \in Bytes
    BY Zenon DEF Bytes
  <2>2. \A i : [memory EXCEPT ![i] = "NUL"] \in [Places -> Bytes]
    BY <1>10, <2>1, Stored, Zenon
  <2> QED
    BY <1>1, <1>10, <2>2, Zenon
<1> DEFINE end == IF len < l + 1 THEN len - 1 ELSE (l + 1) - 1
<1>12. len > 0 => /\ end \in Places /\ end < len /\ end <= l
                  /\ memory' = [memory EXCEPT ![end] = "NUL"]
  <2> SUFFICES ASSUME len > 0
               PROVE  /\ end \in Places /\ end < len /\ end <= l
                      /\ memory' = [memory EXCEPT ![end] = "NUL"]
    OBVIOUS
  <2>1. end \in Places /\ end < len /\ end <= l
    BY <1>8, <1>9, <1>10 DEF Places
  <2>2. CASE l < len
    <3>1. end = l
      BY <1>8, <1>9, <1>10, <2>2
    <3> QED
      BY <1>1, <2>1, <2>2, <3>1, Zenon
  <2>3. CASE ~ (l < len)
    <3>1. end = len - 1
      BY <1>8, <1>9, <1>10, <2>3
    <3> QED
      BY <1>1, <2>1, <2>3, <3>1, Zenon
  <2> QED
    BY <2>2, <2>3
<1>13. ASSUME NEW i \in len..(MemorySize - 1) PROVE memory'[i] = "garbage"
  <2>1. i \in Places /\ ~ (i < len) /\ (len > 0 => i # end)
    BY <1>10, <1>12 DEF Places
  <2>2. memory'[i] = memory[i]
    <3> HIDE DEF end
    <3>1. CASE len > 0
      BY <1>10, <1>12, <2>1, <3>1
    <3>2. CASE ~ (len > 0)
      BY <1>1, <1>8, <1>9, <1>10, <3>2
    <3> QED
      BY <3>1, <3>2
  <2> QED
    BY <1>3, <2>1, <2>2
<1>14. len > 0 => memory'[end] = "NUL"
  <2> HIDE DEF end
  <2> QED
    BY <1>10, <1>12
<1>15. ASSUME NEW i \in 0..(end - 1)
       PROVE  memory'[i] \notin {"NUL", "garbage"} /\ memory'[i] = text[i + 1]
  <2>1. len > 0 /\ i < l /\ i < len /\ i \in Places /\ i # end /\ i + 1 \in 1..Len(text)
    BY <1>8, <1>9, <1>10 DEF Places
  <2>2. memory'[i] = memory[i]
    <3> HIDE DEF end
    <3> QED
      BY <1>10, <1>12, <2>1
  <2>3. memory[i] = text[i + 1]
    BY <1>3, <2>1
  <2>4. text[i + 1] \in Printed
    BY <1>2, <2>1, ElementOfSeq
  <2>5. text[i + 1] \notin {"NUL", "garbage"}
    BY <2>4, TextIsNoTerminator
  <2> QED
    BY <2>2, <2>3, <2>5
<1>16. needed # 0 => l + 1 = needed
  BY <1>6, <1>9
<1>17. Answered'
  BY <1>1, <1>3 DEF Answered
<1>18. MeasuredThenPrinted'
  <2> HIDE DEF end
  <2>1. /\ \A i \in len'..(MemorySize - 1) : memory'[i] = "garbage"
        /\ needed' # 0 => l' = needed'
        /\ len' > 0 => memory'[end] = "NUL"
        /\ \A i \in 0..(end - 1) : /\ memory'[i] \notin {"NUL", "garbage"}
                                   /\ memory'[i] = Characters(value')[i + 1]
    BY <1>1, <1>5, <1>13, <1>14, <1>15, <1>16
  <2>2. end = IF len' < l' THEN len' - 1 ELSE l' - 1
    BY <1>1 DEF end
  <2> QED
    BY <1>17, <2>1, <2>2, Zenon DEF MeasuredThenPrinted
<1>19. ReturnedInv'
  BY <1>1, <1>5, <1>9, <1>18 DEF ReturnedInv
<1>20. TypeInv'
  BY <1>1, <1>4, <1>11 DEF TypeInv
<1>21. CallInv'
  BY <1>1, Zenon DEF Inv, CallInv
<1> QED
  BY <1>1, <1>19, <1>20, <1>21 DEF Inv

\* Measure, Convert and ConvertElsewhere.
LEMMA CallsKeep ==
  ASSUME Inv, Measure \/ Convert \/ ConvertElsewhere
  PROVE  Inv'
<1>1. needed \in Nat
  BY DEF Inv, TypeInv
<1>2. CASE Measure
  <2>1. Call(0, FALSE) /\ FALSE \in BOOLEAN
    BY <1>2, Zenon DEF Measure
  <2> QED
    BY <2>1, Calling, Zenon
<1>3. CASE Convert
  <2>1. Call(needed, TRUE) /\ TRUE \in BOOLEAN
    BY <1>3, Zenon DEF Convert
  <2> QED
    BY <2>1, Calling, Zenon
<1>4. CASE ConvertElsewhere
  <2>1. PICK length \in ShortLengths, given \in BOOLEAN : needed > 0 /\ Call(length, given)
    BY <1>4, Zenon DEF ConvertElsewhere
  <2>2. needed # 0
    BY <1>1, <2>1
  <2> QED
    BY <2>1, <2>2, Calling, Zenon
<1> QED
  BY <1>2, <1>3, <1>4

\* What the first call returned is kept, and the later ones returned the same.
LEMMA Returning ==
  ASSUME Inv, Return
  PROVE  Inv'
<1>1. /\ stage = "returned" /\ stage' = "caller"
      /\ needed' = IF needed = 0 THEN l ELSE needed
      /\ value' = value /\ len' = len /\ buffer' = buffer /\ todo' = todo
      /\ l' = l /\ memory' = memory
  BY Zenon DEF Return
<1>2. TypeInv /\ CallInv /\ ReturnedInv
  BY <1>1, Zenon DEF Inv
<1> DEFINE text == Characters(value)
<1>3. Len(text) \in Nat
  <2>1. text \in Seq(Printed)
    BY <1>2, CharactersType DEF TypeInv
  <2> HIDE DEF text
  <2> QED
    BY <2>1, LenProperties
<1>4. Characters(value') = text
  BY <1>1, Zenon
<1>5. needed = 0 => l = Len(text) + 1
  <2>1. needed = 0 => Answered
    BY <1>1, <1>2 DEF CallInv, Answered
  <2> QED
    BY <1>2, <2>1, Zenon DEF ReturnedInv
<1>6. needed # 0 => needed = Len(text) + 1
  BY <1>2, Zenon DEF CallInv
<1> HIDE DEF text
<1>7. needed' = Len(text) + 1
  BY <1>1, <1>5, <1>6, Zenon
<1>8. needed' \in Nat /\ needed' # 0
  BY <1>3, <1>7
<1>9. TypeInv'
  BY <1>1, <1>2, <1>8 DEF TypeInv
<1>10. CallInv'
  BY <1>4, <1>7, <1>8, Zenon DEF CallInv
<1> QED
  BY <1>1, <1>9, <1>10 DEF Inv

\* Nothing changes in a step that stutters.
LEMMA Stuttering ==
  ASSUME Inv, UNCHANGED vars
  PROVE  Inv'
<1>1. /\ value' = value /\ needed' = needed /\ stage' = stage /\ len' = len
      /\ buffer' = buffer /\ todo' = todo /\ l' = l /\ memory' = memory
  BY Zenon DEF vars
<1>2. Characters(value') = Characters(value) /\ Answered' = Answered
  BY <1>1, Zenon DEF Answered
<1>3. MeasuredThenPrinted' = MeasuredThenPrinted
  BY <1>1, <1>2, Zenon DEF MeasuredThenPrinted
<1>4. PrintingInv' = PrintingInv
  BY <1>1, <1>2, Zenon DEF PrintingInv
<1> QED
  BY <1>1, <1>2, <1>3, <1>4, Zenon DEF Inv, TypeInv, CallInv, ReturnedInv

\* Every step keeps the invariant.
LEMMA Steps == Inv /\ [Next]_vars => Inv'
<1> SUFFICES ASSUME Inv, [Next]_vars PROVE Inv'
  OBVIOUS
<1>1. CASE Measure \/ Convert \/ ConvertElsewhere
  BY <1>1, CallsKeep
<1>2. CASE Put
  BY <1>2, Putting
<1>3. CASE Terminate
  BY <1>3, Terminating
<1>4. CASE Return
  BY <1>4, Returning
<1>5. CASE UNCHANGED vars
  BY <1>5, Stuttering
<1> QED
  BY <1>1, <1>2, <1>3, <1>4, <1>5 DEF Next

\* The invariant holds of every behaviour.
LEMMA Invariant == Spec => []Inv
<1>1. Init => Inv
  BY Inits
<1>2. Inv /\ [Next]_vars => Inv'
  BY Steps
<1> QED
  BY <1>1, <1>2, PTL DEF Spec

\* The call for the length returns what every later call needs and returns; the text fills
\* a buffer of that length exactly, a shorter one holds its beginning and the terminator,
\* and nothing is stored behind a buffer (float_to_str, print_str, print_fp_num): for
\* every value of binary32 and every length of a buffer.
THEOREM MeasuredThenPrintedHolds == Spec => []MeasuredThenPrinted
<1>1. Inv => MeasuredThenPrinted
  <2> SUFFICES ASSUME Inv PROVE MeasuredThenPrinted
    OBVIOUS
  <2>1. CASE stage = "returned"
    BY <2>1, Zenon DEF Inv, ReturnedInv
  <2>2. CASE stage # "returned"
    BY <2>2, Zenon DEF MeasuredThenPrinted
  <2> QED
    BY <2>1, <2>2
<1> QED
  BY <1>1, Invariant, PTL

-----------------------------------------------------------------------------
(* Seven significant digits                                                *)

\* The text in a buffer that is long enough is the whole text.
LEMMA WholeTextStored ==
  ASSUME Inv, Answered, needed > 0, len >= needed
  PROVE  Text = Characters(value)
<1> DEFINE text == Characters(value)
           Ends(i) == memory[i] = "NUL" /\ \A j \in 0..(i - 1) : memory[j] # "NUL"
<1>1. TypeInv /\ CallInv /\ ReturnedInv /\ stage = "returned"
  BY Zenon DEF Inv, Answered
<1>2. text \in Seq(Printed)
  BY <1>1, CharactersType DEF TypeInv
<1>3. needed \in Nat /\ len \in Nat /\ len <= MemorySize /\ MemorySize \in Nat
  BY <1>1, SizeAssumption DEF TypeInv
<1>4. needed # 0
  BY <1>3
<1>5. l = Len(text) + 1 /\ needed = Len(text) + 1
  BY <1>1, <1>4, Zenon DEF ReturnedInv, CallInv
<1>6. LET end == IF len < l THEN len - 1 ELSE l - 1
      IN  /\ len > 0 => memory[end] = "NUL"
          /\ \A i \in 0..(end - 1) : /\ memory[i] \notin {"NUL", "garbage"}
                                     /\ memory[i] = text[i + 1]
  BY <1>1, Zenon DEF ReturnedInv, MeasuredThenPrinted
<1> HIDE DEF text
<1>7. Len(text) \in Nat
  BY <1>2, LenProperties
<1>8. /\ ~ (len < l) /\ l - 1 = Len(text) /\ len > 0
      /\ Len(text) \in 0..(MemorySize - 1)
  BY <1>3, <1>5, <1>7
<1>9. /\ memory[Len(text)] = "NUL"
      /\ \A i \in 0..(Len(text) - 1) : memory[i] # "NUL" /\ memory[i] = text[i + 1]
  BY <1>6, <1>8
<1>10. Len(text) \in 0..(MemorySize - 1) /\ Ends(Len(text))
  BY <1>8, <1>9
<1>11. ASSUME NEW i \in 0..(MemorySize - 1), Ends(i) PROVE i = Len(text)
  BY <1>3, <1>7, <1>9, <1>11
<1>12. TextEnd = CHOOSE i \in 0..(MemorySize - 1) : Ends(i)
  BY Zenon DEF TextEnd
<1> HIDE DEF Ends
<1>13. TextEnd = Len(text)
  BY <1>10, <1>11, <1>12, Zenon
<1>14. Text = [i \in 1..Len(text) |-> memory[i - 1]]
  BY <1>13, Zenon DEF Text
<1>15. ASSUME NEW i \in 1..Len(text) PROVE memory[i - 1] = text[i]
  <2>1. i - 1 \in 0..(Len(text) - 1) /\ (i - 1) + 1 = i
    BY <1>7
  <2> QED
    BY <1>9, <2>1
<1>16. text = [i \in 1..Len(text) |-> text[i]]
  BY <1>2, LenProperties
<1>17. Text = text
  BY <1>14, <1>15, <1>16, Zenon
<1> QED
  BY <1>17, Zenon DEF text

\* The places of the digits of a layout, in a text that begins with it.
LEMMA LayoutPlaces ==
  ASSUME NEW n \in 0..1, NEW f \in 6..15, NEW s, Layout(s, n, f),
         NEW text \in Seq(Printed), Len(s) <= Len(text),
         \A i \in 1..Len(s) : text[i] = s[i]
  PROVE  LET M == {i \in DOMAIN text : /\ text[i] \in DigitCharacters
                                       /\ \A j \in 1..i : text[j] # "e"}
         IN  /\ Cardinality(M) >= 7
             /\ \A i \in M : (\A j \in M : i <= j) => text[i] # "0"
<1> DEFINE M == {i \in DOMAIN text : /\ text[i] \in DigitCharacters
                                     /\ \A j \in 1..i : text[j] # "e"}
<1>1. /\ Len(s) = (n + f) + 2
      /\ \A i \in 1..n : s[i] = "-"
      /\ \A i \in (n + 1)..((n + f) - 5) : s[i] \in DigitCharacters
      /\ s[n + 1] # "0"
      /\ s[(n + f) - 4] = "."
      /\ \A i \in ((n + f) - 3)..((n + f) + 2) : s[i] \in DigitCharacters
  BY Zenon DEF Layout
<1>2. Len(text) \in Nat /\ DOMAIN text = 1..Len(text)
  BY LenProperties
<1>3. n \in Nat /\ f \in Nat /\ 6 <= f
  OBVIOUS
<1>4. ASSUME NEW i \in 1..((n + f) + 2) PROVE text[i] # "e" /\ i \in DOMAIN text
  <2>1. i \in 1..Len(s) /\ i \in 1..Len(text)
    BY <1>1, <1>2, <1>3
  <2>2. text[i] = s[i]
    BY <2>1
  <2>3. CASE i \in 1..n
    BY <1>1, <1>2, <2>1, <2>2, <2>3
  <2>4. CASE i = (n + f) - 4
    BY <1>1, <1>2, <2>1, <2>2, <2>4
  <2>5. CASE i \in (n + 1)..((n + f) - 5) \/ i \in ((n + f) - 3)..((n + f) + 2)
    <3>1. s[i] \in DigitCharacters
      BY <1>1, <2>5, Zenon
    <3> QED
      BY <1>2, <2>1, <2>2, <3>1, DigitIsNoOther
  <2> QED
    BY <1>3, <2>3, <2>4, <2>5
<1>5. ASSUME NEW i \in 1..((n + f) + 2), s[i] \in DigitCharacters PROVE i \in M
  <2>1. \A j \in 1..i : text[j] # "e"
    <3> SUFFICES ASSUME NEW j \in 1..i PROVE text[j] # "e"
      OBVIOUS
    <3>1. j \in 1..((n + f) + 2)
      BY <1>3
    <3> QED
      BY <1>4, <3>1
  <2>2. text[i] = s[i] /\ i \in DOMAIN text
    BY <1>1, <1>4
  <2> QED
    BY <1>5, <2>1, <2>2, Zenon
<1>6. ASSUME NEW i \in M PROVE i \in Nat /\ text[i] \in DigitCharacters /\ i \in 1..Len(text)
  BY <1>2
<1> DEFINE first == (n + f) - 5
           last  == (n + f) + 2
           point == (n + f) - 4
           K     == (first..last) \ {point}
<1>7. Cardinality(M) >= 7
  <2>1. first \in Int /\ last \in Int /\ ~ (first > last) /\ (last - first) + 1 = 8
        /\ point \in first..last
    BY <1>3
  <2>2. \A i \in K : i \in M
    <3> SUFFICES ASSUME NEW i \in K PROVE i \in M
      OBVIOUS
    <3>1. i \in (n + 1)..((n + f) - 5) \/ i \in ((n + f) - 3)..((n + f) + 2)
      BY <1>3
    <3>2. i \in 1..((n + f) + 2)
      BY <1>3
    <3>3. s[i] \in DigitCharacters
      BY <1>1, <3>1, Zenon
    <3> HIDE DEF M, K
    <3> QED
      BY <1>5, <3>2, <3>3
  <2>3. M \in SUBSET (1..Len(text))
    BY <1>2
  <2> HIDE DEF first, last, point, M
  <2>4. IsFiniteSet(first..last) /\ Cardinality(first..last) = 8
    <3>1. /\ IsFiniteSet(first..last)
          /\ Cardinality(first..last) = IF first > last THEN 0 ELSE last - first + 1
      BY <2>1, FS_Interval, Zenon
    <3> QED
      BY <2>1, <3>1
  <2>5. IsFiniteSet(K) /\ Cardinality(K) = 7
    <3>1. /\ IsFiniteSet(K)
          /\ Cardinality(K) = IF point \in first..last THEN Cardinality(first..last) - 1
                              ELSE Cardinality(first..last)
      BY <2>4, FS_RemoveElement, Zenon
    <3> QED
      BY <2>1, <2>4, <3>1
  <2> HIDE DEF K
  <2>6. IsFiniteSet(1..Len(text))
    BY <1>2, FS_Interval
  <2>7. IsFiniteSet(M)
    BY <2>3, <2>6, FS_Subset, Zenon
  <2>8. K \in SUBSET M
    BY <2>2, Zenon
  <2>9. Cardinality(K) <= Cardinality(M)
    BY <2>7, <2>8, FS_Subset, Zenon
  <2>10. Cardinality(M) \in Nat
    BY <2>7, FS_CardinalityType, Zenon
  <2> QED
    BY <2>5, <2>9, <2>10
<1>8. ASSUME NEW i \in M, \A j \in M : i <= j PROVE text[i] # "0"
  <2>1. n + 1 \in 1..((n + f) + 2) /\ n + 1 \in (n + 1)..((n + f) - 5)
    BY <1>3
  <2>2. s[n + 1] \in DigitCharacters
    BY <1>1, <2>1
  <2>3. n + 1 \in M
    <3> HIDE DEF M
    <3> QED
      BY <1>5, <2>1, <2>2
  <2>4. i <= n + 1
    <3> HIDE DEF M
    <3> QED
      BY <1>8, <2>3
  <2>5. i \in Nat /\ 1 <= i /\ text[i] \in DigitCharacters
    <3> HIDE DEF M
    <3> QED
      BY <1>2, <1>6
  <2>6. i \notin 1..n
    <3> SUFFICES ASSUME i \in 1..n PROVE FALSE
      OBVIOUS
    <3>1. i \in 1..Len(s)
      BY <1>1, <1>3
    <3>2. text[i] = "-"
      BY <1>1, <3>1
    <3> QED
      BY <2>5, <3>2, DigitIsNoOther
  <2>7. i = n + 1
    BY <1>3, <2>4, <2>5, <2>6
  <2>8. n + 1 \in 1..Len(s)
    BY <1>1, <1>3
  <2>9. text[n + 1] = s[n + 1]
    BY <2>8
  <2> QED
    BY <1>1, <2>7, <2>9
<1> QED
  BY <1>7, <1>8, Zenon

\* "Always prints at least 7 significant figures" (springbok.cpp:112), for every value of
\* binary32: the bucket is never more than a power of ten below the value, so that the
\* product by the table and by a million, however they are rounded, keeps seven digits.
THEOREM SevenSignificantDigitsHold == Spec => []SevenSignificantDigits
<1>1. Inv => SevenSignificantDigits
  <2> SUFFICES ASSUME Inv, FullNumber
               PROVE  /\ Cardinality(MantissaPlaces) >= 7
                      /\ \A i \in MantissaPlaces :
                           (\A j \in MantissaPlaces : i <= j) => Text[i] # "0"
    BY Zenon DEF SevenSignificantDigits
  <2> DEFINE text == Characters(value)
  <2>1. Answered /\ needed > 0 /\ len >= needed /\ value.raw < Infinity /\ value.raw > 0
    BY Zenon DEF FullNumber, IsNumber
  <2>2. value \in Patterns
    BY DEF Inv, TypeInv
  <2>3. 0 < value.raw
    BY <2>1, <2>2, PatternFields
  <2>4. Text = text
    BY <2>1, WholeTextStored, Zenon
  <2>5. text \in Seq(Printed)
    BY <2>2, CharactersType, Zenon
  <2>6. PICK n \in 0..1, f \in 6..15, s \in Seq(Printed) :
               /\ Layout(s, n, f)
               /\ text = s \/ \E t \in Seq(Printed) : text = (s \o <<"e">>) \o t
    BY <2>1, <2>2, <2>3, NumberCharacters, Zenon
  <2> HIDE DEF text
  <2>7. Len(s) <= Len(text) /\ \A i \in 1..Len(s) : text[i] = s[i]
    <3>1. Len(s) \in Nat
      BY LenProperties
    <3>2. CASE text = s
      BY <3>1, <3>2
    <3>3. ASSUME NEW t \in Seq(Printed), text = (s \o <<"e">>) \o t
          PROVE  Len(s) <= Len(text) /\ \A i \in 1..Len(s) : text[i] = s[i]
      <4> DEFINE e == <<"e">>
      <4>1. e \in Seq(Printed) /\ Len(e) = 1
        BY DEF Printed
      <4> HIDE DEF e
      <4> DEFINE x == s \o e
      <4>2. /\ x \in Seq(Printed) /\ Len(x) \in Nat /\ Len(x) = Len(s) + Len(e)
            /\ \A i \in 1..Len(s) : x[i] = s[i]
        <5>1. /\ x \in Seq(Printed) /\ Len(x) = Len(s) + Len(e)
              /\ \A i \in 1..Len(s) : x[i] = s[i]
          BY <4>1, Begins, Zenon
        <5> HIDE DEF x
        <5> QED
          BY <5>1, LenProperties
      <4> HIDE DEF x
      <4>3. /\ Len(x \o t) = Len(x) + Len(t) /\ Len(t) \in Nat
            /\ \A i \in 1..Len(x) : (x \o t)[i] = x[i]
        BY <4>2, Begins, Zenon
      <4>4. text = x \o t
        BY <3>3, Zenon DEF x, e
      <4>5. Len(s) <= Len(text)
        BY <3>1, <4>1, <4>2, <4>3, <4>4
      <4>6. ASSUME NEW i \in 1..Len(s) PROVE text[i] = s[i]
        <5>1. i \in 1..Len(x)
          BY <3>1, <4>1, <4>2
        <5> QED
          BY <4>2, <4>3, <4>4, <5>1
      <4> QED
        BY <4>5, <4>6
    <3> QED
      BY <2>6, <3>2, <3>3, Zenon
  <2> DEFINE M == {i \in DOMAIN text : /\ text[i] \in DigitCharacters
                                       /\ \A j \in 1..i : text[j] # "e"}
  <2>8. /\ Cardinality(M) >= 7
        /\ \A i \in M : (\A j \in M : i <= j) => text[i] # "0"
    BY <2>5, <2>6, <2>7, LayoutPlaces, Zenon
  <2>9. MantissaPlaces = M
    BY <2>4, Zenon DEF MantissaPlaces
  <2> HIDE DEF M
  <2> QED
    BY <2>4, <2>8, <2>9, Zenon
<1> QED
  BY <1>1, Invariant, PTL
=============================================================================
