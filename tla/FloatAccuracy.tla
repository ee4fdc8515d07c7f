--------------------------- MODULE FloatAccuracy ---------------------------
(***************************************************************************)
(* What the number printed by float_to_str says, against the value it was  *)
(* given.  The two are compared exactly, as whole numbers of up to 72      *)
(* decimal digits, for TLC: the recursion below and the folds over those   *)
(* numbers are kept out of FloatToStr, whose other properties are proved.  *)
(***************************************************************************)
EXTENDS FloatToStr, SequencesExt

(* What a text says: the sign, the digits in front of the exponent, those  *)
(* behind the point and the exponent.                                      *)
DigitValue(character) == CHOOSE d \in 0..9 : DigitText[d + 1] = character
NumberOf(text) ==
  FoldLeft(LAMBDA n, character : n * 10 + DigitValue(character), 0, text)
IsDigit(character) == character \in DigitCharacters

Unsigned(text) == SelectSeq(text, LAMBDA character : character # "-")
Position(text, character) ==
  IF Contains(text, character)
  THEN CHOOSE i \in DOMAIN text : text[i] = character
  ELSE Len(text) + 1

Mantissa(text)       == SubSeq(text, 1, Position(text, "e") - 1)
MantissaDigits(text) == SelectSeq(Mantissa(text), IsDigit)
PlacesBehindPoint(text) ==
  Len(Mantissa(text)) - Position(Mantissa(text), ".")
Exponent(text) ==
  LET tail == SubSeq(text, Position(text, "e") + 1, Len(text))
  IN  CASE tail = <<>>      -> 0
        [] tail[1] = "-"    -> -NumberOf(Tail(tail))
        [] OTHER            -> NumberOf(tail)

(* Large integers: limbs of six decimal digits, the lowest first; Limbs of *)
(* them hold every number compared.                                        *)
Limbs == 12
TimesPlus(n, factor, summand) ==
  FoldLeft(LAMBDA sum, limb :
             [limbs |-> Append(sum.limbs, (limb * factor + sum.carry) % 1000000),
              carry |-> (limb * factor + sum.carry) \div 1000000],
           [limbs |-> <<>>, carry |-> summand], n).limbs
Zero == [i \in 1..Limbs |-> 0]
(* n * base^k, chunk powers at a time; n for a negative k *)
RECURSIVE TimesPower(_, _, _, _)
TimesPower(n, base, chunk, k) ==
  CASE k <= 0     -> n
    [] k > chunk  -> TimesPower(TimesPlus(n, base^chunk, 0), base, chunk, k - chunk)
    [] OTHER      -> TimesPlus(n, base^k, 0)
TimesTen(n, k) == TimesPower(n, 10, 3, k)
TimesTwo(n, k) == TimesPower(n, 2, 10, k)
Decimal(text) ==
  FoldLeft(LAMBDA n, character : TimesPlus(n, 10, DigitValue(character)), Zero, text)
AtMost(m, n) == \/ m = n
                \/ \E i \in 1..Limbs : /\ m[i] < n[i]
                                      /\ \A j \in (i + 1)..Limbs : m[j] = n[j]

(* number * 10^ten and sig * 2^exp, both times the same factor, which      *)
(* makes them whole                                                        *)
ScaledDecimal(number, ten, float) ==
  TimesTwo(TimesTen(number, ten), -float.exp)
ScaledFloat(float, ten) ==
  TimesTwo(TimesTen(TimesPlus(Zero, 1, float.sig), -ten), float.exp)

(* The error allowed: two units of the seventh digit. *)
Tolerance(digits) == 2 * 10^(Len(digits) - 7)

-----------------------------------------------------------------------------

(* The number printed is the value, to two units of its seventh digit, and *)
(* has its sign: the truncation of the last place and the roundings of the *)
(* table entry and of the two products add up to less.                     *)
Accurate ==
  FullNumber =>
    LET text   == Text
        ten    == Exponent(text) - PlacesBehindPoint(text)
        digits == MantissaDigits(text)
        number == Decimal(digits)
        float  == Unpack(value.raw)
        exact  == ScaledFloat(float, ten)
        Shifted(k) == ScaledDecimal(TimesPlus(number, 1, k), ten, float)
    IN  /\ (text[1] = "-") <=> value.negative
        /\ AtMost(Shifted(-Tolerance(digits)), exact)
        /\ AtMost(exact, Shifted(Tolerance(digits)))

(* "provide a value in the range of [1, 10)" and "a signed 1.6 decimal     *)
(* fixed-point value" (springbok.cpp:222, 225): one digit stands in front  *)
(* of the point of a number in scientific notation.                        *)
OneDigitInFront ==
  FullNumber /\ ~Fixed(value) => Position(Unsigned(Mantissa(Text)), ".") = 2
=============================================================================
