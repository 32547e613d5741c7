------------------------------- MODULE Money --------------------------------
(***************************************************************************)
(* Money as a decimal string and as whole cents (src/lib/money.ts).  A     *)
(* string the pattern lets through is its sign, the number its digits      *)
(* before the point make, and the digits after it, none to two.            *)
(***************************************************************************)
EXTENDS Integers, Sequences

CONSTANT MaxWhole   \* the largest number twelve digits make, or a bound below it

ASSUME MoneyAssumption == MaxWhole \in Nat

Digit == 0..9
Fractions == {<<>>} \cup {<<d>> : d \in Digit} \cup {<<d, e>> : d, e \in Digit}
MoneyStrings == [negative : BOOLEAN, whole : 0..MaxWhole, fraction : Fractions]

NumberOfDigits(f) == IF Len(f) = 0 THEN 0 ELSE IF Len(f) = 1 THEN f[1] ELSE 10 * f[1] + f[2]

(* fraction.padEnd(2, '0')                                                 *)
Padded(f) == IF Len(f) = 0 THEN <<0, 0>> ELSE IF Len(f) = 1 THEN <<f[1], 0>> ELSE f

DecimalToCents(s) ==
  LET cents == s.whole * 100 + NumberOfDigits(Padded(s.fraction))
  IN IF s.negative THEN -cents ELSE cents

(* The fraction is padded on the left here: '5' is five cents.             *)
CentsToDecimal(cents) ==
  LET absolute == IF cents < 0 THEN -cents ELSE cents
      fraction == absolute % 100
  IN [negative |-> cents < 0,
      whole |-> absolute \div 100,
      fraction |-> <<fraction \div 10, fraction % 10>>]

-----------------------------------------------------------------------------
(* Cents come back from the string they are written as, which the pattern  *)
(* lets through; "-0.05" keeps its sign (money.ts:57-69).                  *)
CentsSurvive ==
  \A cents \in -(100 * MaxWhole + 99)..(100 * MaxWhole + 99) :
    /\ CentsToDecimal(cents) \in MoneyStrings
    /\ DecimalToCents(CentsToDecimal(cents)) = cents

(* A string comes back with the same whole part, its fraction written in   *)
(* full ("1.5" is "1.50", never 15 cents), and its sign unless it is a     *)
(* zero (money.ts:49-69).                                                  *)
StringsSurvive ==
  \A s \in MoneyStrings :
    LET back == CentsToDecimal(DecimalToCents(s))
    IN /\ back.whole = s.whole
       /\ \A i \in 1..2 : back.fraction[i] = IF i <= Len(s.fraction) THEN s.fraction[i] ELSE 0
       /\ back.negative = s.negative \/ DecimalToCents(s) = 0
=============================================================================
