---------------------------- MODULE MoneyProofs -----------------------------
(***************************************************************************)
(* The conversions of module Money are inverse to each other, whatever the *)
(* number of digits.                                                       *)
(***************************************************************************)
EXTENDS Money, TLAPS

(* Division by 100 and by 10 takes a number of cents apart, and digits put *)
(* it together again.                                                      *)
LEMMA TakeApart ==
  ASSUME NEW n \in Nat
  PROVE  /\ n \div 100 \in Nat /\ n % 100 \in 0..99 /\ n = 100 * (n \div 100) + (n % 100)
         /\ \A f \in 0..99 : f \div 10 \in Digit /\ f % 10 \in Digit
                             /\ f = 10 * (f \div 10) + (f % 10)
BY DEF Digit

(* A fraction written in full stands for its two digits.                   *)
LEMMA TwoDigits ==
  ASSUME NEW d \in Digit, NEW e \in Digit
  PROVE  /\ <<d, e>> \in Fractions
         /\ Padded(<<d, e>>) = <<d, e>>
         /\ NumberOfDigits(<<d, e>>) = 10 * d + e
         /\ 10 * d + e \in 0..99
         /\ (10 * d + e) \div 10 = d /\ (10 * d + e) % 10 = e
BY DEF Fractions, Padded, NumberOfDigits, Digit

(* Cents come back from the string they are written as: CentsSurvive, for  *)
(* any number of digits before the point (money.ts:57-69).                 *)
THEOREM CentsComeBack == CentsSurvive
<1> SUFFICES ASSUME NEW cents \in -(100 * MaxWhole + 99)..(100 * MaxWhole + 99)
             PROVE  /\ CentsToDecimal(cents) \in MoneyStrings
                    /\ DecimalToCents(CentsToDecimal(cents)) = cents
  BY DEF CentsSurvive
<1> DEFINE absolute == IF cents < 0 THEN -cents ELSE cents
           fraction == absolute % 100
           s == CentsToDecimal(cents)
<1>0. cents \in Int /\ MaxWhole \in Nat
  BY MoneyAssumption
<1>1. absolute \in 0..(100 * MaxWhole + 99)
  BY <1>0
<1>2. /\ absolute \div 100 \in Nat /\ fraction \in 0..99
      /\ absolute = 100 * (absolute \div 100) + fraction
      /\ fraction \div 10 \in Digit /\ fraction % 10 \in Digit
      /\ fraction = 10 * (fraction \div 10) + (fraction % 10)
  BY <1>0, <1>1, TakeApart
<1> HIDE DEF absolute, fraction
<1>3. absolute \div 100 \in 0..MaxWhole
  BY <1>0, <1>1, <1>2
<1>4. s = [negative |-> cents < 0, whole |-> absolute \div 100,
           fraction |-> <<fraction \div 10, fraction % 10>>]
  BY DEF CentsToDecimal, absolute, fraction
<1>5. /\ s.fraction \in Fractions /\ Padded(s.fraction) = s.fraction
      /\ NumberOfDigits(s.fraction) = fraction
  BY <1>2, <1>4, TwoDigits
<1>6. s \in MoneyStrings
  BY <1>3, <1>4, <1>5 DEF MoneyStrings
<1>7. DecimalToCents(s) = IF cents < 0 THEN -absolute ELSE absolute
  <2>1. s.negative = (cents < 0) /\ s.whole = absolute \div 100
    BY <1>4
  <2>2. s.whole * 100 + NumberOfDigits(Padded(s.fraction)) = absolute
    BY <1>2, <1>5, <2>1
  <2> QED BY <2>1, <2>2 DEF DecimalToCents
<1> QED
  BY <1>0, <1>6, <1>7 DEF absolute

(* A string comes back with its whole part, its fraction in full, and its  *)
(* sign unless it is a zero: StringsSurvive, for any number of digits      *)
(* before the point (money.ts:49-69).                                      *)
THEOREM StringsComeBack == StringsSurvive
<1> SUFFICES ASSUME NEW s \in MoneyStrings
             PROVE  LET back == CentsToDecimal(DecimalToCents(s))
                    IN /\ back.whole = s.whole
                       /\ \A i \in 1..2 :
                            back.fraction[i] = IF i <= Len(s.fraction) THEN s.fraction[i] ELSE 0
                       /\ back.negative = s.negative \/ DecimalToCents(s) = 0
  BY DEF StringsSurvive
<1> DEFINE back == CentsToDecimal(DecimalToCents(s))
<1> DEFINE Full(d, e) ==
             /\ Padded(s.fraction) = <<d, e>>
             /\ \A i \in 1..2 : <<d, e>>[i] = IF i <= Len(s.fraction) THEN s.fraction[i] ELSE 0
<1>1. PICK d \in Digit, e \in Digit : Full(d, e)
  <2>1. s.fraction \in Fractions
    BY DEF MoneyStrings
  <2>2. CASE s.fraction = <<>>
    <3>1. Len(s.fraction) = 0 /\ 0 \in Digit
      BY <2>2 DEF Digit
    <3> QED BY <3>1 DEF Padded
  <2>3. ASSUME NEW a \in Digit, s.fraction = <<a>>
        PROVE  \E d \in Digit, e \in Digit : Full(d, e)
    <3>1. Len(s.fraction) = 1 /\ s.fraction[1] = a /\ 0 \in Digit
      BY <2>3 DEF Digit
    <3>2. Padded(s.fraction) = <<a, 0>>
      BY <3>1 DEF Padded
    <3> QED BY <3>1, <3>2
  <2>4. ASSUME NEW a \in Digit, NEW b \in Digit, s.fraction = <<a, b>>
        PROVE  \E d \in Digit, e \in Digit : Full(d, e)
    <3>1. Len(s.fraction) = 2 /\ s.fraction[1] = a /\ s.fraction[2] = b
      BY <2>4
    <3>2. Padded(s.fraction) = <<a, b>>
      BY <2>4, <3>1 DEF Padded
    <3> QED BY <3>1, <3>2
  <2>5. \/ s.fraction = <<>>
        \/ \E a \in Digit : s.fraction = <<a>>
        \/ \E a \in Digit, b \in Digit : s.fraction = <<a, b>>
    BY <2>1 DEF Fractions
  <2> HIDE DEF Full
  <2> QED BY <2>2, <2>3, <2>4, <2>5
<1> DEFINE n == s.whole * 100 + (10 * d + e)
<1>2. /\ s.whole \in Nat /\ s.negative \in BOOLEAN
      /\ NumberOfDigits(Padded(s.fraction)) = 10 * d + e /\ 10 * d + e \in 0..99
      /\ (10 * d + e) \div 10 = d /\ (10 * d + e) % 10 = e
  BY <1>1, TwoDigits, MoneyAssumption DEF MoneyStrings
<1>3. n \in Nat /\ n \div 100 = s.whole /\ n % 100 = 10 * d + e
  BY <1>2
<1>4. DecimalToCents(s) = IF s.negative THEN -n ELSE n
  BY <1>2 DEF DecimalToCents
<1> HIDE DEF n
<1>5. (IF DecimalToCents(s) < 0 THEN -DecimalToCents(s) ELSE DecimalToCents(s)) = n
  BY <1>2, <1>3, <1>4
<1>6. back = [negative |-> DecimalToCents(s) < 0, whole |-> s.whole, fraction |-> <<d, e>>]
  BY <1>2, <1>3, <1>5 DEF CentsToDecimal
<1>7. back.negative = s.negative \/ DecimalToCents(s) = 0
  <2>1. back.negative = (DecimalToCents(s) < 0)
    BY <1>6
  <2> HIDE DEF back
  <2>2. CASE s.negative
    <3>1. DecimalToCents(s) < 0 \/ DecimalToCents(s) = 0
      BY <1>3, <1>4, <2>2
    <3> QED BY <1>2, <2>1, <2>2, <3>1
  <2>3. CASE ~s.negative
    <3>1. ~(DecimalToCents(s) < 0)
      BY <1>3, <1>4, <2>3
    <3> QED BY <1>2, <2>1, <2>3, <3>1
  <2> QED BY <2>2, <2>3
<1> QED BY <1>1, <1>6, <1>7
=============================================================================
