---------------------------- MODULE DecimalOrder ----------------------------
(***************************************************************************)
(* The order that DecimalText states in arithmetic, as the driver and      *)
(* JavaScript make it: both values are rendered, and the characters of     *)
(* their texts compared.                                                   *)
(***************************************************************************)
EXTENDS DecimalText, Sequences

(* The values of a DECIMAL(15,2) column, in cents.                         *)
Decimals == {c \in Int : -100 * TenTo[13] < c /\ c < 100 * TenTo[13]}

(* Character codes: '-' is 45, '.' is 46, '0' is 48.                       *)
DigitChars[n \in Nat] ==
  (IF n < 10 THEN <<>> ELSE DigitChars[n \div 10]) \o <<48 + (n % 10)>>

Unsigned(cents) ==
  DigitChars[Euros(cents)]
    \o <<46, 48 + (cents % 100) \div 10, 48 + (cents % 10)>>

Text(cents) == IF cents < 0 THEN <<45>> \o Unsigned(-cents) ELSE Unsigned(cents)

(* Less as JavaScript defines it on strings: at the first place where they *)
(* differ the smaller character decides, and a proper prefix is less.      *)
CharLess(s, t) ==
  \/ \E i \in DOMAIN s \cap DOMAIN t :
       s[i] < t[i] /\ \A j \in 1..(i - 1) : s[j] = t[j]
  \/ Len(s) < Len(t) /\ \A j \in DOMAIN s : s[j] = t[j]
=============================================================================
