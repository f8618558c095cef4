----------------------------- MODULE DecimalText -----------------------------
(***************************************************************************)
(* The comparison the funds checks make.                                   *)
(*                                                                         *)
(* accounts.balance and transactions.amount are DECIMAL(15,2) columns, and *)
(* the mysql2 driver hands a DECIMAL to JavaScript as text ("1000.00").    *)
(* The relational operator < of JavaScript compares two strings character  *)
(* by character, so `balance < amount` is an order on texts.  This module  *)
(* states that order on the values themselves, counted in cents, without   *)
(* rendering them: the characters that can meet are '-', '.' and digits,   *)
(* in that order of their codes.                                           *)
(***************************************************************************)
EXTENDS Integers

(* Whole euros of a non-negative amount of cents, the part before the dot. *)
Euros(cents) == cents \div 100

(* DECIMAL(15,2) leaves thirteen digits before the dot.                    *)
TenTo[k \in 0..13] == IF k = 0 THEN 1 ELSE 10 * TenTo[k - 1]

Digits(n) == CHOOSE k \in 1..13 : n < TenTo[k] /\ \A j \in 1..(k - 1) : TenTo[j] <= n

(* The k leading digits of n, for k at most Digits(n).                     *)
Leading(n, k) == n \div TenTo[Digits(n) - k]

(***************************************************************************)
(* The text of a is less than the text of b, both non-negative.  With as   *)
(* many digits before the dot the order is numeric.  Otherwise the shorter *)
(* number meets the leading digits of the longer one, and if these agree   *)
(* its dot meets a digit, and a dot is the smaller character.              *)
(***************************************************************************)
UnsignedTextLess(a, b) ==
  LET m == Euros(a)
      n == Euros(b)
  IN  \/ Digits(m) = Digits(n) /\ a < b
      \/ Digits(m) < Digits(n) /\ m <= Leading(n, Digits(m))
      \/ Digits(m) > Digits(n) /\ Leading(m, Digits(n)) < n

(* Mutant of TextLess: the order of the numbers.                           *)
NumericLess(a, b) == a < b

(* A minus sign is less than any digit, and two minus signs are equal.     *)
TextLess(a, b) ==
  \/ a < 0 /\ b >= 0
  \/ a >= 0 /\ b >= 0 /\ UnsignedTextLess(a, b)
  \/ a < 0 /\ b < 0 /\ UnsignedTextLess(-a, -b)

(* The values a DECIMAL(15,2) column with this largest value can store; an *)
(* UPDATE or INSERT of any other value is refused by the server.           *)
Storable(cents, largest) == -largest <= cents /\ cents <= largest
=============================================================================
