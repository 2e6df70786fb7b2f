----------------------------- MODULE TaxNumbers -----------------------------
(***************************************************************************)
(* factura/tax/nif-validation.ts: the offline check of VAT numbers. A      *)
(* number is a country and its body, a sequence of characters; the digits  *)
(* are 0..9 and the letters A..Z are 10..35.                               *)
(***************************************************************************)
EXTENDS Integers, Sequences

CONSTANTS
  Country,    \* the countries of the numbers to be tried
  Digit,      \* the digits the numbers to be tried are made of, their check characters apart
  Key         \* the two characters a French number begins with, when they are letters

VARIABLES
  meant,      \* the number on the paper: [country, body]
  number      \* the number as it is typed

Digits  == 0..9
Letters == 10..35
AllDigits(b, from, to) == \A i \in from..to : b[i] \in Digits
A == 10
J == 19
W == 32

\* The sum of f over 1..n, and the digits from..to of b read as a number, modulo m.
Sum(n, f(_)) == LET s[i \in 0..n] == IF i = 0 THEN 0 ELSE s[i - 1] + f(i) IN s[n]
NumberMod(b, from, to, m) == LET v[i \in (from - 1)..to] == IF i < from THEN 0 ELSE (10 * v[i - 1] + b[i]) % m IN v[to]

Doubled(d) == IF 2 * d > 9 THEN 2 * d - 9 ELSE 2 * d

-----------------------------------------------------------------------------
(* Ireland: seven digits, the check letter, perhaps one letter more, which *)
(* counts as well.                                                         *)
LetterIE(k) == IF k = 0 THEN W ELSE A + k - 1

ValidIE(b) ==
  /\ Len(b) \in {8, 9} /\ AllDigits(b, 1, 7) /\ b[8] \in A..W
  /\ Len(b) = 9 => b[9] \in Letters
  /\ LET s == Sum(7, LAMBDA i : b[i] * (9 - i)) IN
       b[8] = LetterIE((s + (IF Len(b) = 9 THEN (b[9] - A + 1) * 9 ELSE 0)) % 23)

(* Spain: the letter of a DNI by the remainder of its digits, of a NIE     *)
(* with X, Y, Z for 0, 1, 2; the control of a CIF, a digit or a letter.    *)
LettersDNI == <<29, 27, 32, 10, 16, 22, 34, 15, 25, 13, 33, 11, 23, 19, 35, 28, 26, 31, 17, 21, 12, 20, 14>>

ValidDNI(b) == b[9] = LettersDNI[NumberMod(b, 1, 8, 23) + 1]
ValidNIE(b) == ValidDNI([b EXCEPT ![1] = @ - 33])

ControlCIF(b) == (10 - (Sum(7, LAMBDA i : IF i % 2 = 1 THEN Doubled(b[i + 1]) ELSE b[i + 1]) % 10)) % 10

ValidCIF(b) ==
  /\ b[1] \notin {18, 20, 21, 22, 24, 29, 33, 34, 35}
  /\ LET c == ControlCIF(b) IN b[9] \in {c, IF c = 0 THEN J ELSE A + c - 1}

ValidES(b) ==
  /\ Len(b) = 9 /\ AllDigits(b, 2, 8)
  /\ \/ b[1] \in Digits /\ b[9] \in Letters /\ ValidDNI(b)
     \/ b[1] \in {33, 34, 35} /\ b[9] \in Letters /\ ValidNIE(b)
     \/ b[1] \in Letters \ {33, 34, 35} /\ b[9] \in Digits \cup A..J /\ ValidCIF(b)

\* Portugal: the remainders 0 and 1 share the check digit 0.
ValidPT(b) ==
  /\ Len(b) = 9 /\ AllDigits(b, 1, 9)
  /\ LET c == 11 - (Sum(8, LAMBDA i : b[i] * (10 - i)) % 11) IN b[9] = IF c >= 10 THEN 0 ELSE c

\* Italy: every other digit doubled, from the second one on.
ValidITFromFirst(b) ==
  /\ Len(b) = 11 /\ AllDigits(b, 1, 11)
  /\ b[11] = (10 - (Sum(10, LAMBDA i : IF i % 2 = 0 THEN 2 * b[i] ELSE b[i]) % 10)) % 10

ValidIT(b) ==
  /\ Len(b) = 11 /\ AllDigits(b, 1, 11)
  /\ b[11] = (10 - (Sum(10, LAMBDA i : IF i % 2 = 0 THEN Doubled(b[i]) ELSE b[i]) % 10)) % 10

\* Bulgaria: the check digit of nine digits decides nothing but the reason that is given.
ValidBG(b) == Len(b) \in {9, 10} /\ AllDigits(b, 1, Len(b))

\* Germany: ISO 7064, the product carried from digit to digit.
ValidDE(b) ==
  /\ Len(b) = 9 /\ AllDigits(b, 1, 9)
  /\ LET p[i \in 0..8] == IF i = 0 THEN 10
                          ELSE LET s == (b[i] + p[i - 1]) % 10 IN (2 * (IF s = 0 THEN 10 ELSE s)) % 11 IN
       b[9] = (11 - p[8]) % 10

\* France: nine digits that pass Luhn's test, and their remainder as the key unless the key has letters.
Luhn(r) == Sum(9, LAMBDA i : IF i % 2 = 0 THEN Doubled(r[i]) ELSE r[i]) % 10 = 0
KeyFR(r) == LET k == (12 + 3 * NumberMod(r, 1, 9, 97)) % 97 IN <<k \div 10, k % 10>>

ValidFR(b) ==
  /\ Len(b) = 11 /\ AllDigits(b, 3, 11) /\ Luhn(SubSeq(b, 3, 11))
  /\ AllDigits(b, 1, 2) => SubSeq(b, 1, 2) = KeyFR(SubSeq(b, 3, 11))

\* The other members of the Union: two to twelve characters.
Valid(n) ==
  CASE n.country = "IE" -> ValidIE(n.body)
    [] n.country = "ES" -> ValidES(n.body)
    [] n.country = "PT" -> ValidPT(n.body)
    [] n.country = "IT" -> ValidIT(n.body)
    [] n.country = "BG" -> ValidBG(n.body)
    [] n.country = "DE" -> ValidDE(n.body)
    [] n.country = "FR" -> ValidFR(n.body)
    [] OTHER -> Len(n.body) \in 2..12

-----------------------------------------------------------------------------
(* A correct number is typed, then one of its characters comes out wrong.  *)
Strings(n) == [1..n -> Digit]

Bodies(c) ==
  CASE c = "IE" -> {s \o t : s \in Strings(7), t \in {<<x>> : x \in A..W} \cup {<<x, y>> : x \in A..W, y \in {A, 18, 33}}}
    [] c = "ES" -> {s \o <<x>> : s \in {<<h>> \o t : h \in Digit \cup {11, 34}, t \in Strings(7)}, x \in Digits \cup Letters}
    [] c \in {"PT", "DE"} -> {s \o <<x>> : s \in Strings(8), x \in Digits}
    [] c = "IT" -> {s \o <<x>> : s \in Strings(10), x \in Digits}
    [] OTHER -> UNION {{k \o r : k \in {KeyFR(r)} \cup Key} : r \in {s \o <<x>> : s \in Strings(8), x \in Digits}}

NInit ==
  /\ \E c \in Country : \E b \in Bodies(c) : meant = [country |-> c, body |-> b]
  /\ Valid(meant) /\ number = meant

\* A digit for a digit, a letter for a letter.
Mistype ==
  /\ number = meant
  /\ \E i \in 1..Len(meant.body) : \E x \in IF meant.body[i] \in Digits THEN Digits ELSE Letters :
       number' = [meant EXCEPT !.body[i] = x]
  /\ UNCHANGED meant

NNext == Mistype

-----------------------------------------------------------------------------
(* The characters the check covers: not the letter a Spanish number begins *)
(* with, which may stand for the kind of entity, not the letters of a      *)
(* French key, not the second letter of an Irish number (weighed modulo    *)
(* 23, which is less than the alphabet), and not the digits of a           *)
(* Portuguese number whose check digit is 0.                               *)
Covered(i) ==
  CASE meant.country = "ES" -> ~(i = 1 /\ meant.body[1] \in Letters)
    [] meant.country = "FR" -> ~(i \in 1..2 /\ meant.body[i] \in Letters)
    [] meant.country = "IE" -> i # 9
    [] meant.country = "PT" -> meant.body[9] # 0 \/ i = 9
    [] OTHER -> TRUE

(* One wrong character in a number that has a check character is found.    *)
MistypedIsFound == \A i \in 1..Len(meant.body) : number.body[i] # meant.body[i] /\ Covered(i) => ~Valid(number)
=============================================================================
