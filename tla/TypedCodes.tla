------------------------------- MODULE TypedCodes -------------------------------
\* What the user types into two fields and both sides of the program read: barcodes, whose
\* check digit the page (src/js/common/product-lookup.js) and the server (Gtin.php) compute
\* each on their own, and amounts of money (src/js/common/money-input.js).
EXTENDS Integers, Sequences, SequencesExt
CONSTANTS
  Digits,    \* those typed into a barcode of eight digits
  Chars,     \* those typed into an amount: digits, Point and Comma
  MaxText    \* bound: the length of an amount
Point == 10
Comma == 11
TypedAssumption == /\ Digits \subseteq 0..9 /\ Chars \subseteq 0..9 \cup {Point, Comma}
                   /\ MaxText \in 1..4

VARIABLES
  field,     \* the field that is typed into
  barcode,   \* eight digits
  amount     \* the text of an amount
typedVars == <<field, barcode, amount>>

Length == 8
DigitChars == Chars \ {Point, Comma}
TypeOK == /\ field \in {"barcode", "amount"} /\ barcode \in [1..Length -> 0..9]
          /\ \A i \in DOMAIN amount : amount[i] \in Chars
          /\ Len(amount) <= MaxText

TypedInit == /\ field \in {"barcode", "amount"}
             /\ barcode = [i \in 1..Length |-> 0] /\ amount = <<>>
TypeDigit(i, d) ==
  /\ field = "barcode" /\ barcode[i] # d
  /\ barcode' = [barcode EXCEPT ![i] = d] /\ UNCHANGED <<field, amount>>
TypeChar(c) ==
  /\ field = "amount" /\ Len(amount) < MaxText
  /\ amount' = Append(amount, c) /\ UNCHANGED <<field, barcode>>
Erase == amount # <<>> /\ amount' = Front(amount) /\ UNCHANGED <<field, barcode>>
TypedNext == (\E i \in 1..Length, d \in Digits : TypeDigit(i, d))
             \/ (\E c \in Chars : TypeChar(c)) \/ Erase
TypedSpec == TypedInit /\ [][TypedNext]_typedVars

--------------------------------------------------------------------------------
Sum(summands) == FoldLeft(LAMBDA t, s : t + s, 0, summands)

\* hasValidCheckDigit of the page: the i-th data digit from the right weighs 3, 1, 3, ...
\* Broken variant: the check digit is taken without its last remainder.
HasValidCheckDigitTen(code) ==
  LET n == Len(code)
      sum == Sum([i \in 1..(n - 1) |-> code[n - i] * (IF i % 2 = 1 THEN 3 ELSE 1)])
  IN code[n] = 10 - (sum % 10)
HasValidCheckDigit(code) ==
  LET n == Len(code)
      sum == Sum([i \in 1..(n - 1) |-> code[n - i] * (IF i % 2 = 1 THEN 3 ELSE 1)])
  IN code[n] = (10 - (sum % 10)) % 10

\* money-input.js parse: Empty, NoAmount, or cents.  One or two decimals, after a point or a
\* comma; one decimal is tenths.
Empty == -1
NoAmount == -2
Number(text) == FoldLeft(LAMBDA t, d : 10 * t + d, 0, text)
IsDigits(text, least, most) ==
  Len(text) \in least..most /\ \A i \in DOMAIN text : text[i] \in DigitChars
Marks(text) == {i \in DOMAIN text : text[i] \in {Point, Comma}}
\* Broken variant: one decimal counts as cents.
ParseUnpadded(text) ==
  IF text = <<>> THEN Empty
  ELSE IF IsDigits(text, 1, 9) THEN 100 * Number(text)
  ELSE LET good == {i \in Marks(text) : /\ IsDigits(SubSeq(text, 1, i - 1), 1, 9)
                                        /\ IsDigits(SubSeq(text, i + 1, Len(text)), 1, 2)}
       IN IF good = {} THEN NoAmount
          ELSE LET i == CHOOSE j \in good : TRUE
               IN 100 * Number(SubSeq(text, 1, i - 1)) + Number(SubSeq(text, i + 1, Len(text)))
Parse(text) ==
  IF text = <<>> THEN Empty
  ELSE IF IsDigits(text, 1, 9) THEN 100 * Number(text)
  ELSE LET good == {i \in Marks(text) : /\ IsDigits(SubSeq(text, 1, i - 1), 1, 9)
                                        /\ IsDigits(SubSeq(text, i + 1, Len(text)), 1, 2)}
       IN IF good = {} THEN NoAmount
          ELSE LET i == CHOOSE j \in good : TRUE
                   frac == SubSeq(text, i + 1, Len(text))
               IN 100 * Number(SubSeq(text, 1, i - 1))
                  + Number(frac) * (IF Len(frac) = 1 THEN 10 ELSE 1)

\* toInput: the text a field is filled with again, with a point and two decimals.
DigitsOf(n) == IF n < 10 THEN <<n>> ELSE IF n < 100 THEN <<n \div 10, n % 10>>
               ELSE IF n < 1000 THEN <<n \div 100, (n \div 10) % 10, n % 10>>
               ELSE <<n \div 1000, (n \div 100) % 10, (n \div 10) % 10, n % 10>>
ToInput(cents) ==
  DigitsOf(cents \div 100) \o <<Point, (cents \div 10) % 10, cents % 10>>

--------------------------------------------------------------------------------
\* Properties.

\* Gtin.php's rule, read from the left: the page "Mirrors ... hasValidCheckDigit exactly"
\* (product-lookup.js:44), and the weighted sum of all digits is a multiple of ten.
MirrorsTheServer ==
  HasValidCheckDigit(barcode) <=>
    Sum([i \in 1..Length |-> barcode[i] * (IF i % 2 = 1 THEN 3 ELSE 1)]) % 10 = 0

\* An amount is not read as a hundred, or ten, times another: as many hundredths as the text
\* says, and a field filled with it again is read the same.
AmountIsRead ==
  LET cents == Parse(amount)
      i == CHOOSE j \in Marks(amount) : TRUE
      digits == Number(SelectSeq(amount, LAMBDA c : c \in DigitChars))
      decimals == IF Marks(amount) = {} THEN 0 ELSE Len(amount) - i
  IN cents >= 0 => /\ cents * (CASE decimals = 0 -> 1 [] decimals = 1 -> 10 [] OTHER -> 100)
                      = 100 * digits
                   /\ Parse(ToInput(cents)) = cents
================================================================================
