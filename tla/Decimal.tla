-------------------------------- MODULE Decimal --------------------------------
(***************************************************************************)
(* decimal.Parse (decimal/decimal.go) and the two helpers of               *)
(* handleUpdateInvoice (httpapi/review.go) that turn a form field into an  *)
(* amount of cents.                                                        *)
(*                                                                         *)
(* A text is a sequence of characters: the digits 0 .. 9 and the five      *)
(* named below.  Letters ("1e3", "inf") do not occur in the texts here.    *)
(***************************************************************************)
EXTENDS Integers, Sequences, SequencesExt

CONSTANT Nil    \* a NULL column, a nil pointer

ASSUME NilAssumption == Nil \notin Int

Amount == Int \cup {Nil}

Comma == 10
Dot   == 11
Space == 12
Apostrophe == 13
Minus == 14

Char == 0 .. 14

Occurrences(t, c) == Cardinality({n \in DOMAIN t : t[n] = c})

\* What is left of the first n characters, for every n.
Left(t, c) ==
  LET left[n \in 0 .. Len(t)] ==
        IF n = 0 THEN <<>>
        ELSE IF t[n] = c THEN left[n - 1] ELSE Append(left[n - 1], t[n])
  IN  left

Without(t, c) == Left(t, c)[Len(t)]

\* Mutant: a lone separator is a decimal separator whatever follows it.
LoneIsDecimal(t, c) ==
  IF Occurrences(t, c) = 1 THEN ReplaceAll(t, c, Dot) ELSE Without(t, c)

\* With one kind of separator, a lone one that three characters follow groups
\* thousands, any other lone one is the decimal separator, and several group.
NormalizeSingleSeparator(t, c) ==
  LET trailing == Len(t) - SelectInSeq(t, LAMBDA d : d = c)
  IN  IF Occurrences(t, c) = 1 /\ trailing # 3
        THEN ReplaceAll(t, c, Dot)
        ELSE Without(t, c)

\* With both kinds the later one is the decimal separator.
Canonical(t) ==
  LET last(c) == SelectLastInSeq(t, LAMBDA d : d = c)
  IN  CASE last(Comma) > 0 /\ last(Dot) > 0 ->
             IF last(Comma) > last(Dot)
               THEN ReplaceAll(Without(t, Dot), Comma, Dot)
               ELSE Without(t, Comma)
        [] last(Comma) > 0 /\ last(Dot) = 0 -> NormalizeSingleSeparator(t, Comma)
        [] last(Comma) = 0 /\ last(Dot) > 0 -> NormalizeSingleSeparator(t, Dot)
        [] OTHER -> t

Digit == 0 .. 9

\* What strconv.ParseFloat accepts of such a text.
IsNumber(t) ==
  /\ \E n \in DOMAIN t : t[n] \in Digit
  /\ Occurrences(t, Dot) <= 1
  /\ \A n \in DOMAIN t : t[n] \in Digit \cup {Dot} \/ (n = 1 /\ t[n] = Minus)

\* The number that the digits among the first n characters write, for every n.
Value(t) ==
  LET value[n \in 0 .. Len(t)] ==
        IF n = 0 THEN 0
        ELSE IF t[n] \in Digit THEN 10 * value[n - 1] + t[n] ELSE value[n - 1]
  IN  value

\* The number t writes, in cents, rounded half away from zero (review.go:136).
\* No text here has its third decimal on a tie, where the binary fraction decides.
RoundedCents(t) ==
  LET point    == SelectInSeq(t, LAMBDA d : d = Dot)
      whole    == Value(t)[IF point = 0 THEN Len(t) ELSE point - 1]
      place(k) == IF point # 0 /\ point + k <= Len(t) THEN t[point + k] ELSE 0
      cents    == 100 * whole + 10 * place(1) + place(2) + (IF place(3) >= 5 THEN 1 ELSE 0)
  IN  IF Head(t) = Minus THEN -cents ELSE cents

\* parseCents: an empty field and a text that is no number both give nil.
ParseCents(text) ==
  LET t == Canonical(Without(Without(text, Space), Apostrophe))
  IN  IF IsNumber(t) THEN RoundedCents(t) ELSE Nil

-------------------------------------------------------------------------------
(* How amounts are written                                                 *)

DigitsOf[n \in Nat] == IF n < 10 THEN <<n>> ELSE DigitsOf[n \div 10] \o <<n % 10>>

Magnitude(cents) == IF cents < 0 THEN -cents ELSE cents

Sign(cents) == IF cents < 0 THEN <<Minus>> ELSE <<>>

\* The decimal places of an amount behind its decimal separator.
Fraction(m, point, places) ==
  CASE places = 0 -> <<>>
    [] places = 1 -> <<point, (m \div 10) % 10>>
    [] places = 2 -> <<point, (m \div 10) % 10, m % 10>>

\* printf "%.2f" of an amount, as review.html renders one.
TwoPlaces(cents) ==
  LET m == Magnitude(cents)
  IN  Sign(cents) \o DigitsOf[m \div 100] \o Fraction(m, Dot, 2)

\* A NULL amount of a line is shown as 0.00.
Rendered(cents) == TwoPlaces(IF cents = Nil THEN 0 ELSE cents)

\* The digits of n in groups of three from the right, set apart by a mark.
Grouped(mark) ==
  LET grouped[n \in Nat] ==
        IF n < 1000 THEN DigitsOf[n]
        ELSE grouped[n \div 1000] \o mark
               \o <<(n \div 100) % 10, (n \div 10) % 10, n % 10>>
  IN  grouped

Write(cents, mark, point, places) ==
  LET m == Magnitude(cents)
  IN  Sign(cents) \o Grouped(mark)[m \div 100] \o Fraction(m, point, places)

Marks == {<<>>, <<Dot>>, <<Comma>>, <<Space>>, <<Apostrophe>>}

Exact(cents, places) ==
  CASE places = 0 -> Magnitude(cents) % 100 = 0
    [] places = 1 -> Magnitude(cents) % 10 = 0
    [] places = 2 -> TRUE

\* What Parse's comment says it reads (decimal.go:13-23): thousands set apart or
\* not, either decimal separator, and no more than two decimal places.
Says(text, cents) ==
  \E mark \in Marks, point \in {Dot, Comma}, places \in 0 .. 2 :
    mark # <<point>> /\ Exact(cents, places) /\ text = Write(cents, mark, point, places)

===============================================================================
