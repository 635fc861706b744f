----------------------------- MODULE Arithmetic -----------------------------
(***************************************************************************)
(* The operations of an expression: integers of any size, with division    *)
(* towards minus infinity, and concatenation in decimal.                   *)
(***************************************************************************)
EXTENDS Integers, Sequences, SequencesExt

\* Stands for an exception in an operation; no value that is reached is as large.
NoValue == 100000000

Digits(n) == CHOOSE k \in 1 .. 9 : n < 10 ^ k /\ (k = 1 \/ n >= 10 ^ (k - 1))

Abs(n) == IF n < 0 THEN -n ELSE n

concat(l, r) == l * 10 ^ Digits(Abs(r)) + (IF l >= 0 THEN r ELSE -r)

\* concat_implicit of the lexer, which starts from 0.
concat_implicit(values) == FoldLeft(concat, 0, values)

FloorDiv(l, r) == IF r > 0 THEN l \div r ELSE (-l) \div (-r)

Power(l, r) ==
  IF r >= 0 THEN l ^ r
  ELSE IF l = 0 THEN NoValue
  ELSE FloorDiv(1, l ^ (-r))

\* The bitwise operators on integers in two's complement without a width.
RECURSIVE And(_, _)
And(l, r) ==
  IF 0 \in {l, r} THEN 0
  ELSE IF l = -1 THEN r
  ELSE IF r = -1 THEN l
  ELSE 2 * And(l \div 2, r \div 2) + (l % 2) * (r % 2)

Unary(op, x) ==
  IF x = NoValue THEN NoValue
  ELSE CASE op = "+" -> x
         [] op = "-" -> -x
         [] op = "~" -> -x - 1
         [] op = "&" -> Abs(x)
         [] op = "!" -> IF x = 0 THEN 1 ELSE 0

Binary(op, l, r) ==
  IF NoValue \in {l, r} THEN NoValue
  ELSE CASE op = "^" -> Power(l, r)
         [] op = "." -> concat(l, r)
         [] op = "*" -> l * r
         [] op \in {"/", "%"} ->
              IF r = 0 THEN NoValue
              ELSE IF op = "/" THEN FloorDiv(l, r) ELSE l - r * FloorDiv(l, r)
         [] op = "+" -> l + r
         [] op = "-" -> l - r
         [] op = "<<" -> IF r < 0 THEN NoValue ELSE l * 2 ^ r
         [] op = ">>" -> IF r < 0 THEN NoValue ELSE l \div 2 ^ (IF r > 30 THEN 30 ELSE r)
         [] op = "and" -> And(l, r)
         [] op = "or" -> l + r - And(l, r)
         [] op = "xor" -> l + r - 2 * And(l, r)

\* Lower binds tighter; the operators of one order are used from the left,
\* those of order 2 and the prefix operators from the right.
Order(op) ==
  CASE op = "^" -> 2 [] op = "." -> 4 [] op \in {"*", "/", "%"} -> 5
    [] op \in {"+", "-"} -> 6 [] op \in {"<<", ">>"} -> 7
    [] op = "and" -> 8 [] op \in {"or", "xor"} -> 9
=============================================================================
