---------------------------- MODULE LeoArithmetic ----------------------------
(***************************************************************************)
(* What the instructions of the Aleo machine compute, in mathematical      *)
(* terms: the reference that compile-time evaluation is judged against.    *)
(* The machine is not part of the repository.                              *)
(*                                                                         *)
(* 8-bit integers have their width; the wider ones are modelled with       *)
(* U32Bits bits and the field with Prime elements, so that products stay   *)
(* within the model checker's integers.  The group has prime order         *)
(* GroupOrder and is written additively as the multiples of a generator;   *)
(* scalars are the integers modulo that order.                             *)
(***************************************************************************)
EXTENDS LeoAst

U32Bits == 15
Prime == 251
GroupOrder == 13

Val(i) == [i |-> i, s |-> <<>>]
Vals(vs) == [i |-> 0, s |-> vs]
Bit(b) == IF b THEN Val(1) ELSE Val(0)

Bits(t) == CASE t.k \in {"u8", "i8"} -> 8
             [] t.k \in {"u16", "u32", "i64"} -> U32Bits
             [] OTHER -> 1
IsSigned(t) == t.k \in {"i8", "i64"}
\* How many values a type has, and its least and greatest one.
Size(t) == CASE t.k = "field" -> Prime
             [] t.k \in {"group", "scalar"} -> GroupOrder
             [] OTHER -> 2 ^ Bits(t)
Low(t) == IF IsSigned(t) THEN -(Size(t) \div 2) ELSE 0
High(t) == Low(t) + Size(t) - 1

\* ok is FALSE when the instruction fails.
Result(v, ok) == [v |-> v, ok |-> ok]
Failure == Result(Val(0), FALSE)

Wrap(t, i) == Bind(Low(t), LAMBDA low : low + ((i - low) % Size(t)))
InRange(t, i) == Bind(Low(t), LAMBDA low : low <= i /\ i < low + Size(t))

\* The exact result i: integers fail outside their range, the algebraic types
\* wrap around.
Checked(t, i) ==
    IF IsInteger(t) /\ ~InRange(t, i) THEN Failure
    ELSE Result(Val(Wrap(t, i)), TRUE)

\* Division truncates towards zero.
Quotient(a, b) ==
    LET q == (IF a < 0 THEN -a ELSE a) \div (IF b < 0 THEN -b ELSE b)
    IN  IF (a < 0) = (b < 0) THEN q ELSE -q

FieldInverse(b) == CHOOSE x \in 0 .. Prime - 1 : (x * b) % Prime = 1

\* a to the power b, every intermediate product mapped by reduce.
PowerBy(a, b, reduce(_)) ==
    Thread(LAMBDA acc, i : reduce(acc * a), reduce(1), [i \in 1 .. b |-> i])

\* A number that is out of range stays out of range, and no larger than that.
Saturate(t, i) ==
    CASE i > High(t) -> High(t) + 1 [] i < Low(t) -> Low(t) - 1 [] OTHER -> i

\* An overflow is for good unless the base is 0, 1 or -1, which never overflow.
ExactPower(t, a, b) ==
    PowerBy(a, b, LAMBDA i : IF t.k = "field" THEN i % Prime ELSE Saturate(t, i))
Power(t, a, b) == Checked(t, ExactPower(t, a, b))

\* The bits of i as a two's complement number of type t, and back.
BitsOf(t, i) ==
    {n \in 0 .. Bits(t) - 1 : ((i % Size(t)) \div (2 ^ n)) % 2 = 1}
FromBits(t, ns) ==
    Wrap(t, Thread(LAMBDA acc, n : IF n \in ns THEN acc + 2 ^ n ELSE acc, 0,
                   [j \in 1 .. Bits(t) |-> j - 1]))

\* The instructions on numbers: those that fit their result into the type by
\* dropping bits, what they compute before that, and when they fail.
Wrapping == {"AddWrapped", "SubWrapped", "MulWrapped", "DivWrapped", "RemWrapped",
             "PowWrapped", "ShlWrapped", "ShrWrapped"}
Exact(op, t, a, b) ==
    CASE op \in {"Add", "AddWrapped"} -> a + b
      [] op \in {"Sub", "SubWrapped"} -> a - b
      [] op \in {"Mul", "MulWrapped"} -> a * b
      [] op = "Div" /\ t.k = "field" -> a * FieldInverse(b)
      [] (op = "Div" /\ t.k # "field") \/ op = "DivWrapped" -> Quotient(a, b)
      [] op \in {"Rem", "Mod", "RemWrapped"} -> a - b * Quotient(a, b)
      [] op = "Pow" -> ExactPower(t, a, b)
      [] op = "PowWrapped" -> PowerBy(a, b, LAMBDA i : Wrap(t, i))
      [] op \in {"Shl", "ShlWrapped"} -> a * 2 ^ (b % Bits(t))
      [] op \in {"Shr", "ShrWrapped"} -> a \div 2 ^ (b % Bits(t))
Fails(op, t, a, b) ==
    \/ op \in {"Div", "DivWrapped", "Rem", "Mod", "RemWrapped"} /\ b = 0
    \/ op \in {"Rem", "Mod"} /\ ~InRange(t, Quotient(a, b))
    \/ op \in {"Shl", "Shr"} /\ b >= Bits(t)

Relations == {"Eq", "Neq", "Lt", "Lte", "Gt", "Gte", "Nand", "Nor"}
Holds(op, l, r) ==
    CASE op = "Eq" -> l = r
      [] op = "Neq" -> l # r
      [] op = "Lt" -> l.i < r.i
      [] op = "Lte" -> l.i <= r.i
      [] op = "Gt" -> l.i > r.i
      [] op = "Gte" -> l.i >= r.i
      [] op = "Nand" -> l.i = 0 \/ r.i = 0
      [] op = "Nor" -> l.i = 0 /\ r.i = 0

Logical == {"And", "BitwiseAnd", "Or", "BitwiseOr", "Xor"}
Combined(op, x, y) ==
    CASE op \in {"And", "BitwiseAnd"} -> x \cap y
      [] op \in {"Or", "BitwiseOr"} -> x \cup y
      [] op = "Xor" -> (x \ y) \cup (y \ x)

\* op on values l and r; t is the type of l.
ApplyBinary(op, t, l, r) ==
    CASE op \in Relations -> Result(Bit(Holds(op, l, r)), TRUE)
      [] op \in Logical ->
           Result(Val(FromBits(t, Combined(op, BitsOf(t, l.i), BitsOf(t, r.i)))), TRUE)
      [] OTHER ->
           IF Fails(op, t, l.i, r.i) THEN Failure
           ELSE Bind(Exact(op, t, l.i, r.i), LAMBDA i :
                     Checked(t, IF op \in Wrapping THEN Wrap(t, i) ELSE i))

\* op on a value of type t.
ApplyUnary(op, t, x) ==
    LET a == x.i
        absolute == IF a < 0 THEN -a ELSE a
        roots == {y \in 0 .. Prime - 1 : (y * y) % Prime = a}
    IN  CASE op = "Not" ->
               Result(Val(FromBits(t, (0 .. Bits(t) - 1) \ BitsOf(t, a))), TRUE)
          [] op = "Inverse" -> IF a = 0 THEN Failure ELSE Result(Val(FieldInverse(a)), TRUE)
          [] op = "SquareRoot" ->
               IF roots = {} THEN Failure
               ELSE Result(Val(CHOOSE y \in roots : \A z \in roots : y <= z), TRUE)
          [] OTHER -> Checked(t, CASE op = "Negate" -> -a
                                   [] op = "Abs" -> absolute
                                   [] op = "AbsWrapped" -> Wrap(t, absolute)
                                   [] op = "Double" -> 2 * a
                                   [] op = "Square" -> a * a)
=============================================================================
