----------------------------- MODULE ConstEval -----------------------------
(***************************************************************************)
(* Compile-time evaluation of operators (ast/src/const_eval/evaluate.rs).  *)
(*                                                                         *)
(* A value is [t, i, s]: the kind of its type, its number and, for a tuple,*)
(* an array or a struct, its components; "unsuffixed" is the kind of a     *)
(* numeral that has not been given a type.  An evaluation ends in one of   *)
(* three ways: "ok" with a value, "err" with a reason, which becomes a     *)
(* compile error, or "panic".  The checked, wrapping and overflowing       *)
(* operations of the standard library are mathematical here.               *)
(***************************************************************************)
EXTENDS LeoArithmetic

Value(t, i) == [t |-> t, i |-> i, s |-> <<>>]
Aggregate(t, vs) == [t |-> t, i |-> 0, s |-> vs]
NoValue == Value("", 0)
OkValue(v) == [res |-> "ok", val |-> v, why |-> ""]
Ok(t, i) == OkValue(Value(t, i))
Err(why) == [res |-> "err", val |-> NoValue, why |-> why]
TypeError == Err("type error")
Panic == [res |-> "panic", val |-> NoValue, why |-> ""]
OkBool(b) == Ok("bool", IF b THEN 1 ELSE 0)

Of(v) == Type(v.t)
Both(l, r, kinds) == l.t = r.t /\ l.t \in kinds

CheckedInt(v, i, why) == IF InRange(Of(v), i) THEN Ok(v.t, i) ELSE Err(why)
WrappingInt(v, i) == Ok(v.t, Wrap(Of(v), i))

----------------------------------------------------------------------------
(* Unsuffixed values.  ty is the kind of a type, "none" for no type.       *)

\* An integer that does not fit panics; the algebraic types report an error.
Fitted(kind, i) ==
    IF InRange(Type(kind), i) THEN Ok(kind, i)
    ELSE IF kind \in IntegerTypes THEN Panic ELSE Err("type failure")

ResolveIfUnsuffixed(v, ty) ==
    CASE v.t # "unsuffixed" \/ ty = "none" -> OkValue(v)
      [] v.t = "unsuffixed" /\ ty \in IntegerTypes \cup {"field", "group", "scalar"} ->
           Fitted(ty, v.i)
      [] OTHER -> Err("cannot infer type of unsuffixed literal")

\* A literal with a suffix is treated alike.
LiteralToValue(kind, i, expected) ==
    CASE kind = "unsuffixed" -> ResolveIfUnsuffixed(Value(kind, i), expected)
      [] kind = "none" -> Err("none literal has no value")
      [] OTHER -> Fitted(kind, i)

ResolveUnaryOperand(v, op, expected) ==
    ResolveIfUnsuffixed(v,
      CASE op \in {"Inverse", "Square", "SquareRoot"} -> "field"
        [] op \in {"ToXCoordinate", "ToYCoordinate"} -> "group"
        [] OTHER -> expected)

\* get_numeric_type.
NumericType(v) ==
    IF v.t \in IntegerTypes \cup {"field", "group", "scalar"} THEN v.t ELSE "none"

\* res1, and then its value resolved with ty.
Then(res, ty) == IF res.res = "ok" THEN ResolveIfUnsuffixed(res.val, ty) ELSE res

\* One operand of op, given the kind of the other.
ResolveOperand(v, other, op, isLeft, expected) ==
    LET dual == op = "Mul" /\ other \in {"group", "scalar"}
        first == CASE dual -> IF other = "group" THEN "scalar" ELSE "group"
                   [] op = "Pow" -> IF other = "field" THEN "field" ELSE "none"
                   [] OTHER -> other
        last == dual \/ (op = "Pow" /\ ~isLeft)
    IN  Then(ResolveIfUnsuffixed(v, first), IF last THEN "none" ELSE expected)

----------------------------------------------------------------------------
(* evaluate_unary_inner, one operator per group of arms.                   *)

\* AbsWrapped takes the absolute value as an unsigned number and reinterprets
\* its bits.
EvalAbs(op, v) ==
    LET magnitude == IF v.i < 0 THEN -v.i ELSE v.i
    IN  CASE ~IsSigned(Of(v)) -> TypeError
          [] op = "Abs" /\ IsSigned(Of(v)) -> CheckedInt(v, magnitude, "abs overflow")
          [] OTHER -> WrappingInt(v, magnitude)

EvalDouble(v) ==
    IF v.t \in {"field", "group"} THEN WrappingInt(v, 2 * v.i) ELSE TypeError

EvalInverse(v) ==
    CASE v.t # "field" -> TypeError
      [] v.t = "field" /\ v.i = 0 -> Err("attempt to invert 0field")
      [] OTHER -> Ok(v.t, FieldInverse(v.i))

EvalNegate(v) ==
    CASE IsSigned(Of(v)) -> CheckedInt(v, -v.i, "negation overflow")
      [] v.t \in {"group", "field"} -> WrappingInt(v, -v.i)
      [] OTHER -> TypeError

EvalNot(v) ==
    IF v.t \in IntegerTypes \cup {"bool"}
    THEN Ok(v.t, FromBits(Of(v), (0 .. Bits(Of(v)) - 1) \ BitsOf(Of(v), v.i)))
    ELSE TypeError

EvalSquare(v) == IF v.t = "field" THEN WrappingInt(v, v.i * v.i) ELSE TypeError

EvalSquareRoot(v) ==
    LET roots == {x \in 0 .. Prime - 1 : (x * x) % Prime = v.i}
    IN  CASE v.t # "field" -> TypeError
          [] v.t = "field" /\ roots = {} -> Err("square root failure")
          [] OTHER -> Ok(v.t, CHOOSE x \in roots : \A y \in roots : x <= y)

\* The coordinates of a group element stay abstract: its number.
EvalCoordinate(v) == IF v.t = "group" THEN Ok("field", v.i) ELSE Panic

EvaluateUnary(op, v0, expected) ==
    Bind(ResolveUnaryOperand(v0, op, expected), LAMBDA r :
    LET v == r.val
    IN  CASE r.res # "ok" -> r
          [] r.res = "ok" /\ v.t = "unsuffixed" -> TypeError
          [] r.res = "ok" /\ v.t # "unsuffixed" ->
               CASE op \in {"Abs", "AbsWrapped"} -> EvalAbs(op, v)
                 [] op = "Double" -> EvalDouble(v)
                 [] op = "Inverse" -> EvalInverse(v)
                 [] op = "Negate" -> EvalNegate(v)
                 [] op = "Not" -> EvalNot(v)
                 [] op = "Square" -> EvalSquare(v)
                 [] op = "SquareRoot" -> EvalSquareRoot(v)
                 [] OTHER -> EvalCoordinate(v))

----------------------------------------------------------------------------
(* evaluate_binary_inner, one operator per group of arms, in their order.  *)

\* Value::eq: numerals cannot be compared; values of two types differ.
EvalEq(l, r, negated) ==
    IF "unsuffixed" \in {l.t, r.t} THEN Err("equality on unsuffixed value")
    ELSE OkBool((l = r) # negated)

EvalAdd(l, r) ==
    CASE Both(l, r, IntegerTypes) -> CheckedInt(l, l.i + r.i, "add overflow")
      [] Both(l, r, {"group", "field", "scalar"}) -> WrappingInt(l, l.i + r.i)
      [] OTHER -> TypeError

EvalAddWrapped(l, r) ==
    IF Both(l, r, IntegerTypes) THEN WrappingInt(l, l.i + r.i) ELSE TypeError

EvalAnd(l, r) ==
    IF Both(l, r, {"bool"}) THEN OkBool(l.i = 1 /\ r.i = 1) ELSE TypeError

\* Two values of one type, bit by bit; F says which bits are set.
Bitwise(l, r, F(_, _)) ==
    IF Both(l, r, IntegerTypes \cup {"bool"})
    THEN Ok(l.t, FromBits(Of(l), F(BitsOf(Of(l), l.i), BitsOf(Of(r), r.i))))
    ELSE TypeError

EvalBitwiseAnd(l, r) == Bitwise(l, r, LAMBDA x, y : x \cap y)

EvalDiv(l, r) ==
    CASE Both(l, r, IntegerTypes) ->
           IF r.i = 0 THEN Err("div overflow")
           ELSE CheckedInt(l, Quotient(l.i, r.i), "div overflow")
      [] Both(l, r, {"field"}) ->
           IF r.i = 0 THEN Err("div overflow")
           ELSE WrappingInt(l, l.i * FieldInverse(r.i))
      [] OTHER -> TypeError

\* Division by zero falls through to the last arm.
EvalDivWrapped(l, r) ==
    IF Both(l, r, IntegerTypes) /\ r.i # 0 THEN WrappingInt(l, Quotient(l.i, r.i))
    ELSE TypeError

Compared(l, r, truth) ==
    IF Both(l, r, IntegerTypes \cup {"field", "scalar"}) THEN OkBool(truth)
    ELSE TypeError

EvalGte(l, r) == Compared(l, r, l.i >= r.i)
EvalGt(l, r) == Compared(l, r, l.i > r.i)
EvalLte(l, r) == Compared(l, r, l.i <= r.i)
EvalLt(l, r) == Compared(l, r, l.i < r.i)

Remainder(a, b) == a - b * Quotient(a, b)

EvalMod(l, r) ==
    CASE ~Both(l, r, IntegerTypes) \/ IsSigned(Of(l)) -> TypeError
      [] r.i = 0 -> Err("mod overflow")
      [] OTHER -> Ok(l.t, Remainder(l.i, r.i))

EvalMul(l, r) ==
    CASE Both(l, r, IntegerTypes) -> CheckedInt(l, l.i * r.i, "mul overflow")
      [] Both(l, r, {"field"}) -> WrappingInt(l, l.i * r.i)
      [] {l.t, r.t} = {"group", "scalar"} ->
           WrappingInt(Value("group", 0), l.i * r.i)
      [] OTHER -> TypeError

EvalMulWrapped(l, r) ==
    IF Both(l, r, IntegerTypes) THEN WrappingInt(l, l.i * r.i) ELSE TypeError

EvalLogical(op, l, r) ==
    CASE ~Both(l, r, {"bool"}) -> TypeError
      [] op = "Nand" -> OkBool(~(l.i = 1 /\ r.i = 1))
      [] op = "Nor" -> OkBool(~(l.i = 1 \/ r.i = 1))
      [] OTHER -> OkBool(l.i = 1 \/ r.i = 1)

EvalBitwiseOr(l, r) == Bitwise(l, r, LAMBDA x, y : x \cup y)

IsMagnitude(r) == r.t \in {"u8", "u16", "u32"}

\* The exponent is looked at before the base.
EvalPow(l, r) ==
    CASE Both(l, r, {"field"}) -> Ok("field", Power(Field, l.i, r.i).v.i)
      [] ~Both(l, r, {"field"}) /\ ~IsMagnitude(r) -> Panic
      [] ~Both(l, r, {"field"}) /\ IsMagnitude(r) ->
           IF l.t \notin IntegerTypes THEN TypeError
           ELSE Bind(Power(Of(l), l.i, r.i), LAMBDA p :
                IF p.ok THEN Ok(l.t, p.v.i) ELSE Err("pow overflow"))

EvalPowWrapped(l, r) ==
    IF IsMagnitude(r) /\ l.t \in IntegerTypes
    THEN Ok(l.t, PowerBy(l.i, r.i, LAMBDA i : Wrap(Of(l), i))) ELSE TypeError

EvalRem(l, r) ==
    CASE ~Both(l, r, IntegerTypes) -> TypeError
      [] r.i = 0 \/ ~InRange(Of(l), Quotient(l.i, r.i)) -> Err("rem error")
      [] OTHER -> Ok(l.t, Remainder(l.i, r.i))

EvalRemWrapped(l, r) ==
    IF Both(l, r, IntegerTypes) /\ r.i # 0
    THEN WrappingInt(l, Remainder(l.i, r.i)) ELSE TypeError

\* Bits shifted out are lost, and are missed when the result is shifted back.
EvalShl(l, r) ==
    LET shifted == Wrap(Of(l), l.i * 2 ^ r.i)
    IN  CASE ~IsMagnitude(r) \/ l.t \notin IntegerTypes -> TypeError
          [] r.i >= Bits(Of(l)) -> Err("shl overflow")
          [] shifted \div (2 ^ r.i) # l.i -> Err("shl")
          [] OTHER -> Ok(l.t, shifted)

\* wrapping_shl and wrapping_shr mask the magnitude.
EvalShlWrapped(l, r) ==
    IF IsMagnitude(r) /\ l.t \in IntegerTypes
    THEN WrappingInt(l, l.i * 2 ^ (r.i % Bits(Of(l)))) ELSE TypeError

EvalShr(l, r) ==
    CASE ~IsMagnitude(r) -> TypeError
      [] IsMagnitude(r) /\ l.t \notin IntegerTypes -> Panic
      [] r.i >= Bits(Of(l)) -> Err("shr overflow")
      [] OTHER -> Ok(l.t, l.i \div (2 ^ r.i))

EvalShrWrapped(l, r) ==
    IF IsMagnitude(r) /\ l.t \in IntegerTypes
    THEN Ok(l.t, l.i \div (2 ^ (r.i % Bits(Of(l))))) ELSE TypeError

EvalSub(l, r) ==
    CASE Both(l, r, IntegerTypes) -> CheckedInt(l, l.i - r.i, "sub overflow")
      [] Both(l, r, {"group", "field"}) -> WrappingInt(l, l.i - r.i)
      [] OTHER -> TypeError

EvalSubWrapped(l, r) ==
    IF Both(l, r, IntegerTypes) THEN WrappingInt(l, l.i - r.i) ELSE TypeError

EvalXor(l, r) == Bitwise(l, r, LAMBDA x, y : (x \ y) \cup (y \ x))

\* The arm of op; operands that are still numerals are no literals.
EvalArm(op, l, r) ==
    CASE op = "Eq" -> EvalEq(l, r, FALSE)
      [] op = "Neq" -> EvalEq(l, r, TRUE)
      [] op \notin {"Eq", "Neq"} /\ "unsuffixed" \in {l.t, r.t} -> TypeError
      [] op = "Add" -> EvalAdd(l, r)
      [] op = "AddWrapped" -> EvalAddWrapped(l, r)
      [] op = "And" -> EvalAnd(l, r)
      [] op = "BitwiseAnd" -> EvalBitwiseAnd(l, r)
      [] op = "Div" -> EvalDiv(l, r)
      [] op = "DivWrapped" -> EvalDivWrapped(l, r)
      [] op = "Gte" -> EvalGte(l, r)
      [] op = "Gt" -> EvalGt(l, r)
      [] op = "Lte" -> EvalLte(l, r)
      [] op = "Lt" -> EvalLt(l, r)
      [] op = "Mod" -> EvalMod(l, r)
      [] op = "Mul" -> EvalMul(l, r)
      [] op = "MulWrapped" -> EvalMulWrapped(l, r)
      [] op \in {"Nand", "Nor", "Or"} -> EvalLogical(op, l, r)
      [] op = "BitwiseOr" -> EvalBitwiseOr(l, r)
      [] op = "Pow" -> EvalPow(l, r)
      [] op = "PowWrapped" -> EvalPowWrapped(l, r)
      [] op = "Rem" -> EvalRem(l, r)
      [] op = "RemWrapped" -> EvalRemWrapped(l, r)
      [] op = "Shl" -> EvalShl(l, r)
      [] op = "ShlWrapped" -> EvalShlWrapped(l, r)
      [] op = "Shr" -> EvalShr(l, r)
      [] op = "ShrWrapped" -> EvalShrWrapped(l, r)
      [] op = "Sub" -> EvalSub(l, r)
      [] op = "SubWrapped" -> EvalSubWrapped(l, r)
      [] op = "Xor" -> EvalXor(l, r)

EvaluateBinary(op, l0, r0, expected) ==
    Bind(ResolveOperand(l0, NumericType(r0), op, TRUE, expected), LAMBDA l :
    Bind(ResolveOperand(r0, NumericType(l0), op, FALSE, expected), LAMBDA r :
    CASE l.res # "ok" -> l
      [] l.res = "ok" /\ r.res # "ok" -> r
      [] OTHER -> EvalArm(op, l.val, r.val)))

----------------------------------------------------------------------------
(* Values and expressions (ast/src/const_eval/value.rs).                   *)

\* The kind of a literal's value: that of its suffix, or "unsuffixed".
LiteralKind(e) ==
    CASE e.n # "" -> e.n
      [] e.t.k = "optional" -> e.t.s[1].k
      [] OTHER -> e.t.k

\* array_index, tuple_index and member_access at a position that exists.
Component(v, i) == v.s[i]

\* Value::to_expression and plaintext_to_expression; every node of the new
\* expression gets the type that belongs to its place in ty.  Empty when the
\* value does not have the shape of the type.
RECURSIVE ToExpression(_, _, _)
ToExpression(v, ty, structs) ==
    LET Parts(tys) ==
          IF Len(v.s) # Len(tys) THEN <<>>
          ELSE Thread(LAMBDA acc, i :
                        Bind(ToExpression(v.s[i], tys[i], structs), LAMBDA r :
                        IF acc = <<>> \/ r = <<>> THEN <<>>
                        ELSE <<Append(acc[1], r[1])>>),
                      <<<<>>>>, [i \in DOMAIN tys |-> i])
        With(parts, Make(_)) == IF parts = <<>> THEN <<>> ELSE <<Make(parts[1])>>
    IN  CASE v.t = "tuple" ->
               IF ty.k # "tuple" THEN <<>>
               ELSE With(Parts(ty.s), LAMBDA es : Tuple(es, ty))
          [] v.t = "array" ->
               IF ty.k # "array" THEN <<>>
               ELSE With(Parts([i \in DOMAIN v.s |-> ty.s[1]]),
                         LAMBDA es : Array(es, ty))
          [] v.t = "struct" ->
               IF ty.k # "composite" THEN <<>>
               ELSE LET ms == structs[ty.n]
                    IN  With(Parts([i \in DOMAIN ms |-> ms[i].t]),
                             LAMBDA es : Composite(ty.n,
                                           [i \in DOMAIN ms |-> ms[i].n], es, ty))
          [] v.t = "unsuffixed" -> <<[Unsuffixed(v.i) EXCEPT !.t = ty]>>
          [] OTHER -> <<Literal(v.i, ty)>>

----------------------------------------------------------------------------
(***************************************************************************)
(* What the two constant propagation passes have in common.  A visit of an *)
(* expression yields the visitor z, the expression e and its value v, empty*)
(* when it is not known.  The fields err and bad of a visitor say that an  *)
(* error was reported and that the pass panicked.                          *)
(***************************************************************************)

Yield(z, e, v) == [z |-> z, e |-> e, v |-> v]
Panicked(z) == [z EXCEPT !.bad = TRUE]

\* value_to_expression(..).expect(VALUE_ERROR) in place of e.
Folded(p, z, e, v) ==
    Bind(IF e.t = NoType THEN <<>> ELSE ToExpression(v, e.t, p.structs), LAMBDA new :
    IF new = <<>> THEN Yield(Panicked(z), e, <<>>)
    ELSE Yield(z, new[1], <<v>>))

\* An outcome of const_eval in place of e, or e itself and a report.
FoldedOutcome(p, z, e, res) ==
    CASE res.res = "ok" -> Folded(p, z, e, res.val)
      [] res.res = "err" -> Yield([z EXCEPT !.err = TRUE], e, <<>>)
      [] res.res = "panic" -> Yield(Panicked(z), e, <<>>)

\* A literal takes the suffix of its type.
RcLiteral(z, e) ==
    LET ty == IF e.t.k = "optional" THEN e.t.s[1] ELSE e.t
    IN  Bind(LiteralToValue(LiteralKind(e), e.v, ty.k), LAMBDA res :
        CASE res.res = "panic" -> Yield(Panicked(z), e, <<>>)
          [] res.res = "err" -> Yield(z, e, <<>>)
          [] OTHER -> IF e.n = "unsuffixed" /\ res.val.t = "unsuffixed"
                      THEN Yield(Panicked(z), e, <<>>)
                      ELSE Yield(z, [e EXCEPT !.n = ""], <<res.val>>))

\* Arrays and tuples of known values have a value.
RcSequence(z, e, parts) ==
    LET known == \A i \in DOMAIN parts : parts[i].v # <<>>
    IN  Yield(z, [e EXCEPT !.s = [i \in DOMAIN parts |-> parts[i].e]],
              IF known
              THEN <<Aggregate(IF e.k = "Tuple" THEN "tuple" ELSE "array",
                               [i \in DOMAIN parts |-> parts[i].v[1]])>>
              ELSE <<>>)

\* The parts of an expression, visited from left to right with V(z, e).
Visited(V(_, _), z0, es) ==
    Thread(LAMBDA acc, x : LET r == V(acc.z, x)
                           IN  [z |-> r.z, s |-> Append(acc.s, r)],
           [z |-> z0, s |-> <<>>], es)
=============================================================================
