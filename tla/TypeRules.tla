----------------------------- MODULE TypeRules -----------------------------
(***************************************************************************)
(* When two types agree and where a type may be used (ast/src/types and    *)
(* the type assertions of the type checker).                               *)
(*                                                                         *)
(* A checker c holds what TypeCheckingVisitor and its ScopeState hold: the *)
(* program p, the errors emitted so far, the variables in scope and where  *)
(* in the program the visitor is.  An assertion returns the checker with   *)
(* the error, if there is one, added.                                      *)
(***************************************************************************)
EXTENDS LeoArithmetic, SequencesExt

CONSTANT MaxArrayElements    \* the network's limit on the length of an array

Emit(c, error) == [c EXCEPT !.errs = @ \cup {error}]
EmitIf(c, cond, error) == IF cond THEN Emit(c, error) ELSE c
\* Of several checks <<condition, error>>, all that fail are reported.
Report(c, checks) == [c EXCEPT !.errs = @ \cup {k[2] : k \in {q \in checks : q[1]}}]

LengthsAgree(a, b) == a.l = b.l \/ a.l = Unknown \/ b.l = Unknown

RECURSIVE TypesEquivalent(_, _)
TypesEquivalent(a, b) ==
    \/ "err" \in {a.k, b.k}
    \/ /\ a.k = b.k
       /\ CASE a.k = "array" -> LengthsAgree(a, b) /\ TypesEquivalent(a.s[1], b.s[1])
            [] a.k = "future" ->
                 \/ "explicit" \notin {a.n} \cap {b.n}
                 \/ /\ Len(a.s) = Len(b.s)
                    /\ \A i \in DOMAIN a.s : TypesEquivalent(a.s[i], b.s[i])
            [] a.k = "composite" -> a.s # <<>> \/ b.s # <<>> \/ a.n = b.n
            [] a.k = "numeric" -> FALSE
            [] OTHER -> /\ Len(a.s) = Len(b.s)
                        /\ \A i \in DOMAIN a.s : TypesEquivalent(a.s[i], b.s[i])

RECURSIVE CanCoerceTo(_, _)
CanCoerceTo(a, b) ==
    CASE b.k = "optional" ->
           CanCoerceTo(IF a.k = "optional" THEN a.s[1] ELSE a, b.s[1])
      [] a.k = "array" /\ b.k = "array" ->
           LengthsAgree(a, b) /\ CanCoerceTo(a.s[1], b.s[1])
      [] OTHER -> TypesEquivalent(a, b)

IsEmptyType(t) == t = UnitType \/ (t.k = "array" /\ t.l = 0)

IsNumber(t) == IsInteger(t) \/ t.k \in {"field", "group", "scalar"}

----------------------------------------------------------------------------
(* Assertions about one type. *)

\* assert_type: errors are not reported twice.
AssertType(c, actual, expected) ==
    EmitIf(c, actual # ErrType /\ ~CanCoerceTo(actual, expected), "type_should_be")

MaybeAssertType(c, actual, expected) ==
    IF expected = NoType THEN c ELSE AssertType(c, actual, expected)

\* check_eq_types: no coercion.
AssertAndReturnType(c, actual, expected) ==
    EmitIf(c, /\ expected \notin {NoType, ErrType}
              /\ ~TypesEquivalent(actual, expected), "type_should_be")

AssertKind(c, t, kinds) == EmitIf(c, t.k \notin kinds \cup {"err"}, "type_should_be")
Signed == {"i8", "i64"}
UnsignedTypes == IntegerTypes \ Signed
Magnitudes == {"u8", "u16", "u32"}

UnwrapOptionalType(expected) ==
    IF expected.k = "optional" THEN expected.s[1] ELSE expected

----------------------------------------------------------------------------
(* Composites.  c.p.structs maps every struct and record to its members;   *)
(* c.p.records are the records, c.p.external those of imported programs.   *)

IsComposite(c, t) == t.k = "composite" /\ t.n \in DOMAIN c.p.structs
TypeIsRecord(c, t) ==
    t = DynRecord \/ (IsComposite(c, t) /\ t.n \in c.p.records)
IsExternalRecord(c, t) ==
    IsComposite(c, t) /\ t.n \in c.p.records \cap c.p.external

\* lookup_composite records what the program uses.
LookupComposite(c, t) ==
    IF IsComposite(c, t) /\ ~IsExternalRecord(c, t)
    THEN [c EXCEPT !.used = @ \cup {t.n}] ELSE c

MembersOf(c, t) == c.p.structs[t.n]

\* check_composite_accessible: a type of a library is visible when exported.
IsAccessible(c, name) == name \notin c.p.hidden

RECURSIVE AssertMemberIsNotRecord(_, _)
AssertMemberIsNotRecord(c, t) ==
    IF IsTuple(t) THEN Thread(AssertMemberIsNotRecord, c, t.s)
    ELSE EmitIf(LookupComposite(c, t), TypeIsRecord(c, t),
                "struct_or_record_cannot_contain_record")

\* Can type t not be used inside an optional?  seen are the composites visited.
RECURSIVE Disallowed(_, _, _)
Disallowed(c, t, seen) ==
    LET Inner(u) == Disallowed(c, UnwrapOptionalType(u), seen \cup {t.n})
    IN  CASE t.k = "composite" ->
               /\ t.n \notin seen
               /\ IsComposite(c, t)
               /\ \/ TypeIsRecord(c, t)
                  \/ \E m \in Range(MembersOf(c, t)) : Inner(m.t)
          [] t.k = "array" -> Disallowed(c, UnwrapOptionalType(t.s[1]), seen)
          [] OTHER -> t.k \notin IntegerTypes \cup
                        {"address", "bool", "field", "group", "numeric",
                         "scalar", "signature"}
DisallowedInsideOptional(c, t) == Disallowed(c, t, {})

RECURSIVE ContainsOptional(_, _, _)
ContainsOptional(c, t, seen) ==
    CASE t.k = "optional" -> TRUE
      [] t.k \in {"tuple", "array"} ->
           \E u \in Range(t.s) : ContainsOptional(c, u, seen)
      [] t.k = "composite" ->
           /\ t.n \notin seen
           /\ IsComposite(c, t)
           /\ \E m \in Range(MembersOf(c, t)) :
                 ContainsOptional(c, m.t, seen \cup {t.n})
      [] OTHER -> FALSE
ContainsOptionalType(c, t) == ContainsOptional(c, t, {})

RECURSIVE AssertTypeIsValid(_, _)
AssertTypeIsValid(c, t) ==
    Bind(Thread(AssertTypeIsValid, c, t.s), LAMBDA all :
    CASE t.k = "unit" -> Emit(c, "unit_type_only_return")
      [] t.k = "string" -> Emit(c, "strings_are_not_supported")
      [] t.k = "vector" -> Emit(c, "vector_type_only_in_storage")
      [] t.k = "composite" ->
           IF ~IsComposite(c, t) THEN Emit(c, "undefined_type")
           ELSE EmitIf(LookupComposite(c, t), ~IsAccessible(c, t.n),
                       "inaccessible_item")
      [] t.k = "array" ->
           LET el == t.s[1]
               c1 == EmitIf(all, t.l > MaxArrayElements, "array_too_large")
           IN  EmitIf(c1, el.k \in {"future", "tuple"} \/ TypeIsRecord(c, el),
                      "array_element_cannot_be")
      [] t.k = "optional" ->
           EmitIf(all, DisallowedInsideOptional(c, t.s[1]),
                  "optional_wrapping_unsupported")
      [] t.k = "future" -> c
      [] OTHER -> all)

\* A struct that contains itself is reported before, and its members are
\* followed all the same: the fuel stands for the stack.
RECURSIVE AssertStorage(_, _, _)
AssertStorage(c, t, fuel) ==
    LET invalid == \/ IsEmptyType(t)
                   \/ t.k \in {"unit", "string", "identifier", "dynrecord",
                               "future", "optional", "mapping", "tuple"}
                   \/ t.k = "composite" /\ (~IsComposite(c, t) \/ TypeIsRecord(c, t))
                   \/ t.k = "array" /\ t.l > MaxArrayElements
        c1 == EmitIf(LookupComposite(c, t), invalid, "invalid_storage_type")
        Follow(acc, u) == AssertStorage(acc, u, fuel - 1)
    IN  CASE fuel = 0 -> Emit(c, "PANIC")
          [] t.k \in {"array", "vector"} -> Thread(Follow, c1, t.s)
          [] IsComposite(c, t) /\ ~TypeIsRecord(c, t) ->
               Thread(Follow, c1, [i \in DOMAIN MembersOf(c, t) |-> MembersOf(c, t)[i].t])
          [] OTHER -> c1
AssertStorageTypeIsValid(c, t) ==
    AssertStorage(c, t, 2 * Cardinality(DOMAIN c.p.structs) + 3)


----------------------------------------------------------------------------
(***************************************************************************)
(* How the type checker gives a type to operators, literals and aggregates *)
(* (type_checking/ast.rs).                                                 *)
(*                                                                         *)
(* A visit of expression e with the expected type x (NoType when there is  *)
(* none) yields a record: c is the checker after it, e the expression with *)
(* its types recorded, t the type.                                         *)
(***************************************************************************)

Yield(c, e, t) == [c |-> c, e |-> [e EXCEPT !.t = t], t |-> t]
Typed(c, e, subs, t) == Yield(c, [e EXCEPT !.s = subs], t)

\* The type table's entry of an expression that was visited is replaced.
Retype(r, t) == [r EXCEPT !.t = t, !.e.t = t]

\* visit_expression on a sequence; X gives the expected type of each.
VisitAll(V(_, _, _), c, es, X(_)) ==
    Thread(LAMBDA acc, i : Feed(V(acc.c, es[i], X(i)), LAMBDA r :
             [c |-> r.c, es |-> Append(acc.es, r.e), ts |-> Append(acc.ts, r.t)]),
           [c |-> c, es |-> <<>>, ts |-> <<>>], [i \in DOMAIN es |-> i])

----------------------------------------------------------------------------
(* Numerals without a suffix. *)

IsUnsuffixed(e) == e.k = "Literal" /\ e.n = "unsuffixed"
IsNone(e) == e.k = "Literal" /\ e.n = "none"

\* Integers and group elements must parse; a field or scalar is not looked at.
CheckNumericLiteral(c, e, t) ==
    EmitIf(c, /\ IsUnsuffixed(e)
              /\ IsInteger(t) \/ t = Group
              /\ ~InRange(t, e.v), "invalid_int_value")

InferenceFailure(r) ==
    [Retype(r, ErrType) EXCEPT !.c = Emit(@, "could_not_determine_type")]

RejectNumeric(r) == IF r.t = Numeric THEN InferenceFailure(r) ELSE r

\* visit_expression_infer_default_u32.
InferDefaultU32(r) ==
    IF r.t # Numeric THEN r
    ELSE LET c == CheckNumericLiteral(r.c, r.e, U32)
         IN  [Retype(r, IF c = r.c THEN U32 ELSE ErrType) EXCEPT !.c = c]

\* The type of an unsuffixed operand comes from the other operand.
InferNumericTypes(two) ==
    LET l == two.l
        r == two.r
        Fail(side) == IF side.t = Numeric THEN Retype(side, ErrType) ELSE side
        lc == CheckNumericLiteral(two.c, l.e, r.t)
        rc == CheckNumericLiteral(two.c, r.e, l.t)
    IN  CASE l.t = Numeric /\ IsNumber(r.t) ->
               [c |-> lc, l |-> Retype(l, r.t), r |-> r]
          [] r.t = Numeric /\ IsNumber(l.t) ->
               [c |-> rc, l |-> l, r |-> Retype(r, l.t)]
          [] Numeric \in {l.t, r.t} /\ ~IsNumber(l.t) /\ ~IsNumber(r.t) ->
               [c |-> Emit(two.c, "could_not_determine_type"),
                l |-> Fail(l), r |-> Fail(r)]
          [] OTHER -> two

RejectNumerics(two) ==
    LET l == RejectNumeric(two.l)
        r == RejectNumeric(two.r)
    IN  [c |-> [two.c EXCEPT !.errs = @ \cup l.c.errs \cup r.c.errs], l |-> l, r |-> r]

AssertSameType(c, t1, t2) ==
    CASE ErrType \in {t1, t2} -> [c |-> c, t |-> ErrType]
      [] ~TypesEquivalent(t1, t2) ->
           [c |-> Emit(c, "operation_types_mismatch"), t |-> ErrType]
      [] OTHER -> [c |-> c, t |-> t1]

----------------------------------------------------------------------------
(* visit_binary: the visit of the operands, then the rule of the operator. *)

BinaryOut(c, e, two, t, x) ==
    Typed(MaybeAssertType(c, t, x), e, <<two.l.e, two.r.e>>, t)

\* Both operands and the result have one type, of the given kinds.
SameTypeOp(operands, e, x, kinds, out) ==
    Bind(InferNumericTypes(operands), LAMBDA two :
    LET c1 == AssertKind(AssertKind(two.c, two.l.t, kinds), two.r.t, kinds)
        same == AssertSameType(c1, two.l.t, two.r.t)
    IN  BinaryOut(same.c, e, two, IF out = NoType THEN same.t ELSE out, x))

VisitLogical(two, e) == Typed(two.c, e, <<two.l.e, two.r.e>>, Boolean)

VisitBitwise(two, e, x) == SameTypeOp(two, e, x, IntegerTypes \cup {"bool"}, NoType)

VisitAdd(two, e, x) ==
    SameTypeOp(two, e, x, IntegerTypes \cup {"field", "group", "scalar"}, NoType)

VisitSub(two, e, x) == SameTypeOp(two, e, x, IntegerTypes \cup {"field", "group"}, NoType)

\* A group is multiplied by a scalar, so the other operand of a group or a
\* scalar is not inferred to be of the same type.
VisitMul(two, e, x) ==
    LET Partner(t) == CASE t = Group -> Scalar [] t = Scalar -> Group [] OTHER -> t
    IN  Bind(InferNumericTypes([two EXCEPT !.l.t = Partner(@), !.r.t = Partner(@)]), LAMBDA swapped :
        LET inf == [c |-> swapped.c,
                    l |-> IF two.l.t = Numeric THEN swapped.l ELSE two.l,
                    r |-> IF two.r.t = Numeric THEN swapped.r ELSE two.r]
            t1 == inf.l.t
            t2 == inf.r.t
            t == CASE {t1, t2} = {Group, Scalar} -> Group
                   [] t1 = t2 /\ (t1 = Field \/ IsInteger(t1)) -> t1
                   [] OTHER -> ErrType
            c1 == EmitIf(inf.c, t = ErrType /\ ErrType \notin {t1, t2}, "mul_types_mismatch")
        IN  BinaryOut(c1, e, inf, t, x))

VisitDiv(two, e, x) == SameTypeOp(two, e, x, IntegerTypes \cup {"field"}, NoType)

VisitRem(two, e, x) == SameTypeOp(two, e, x, IntegerTypes, NoType)

VisitMod(two, e, x) == SameTypeOp(two, e, x, UnsignedTypes, NoType)

VisitPow(two, e, x) ==
    Bind(IF {two.l.t, two.r.t} = {Field, Numeric} THEN InferNumericTypes(two)
         ELSE RejectNumerics(two), LAMBDA inf :
    LET t1 == inf.l.t
        t2 == inf.r.t
        t == CASE ErrType \in {t1, t2} -> ErrType
               [] t1 = Field /\ t2 = Field -> Field
               [] IsInteger(t1) -> t1
               [] OTHER -> ErrType
        bad == /\ ErrType \notin {t1, t2}
               /\ IF IsInteger(t1) THEN t2.k \notin Magnitudes ELSE t = ErrType
    IN  BinaryOut(EmitIf(inf.c, bad, "pow_types_mismatch"), e, inf, t, x))

VisitEq(two, e, x) ==
    Bind(InferNumericTypes(two), LAMBDA inf :
    LET same == AssertSameType(inf.c, inf.l.t, inf.r.t)
    IN  BinaryOut(same.c, e, inf, Boolean, x))

VisitCompare(two, e, x) ==
    SameTypeOp(two, e, x, IntegerTypes \cup {"field", "scalar"}, Boolean)

VisitWrapped(two, e, x) == SameTypeOp(two, e, x, IntegerTypes, NoType)

\* The result is not compared with the destination, the first operand was.
VisitShift(operands, e) ==
    Bind(RejectNumerics(operands), LAMBDA two :
    LET c1 == AssertKind(two.c, two.l.t, IntegerTypes)
        c2 == EmitIf(c1, two.r.t.k \notin Magnitudes \cup {"err"}, "shift_type_magnitude")
    IN  Typed(c2, e, <<two.l.e, two.r.e>>, two.l.t))

LogicalOps == {"And", "Or", "Nand", "Nor"}
Comparisons == {"Lt", "Gt", "Lte", "Gte"}

BinaryRule(two, e, x) ==
    CASE e.n \in LogicalOps -> VisitLogical(two, e)
      [] e.n \in {"BitwiseAnd", "BitwiseOr", "Xor"} -> VisitBitwise(two, e, x)
      [] e.n = "Add" -> VisitAdd(two, e, x)
      [] e.n = "Sub" -> VisitSub(two, e, x)
      [] e.n = "Mul" -> VisitMul(two, e, x)
      [] e.n = "Div" -> VisitDiv(two, e, x)
      [] e.n \in {"Rem", "RemWrapped"} -> VisitRem(two, e, x)
      [] e.n = "Mod" -> VisitMod(two, e, x)
      [] e.n = "Pow" -> VisitPow(two, e, x)
      [] e.n \in {"Eq", "Neq"} -> VisitEq(two, e, x)
      [] e.n \in Comparisons -> VisitCompare(two, e, x)
      [] e.n \in {"AddWrapped", "SubWrapped", "DivWrapped", "MulWrapped"} ->
            VisitWrapped(two, e, x)
      [] OTHER -> VisitShift(two, e)

----------------------------------------------------------------------------
(* visit_unary. *)

UnaryRule(r, e, xo, x) ==
    LET Of(kinds) == LET q == RejectNumeric(r)
                     IN  [q EXCEPT !.c = AssertKind(@, q.t, kinds)]
        OfField == IF r.t = Numeric THEN Retype(r, Field)
                   ELSE [r EXCEPT !.c = AssertType(@, r.t, Field)]
    IN  Bind(CASE e.n \in {"Abs", "AbsWrapped"} -> Of(Signed)
               [] e.n = "Double" -> Of({"field", "group"})
               [] e.n \in {"Inverse", "Square", "SquareRoot"} -> OfField
               [] e.n = "Negate" -> Of(Signed \cup {"group", "field"})
               [] e.n = "Not" -> Of(IntegerTypes \cup {"bool"})
               [] OTHER -> r, LAMBDA q :
        LET t == IF xo = Group /\ e.n \in {"ToXCoordinate", "ToYCoordinate"} THEN Field
                 ELSE q.t
        IN  Typed(MaybeAssertType(q.c, t, x), e, <<q.e>>, t))

----------------------------------------------------------------------------
(* Literals, ternaries and aggregates. *)

\* A literal with a suffix has its type in t already.
VisitLiteral(c, e, x) ==
    LET number == IF x.k = "optional" THEN x.s[1] ELSE x
    IN  Bind(CASE IsNone(e) -> IF x.k = "optional" THEN x ELSE ErrType
               [] ~IsUnsuffixed(e) -> e.t
               [] x = NoType -> Numeric
               [] IsNumber(number) -> number
               [] OTHER -> ErrType, LAMBDA t :
        LET c1 == CASE t = ErrType -> Emit(c, "unexpected_literal")
                    [] IsUnsuffixed(e) -> CheckNumericLiteral(c, e, t)
                    [] OTHER -> EmitIf(c, /\ IsInteger(t) \/ t = Group
                                          /\ ~InRange(t, e.v), "invalid_int_value")
        IN  Yield(MaybeAssertType(c1, t, x), e, t))

ExpectedElement(x) ==
    LET a == UnwrapOptionalType(x) IN IF a.k = "array" THEN a.s[1] ELSE NoType

----------------------------------------------------------------------------
(* Accesses.  base is the visited array, struct or tuple.                  *)

VisitMemberAccess(base, e, x, assign) ==
    LET ty == base.t
        c1 == EmitIf(LookupComposite(base.c, ty), assign /\ IsExternalRecord(base.c, ty),
                     "assignment_to_external_record_member")
        found == IsComposite(c1, ty) /\ \E m \in Range(MembersOf(c1, ty)) : m.n = e.n
    IN  Bind(CASE found -> MemberType(c1.p, ty.n, e.n)
               [] ty = DynRecord /\ ~assign ->
                    IF e.n = "owner" THEN Address ELSE IF x = NoType THEN ErrType ELSE x
               [] OTHER -> ErrType, LAMBDA t :
        LET c2 == EmitIf(c1, t = ErrType /\ ty # ErrType, "invalid_member_access")
        IN  Typed(MaybeAssertType(c2, t, x), e, <<base.e>>, t))

VisitTupleAccess(base, e, x) ==
    LET t == IF IsTuple(base.t) /\ e.v < Len(base.t.s) THEN base.t.s[e.v + 1] ELSE ErrType
        c1 == EmitIf(base.c, t = ErrType /\ base.t # ErrType, "tuple_out_of_range")
    IN  Typed(MaybeAssertType(c1, t, x), e, <<base.e>>, t)
=============================================================================
