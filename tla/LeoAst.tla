------------------------------ MODULE LeoAst -------------------------------
(***************************************************************************)
(* The abstract syntax that the compiler passes rewrite (crates/ast).      *)
(* Spans and node ids are left out.  What the compiler keeps in its type   *)
(* table under a node id is a field of the node here: t is the recorded    *)
(* type of an expression, NoType when a pass made the node without         *)
(* recording one.                                                          *)
(*                                                                         *)
(* All nodes of one sort have the same fields, so that a traversal is      *)
(* written once:                                                           *)
(*   type        k kind, n name, l length, s component types               *)
(*   expression  k kind, n name or operator, v number, f field names,      *)
(*               s sub-expressions in evaluation order, t type             *)
(*   statement   k kind, n variant, ns defined names, e expressions,       *)
(*               b nested blocks, t the annotated type                     *)
(***************************************************************************)
EXTENDS Integers, Sequences, FiniteSets, TLC

\* op threaded through seq from left to right, as SequencesExt's FoldLeft.
\* Every intermediate result is computed before it is used, and the halves of
\* seq one after the other, which keeps the evaluation of a traversal shallow.
Thread(op(_, _), base, seq) ==
    LET RECURSIVE Over(_, _, _)
        Over(acc, i, j) ==
          IF i = j THEN op(acc, seq[i])
          ELSE CHOOSE r \in {Over(a, (i + j) \div 2 + 1, j) : a \in {Over(acc, i, (i + j) \div 2)}} : TRUE
    IN  IF seq = <<>> THEN base
        ELSE CHOOSE r \in {Over(a, 1, Len(seq)) : a \in {base}} : TRUE

\* F of the value v, which is computed first and not where F uses it.
Feed(v, F(_)) == CHOOSE r \in {F(y) : y \in {v}} : TRUE

\* F of v, which is computed, once, where F first needs it.
Bind(v, F(_)) == F(v)

----------------------------------------------------------------------------
(* Types. *)

Type(k) == [k |-> k, n |-> "", l |-> 0, s |-> <<>>]
NoType == Type("none")
U8 == Type("u8")
U32 == Type("u32")
Boolean == Type("bool")
Field == Type("field")
UnitType == Type("unit")
TupleType(ts) == [Type("tuple") EXCEPT !.s = ts]
ArrayType(el, len) == [Type("array") EXCEPT !.s = <<el>>, !.l = len]
CompositeType(name) == [Type("composite") EXCEPT !.n = name]
OptionalType(inner) == [Type("optional") EXCEPT !.s = <<inner>>]
I8 == Type("i8")
U16 == Type("u16")
I64 == Type("i64")
Group == Type("group")
Scalar == Type("scalar")
Address == Type("address")
Signature == Type("signature")
Identifier == Type("identifier")
DynRecord == Type("dynrecord")
MappingType(key, value) == [Type("mapping") EXCEPT !.s = <<key, value>>]
VectorType(el) == [Type("vector") EXCEPT !.s = <<el>>]
FutureType(ins) == [Type("future") EXCEPT !.s = ins]

\* Type::Numeric, the type of a numeral without a suffix whose context does not
\* say more, and Type::Err, the type of what has been reported already.
Numeric == Type("numeric")
ErrType == Type("err")

\* The length of an array that is not a literal yet.
Unknown == -1

----------------------------------------------------------------------------
(* Expressions.  A boolean literal is 0 or 1.  The n of a literal is its   *)
(* variant when the type does not give it: a numeral without a suffix or   *)
(* "none".  b is the body of a final block.                                *)

Expr(k, n, s, t) ==
    [k |-> k, n |-> n, v |-> 0, f |-> <<>>, s |-> s, b |-> <<>>, t |-> t]
Literal(v, t) == [Expr("Literal", "", <<>>, t) EXCEPT !.v = v]
Unsuffixed(v) == [Expr("Literal", "unsuffixed", <<>>, NoType) EXCEPT !.v = v]
NoneLiteral == Expr("Literal", "none", <<>>, NoType)
Async(body) == [Expr("Async", "", <<>>, NoType) EXCEPT !.b = body]
Repeat(e, count, t) == Expr("Repeat", "", <<e, count>>, t)
Path(x, t) == Expr("Path", x, <<>>, t)
Binary(op, l, r, t) == Expr("Binary", op, <<l, r>>, t)
Unary(op, e, t) == Expr("Unary", op, <<e>>, t)
Ternary(c, a, b, t) == Expr("Ternary", "", <<c, a, b>>, t)
Call(fn, args, t) == Expr("Call", fn, args, t)
Intrinsic(name, args, t) == Expr("Intrinsic", name, args, t)
Cast(e, t) == Expr("Cast", "", <<e>>, t)
Tuple(es, t) == Expr("Tuple", "", es, t)
TupleAccess(e, i, t) == [Expr("TupleAccess", "", <<e>>, t) EXCEPT !.v = i]
Array(es, t) == Expr("Array", "", es, t)
ArrayAccess(a, i, t) == Expr("ArrayAccess", "", <<a, i>>, t)
Composite(name, fields, es, t) ==
    [Expr("Composite", name, es, t) EXCEPT !.f = fields]
MemberAccess(e, field, t) == Expr("MemberAccess", field, <<e>>, t)
Unit == Expr("Unit", "", <<>>, UnitType)
Index(i) == Literal(i, U32)

IsPath(e) == e.k = "Path"
IsTuple(t) == t.k = "tuple"
IntegerTypes == {"u8", "i8", "u16", "u32", "i64"}
IsInteger(t) == t.k \in IntegerTypes

----------------------------------------------------------------------------
(* Statements.  A conditional has one or two blocks, an iteration has its  *)
(* bounds in e and its body in b; the n of one that includes its upper     *)
(* bound is "inclusive".                                                   *)

Stmt(k, n, ns, e, b) ==
    [k |-> k, n |-> n, ns |-> ns, e |-> e, b |-> b, t |-> NoType]
Definition(xs, e) == Stmt("Definition", "", xs, <<e>>, <<>>)
Let(x, e) == Definition(<<x>>, e)
LetAs(x, t, e) == [Let(x, e) EXCEPT !.t = t]
Const(x, t, e) == [Stmt("Const", "", <<x>>, <<e>>, <<>>) EXCEPT !.t = t]
Assign(place, e) == Stmt("Assign", "", <<>>, <<place, e>>, <<>>)
Conditional(c, blocks) == Stmt("Conditional", "", <<>>, <<c>>, blocks)
Block(ss) == Stmt("Block", "", <<>>, <<>>, <<ss>>)
AssertTrue(e) == Stmt("Assert", "Assert", <<>>, <<e>>, <<>>)
AssertEq(l, r) == Stmt("Assert", "AssertEq", <<>>, <<l, r>>, <<>>)
AssertNeq(l, r) == Stmt("Assert", "AssertNeq", <<>>, <<l, r>>, <<>>)
ExprStmt(e) == Stmt("Expression", "", <<>>, <<e>>, <<>>)
Return(e) == Stmt("Return", "", <<>>, <<e>>, <<>>)
Iteration(x, lo, hi, body) ==
    Stmt("Iteration", "", <<x>>, <<lo, hi>>, <<body>>)

\* Statement::dummy, an empty block.
Dummy == Block(<<>>)

IsEmpty(s) == \/ s.k = "Block" /\ s.b[1] = <<>>
              \/ s.k = "Return" /\ s.e[1].k = "Unit"

IsRemovable(s) == IsEmpty(s) /\ s.k # "Return"

----------------------------------------------------------------------------
(* Functions and programs.  Variants are those of functions/variant.rs.    *)

\* m is the mode: none, constant, private or public.
Param(x, t) == [n |-> x, t |-> t, m |-> "none"]

\* consts are the const parameters, modes those of the outputs and marks the
\* names of the other annotations.
Function(name, variant, ins, out, body) ==
    [n |-> name, variant |-> variant, ins |-> ins, out |-> out,
     body |-> body, noInline |-> FALSE, consts |-> <<>>,
     modes |-> <<>>, marks |-> {}]

\* The constructor comes last among the functions; its mark says who may upgrade.
Constructor(upgrade, body) ==
    [Function("constructor", "Constructor", <<>>, UnitType, body) EXCEPT
       !.marks = {upgrade}]

IsFinalizeContext(variant) == variant \in {"Finalize", "FinalFn"}

\* A program.  structs and params map a composite to its members and to its
\* const parameters; records are the composites that are records, external
\* those of other programs, hidden the ones that are not visible here; stubs
\* are the imported functions; globals maps a mapping, a storage variable or
\* a constant to its type t and its sort d; ctor names the mapping that a
\* "checksum" constructor reads.
Program(structs, funcs) ==
    [structs |-> structs, funcs |-> funcs, records |-> {}, external |-> {},
     hidden |-> {}, stubs |-> <<>>, globals |-> <<>>, consts |-> <<>>,
     params |-> <<>>, ctor |-> [mapping |-> "", key |-> NoType], library |-> {},
     isTest |-> FALSE]

FunctionNamed(p, name) ==
    p.funcs[CHOOSE i \in DOMAIN p.funcs : p.funcs[i].n = name]

\* The type of member f of a struct declared in p.
MemberType(p, comp, f) ==
    LET ms == p.structs[comp]
    IN  ms[CHOOSE i \in DOMAIN ms : ms[i].n = f].t

\* Assigner::unique_symbol: a name, a separator and the counter's value.
UniqueSymbol(x, sep, c) == x \o sep \o ToString(c)

----------------------------------------------------------------------------
(***************************************************************************)
(* Which expressions may be dropped when their value is not needed         *)
(* (ast/src/expressions, ast/src/functions/intrinsic.rs, passes/common).   *)
(***************************************************************************)

\* Intrinsic::is_pure is false of these.
ImpureIntrinsics ==
    {"Final::run", "Vector::set", "Vector::push", "Vector::clear", "Vector::pop",
     "Vector::swap_remove", "Hash::ped64", "Hash::ped128", "Mapping::remove",
     "Mapping::get", "Mapping::set", "Mapping::get_or_use", "Mapping::contains",
     "Dynamic::call", "Dynamic::contains", "Dynamic::get", "Dynamic::get_or_use",
     "Commit::bhp", "Commit::ped64", "Commit::ped128", "ECDSA::digest",
     "ECDSA::digest_eth", "ECDSA::keccak", "ECDSA::keccak_eth", "Snark::verify",
     "Snark::verify_batch", "ChaCha::rand", "Deserialize::from_bits",
     "Deserialize::from_bits_raw"}

IntrinsicIsPure(name) == name \notin ImpureIntrinsics

\* These become assertions and reads of the storage.
IntrinsicCanBeDiscarded(name) ==
    /\ name \notin {"Optional::unwrap", "Vector::get", "Vector::len"}
    /\ IntrinsicIsPure(name)

\* Expression::is_pure, at one node.
IsPureNode(e) ==
    CASE e.k = "Intrinsic" -> IntrinsicIsPure(e.n)
      [] e.k \in {"Call", "Async", "Cast"} -> FALSE
      [] e.k = "Binary" ->
           /\ e.n \notin {"Div", "DivWrapped", "Mod", "Rem", "RemWrapped", "Shl", "Shr"}
           /\ e.n \in {"Add", "Mul", "Pow", "Sub"} => ~IsInteger(e.t)
      [] e.k = "Unary" ->
           /\ e.n \notin {"Abs", "Inverse", "SquareRoot"}
           /\ e.n = "Negate" => ~IsInteger(e.t)
      [] e.k = "MemberAccess" -> e.s[1].t # DynRecord \/ e.n = "owner"
      [] OTHER -> TRUE

RECURSIVE IsPure(_)
IsPure(e) == IsPureNode(e) /\ \A i \in DOMAIN e.s : IsPure(e.s[i])

\* contains_non_discardable_operation, at one node.  storage are the names of
\* the storage variables that are not vectors.
IsDiscardableNode(e, storage) ==
    /\ e.k = "Intrinsic" => IntrinsicCanBeDiscarded(e.n)
    /\ e.k = "Path" => e.n \notin storage

\* expression_can_be_discarded.
RECURSIVE CanDiscard(_, _)
CanDiscard(e, storage) ==
    /\ IsPureNode(e)
    /\ IsDiscardableNode(e, storage)
    /\ \A i \in DOMAIN e.s : CanDiscard(e.s[i], storage)
=============================================================================
