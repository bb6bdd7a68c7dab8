--------------------------- MODULE StorageLowering ---------------------------
(***************************************************************************)
(* passes/src/storage_lowering: storage variables and storage vectors      *)
(* become mappings, and what is done with them operations on mappings.     *)
(*                                                                         *)
(* A visit of an expression yields the visitor z = [p, c, bad], the        *)
(* expression e and the statements ss that come before the statement it    *)
(* stands in.                                                              *)
(***************************************************************************)
EXTENDS LeoAst, SequencesExt

Lowered(z, e, ss) == [z |-> z, e |-> e, ss |-> ss]

\* The mappings of a storage variable: its values and the length of a vector.
ValuesOf(x) == x \o "__"
LengthOf(x) == x \o "__len__"

False == Literal(0, Boolean)
Zero32 == Literal(0, U32)
One32 == Literal(1, U32)
NoValue == Expr("Literal", "none", <<>>, NoType)

On(m, op, args) == [Intrinsic("Mapping::" \o op, args, NoType) EXCEPT !.f = <<m>>]
GetVectorLen(v) == On(LengthOf(v), "get_or_use", <<False, Zero32>>)
SetVectorLen(v, e) == On(LengthOf(v), "set", <<False, e>>)
Op(op, l, r) == Binary(op, l, r, NoType)

\* Expression::zero; an optional has none.
RECURSIVE ZeroOf(_, _)
ZeroOf(structs, t) ==
    CASE t.k = "composite" ->
           LET ms == structs[t.n]
           IN  Composite(t.n, [i \in DOMAIN ms |-> ms[i].n],
                         [i \in DOMAIN ms |-> ZeroOf(structs, ms[i].t)], NoType)
      [] t.k = "array" -> Repeat(ZeroOf(structs, t.s[1]), Literal(t.l, U32), NoType)
      [] OTHER -> Literal(0, t)

\* The storage variables of p that are not vectors.
Singletons(p) == {g \in DOMAIN p.globals : p.globals[g].d = "Storage" /\ p.globals[g].t.k # "vector"}
VectorElement(p, v) == p.globals[v].t.s[1]

\* let name$c = e, and the path to it.
Bound(z, name, e) ==
    LET x == UniqueSymbol(name, "$", z.c)
    IN  [z |-> [z EXCEPT !.c = @ + 1], s |-> Let(x, e), x |-> Path(x, NoType)]

\* An argument that cannot be discarded is evaluated here, once.
BoundUnless(discardable, r, name) ==
    LET b == Bound(r.z, name, r.e)
    IN  IF discardable THEN r ELSE Lowered(b.z, b.x, Append(r.ss, b.s))

----------------------------------------------------------------------------
(* Vectors.  args are the visited arguments, olds the ones of the source.  *)

VectorPush(z, v, value) ==
    Bind(BoundUnless(CanDiscard(value.old, Singletons(z.p)), value, "$push_value"), LAMBDA r :
    Bind(Bound(r.z, "$len_var", GetVectorLen(v)), LAMBDA len :
    Lowered(len.z, On(ValuesOf(v), "set", <<len.x, r.e>>),
          r.ss \o <<len.s, ExprStmt(SetVectorLen(v, Op("Add", len.x, One32)))>>)))

VectorLen(z, v) == Lowered(z, GetVectorLen(v), <<>>)

VectorPop(z, v) ==
    Bind(Bound(z, "$len_var", GetVectorLen(v)), LAMBDA len :
    LET any == Op("Gt", len.x, Zero32)
        last == Op("SubWrapped", len.x, One32)
    IN  Lowered(len.z,
              Ternary(any, On(ValuesOf(v), "get_or_use",
                              <<last, ZeroOf(z.p.structs, VectorElement(z.p, v))>>),
                      NoValue, NoType),
              <<len.s, ExprStmt(SetVectorLen(v, Ternary(any, last, len.x, NoType)))>>))

VectorGet(z, v, index) ==
    Bind(BoundUnless(CanDiscard(index.old, Singletons(z.p)), index, "$index"), LAMBDA r :
    Bind(Bound(r.z, "$len_var", GetVectorLen(v)), LAMBDA len :
    Lowered(len.z,
          Ternary(Op("Lt", r.e, len.x),
                  On(ValuesOf(v), "get_or_use",
                     <<r.e, ZeroOf(z.p.structs, VectorElement(z.p, v))>>),
                  NoValue, NoType),
          Append(r.ss, len.s))))

VectorSet(z, v, index, value) ==
    Bind(Bound(z, "$len_var", GetVectorLen(v)), LAMBDA len :
    Lowered(len.z, On(ValuesOf(v), "set", <<index.e, value.e>>),
          index.ss \o value.ss \o <<len.s, AssertTrue(Op("Lt", index.e, len.x))>>))

VectorClear(z, v) == Lowered(z, SetVectorLen(v, Zero32), <<>>)

\* The last element takes the place of the one that is removed.
VectorSwapRemove(z, v, index) ==
    Bind(Bound(z, "$len_var", GetVectorLen(v)), LAMBDA len :
    LET removed == Bound(len.z, "$removed", On(ValuesOf(v), "get", <<index.e>>))
        last == Op("Sub", len.x, One32)
    IN  Lowered(removed.z, removed.x,
              index.ss \o
              <<len.s, AssertTrue(Op("Lt", index.e, len.x)), removed.s,
                ExprStmt(On(ValuesOf(v), "set",
                            <<index.e, On(ValuesOf(v), "get", <<last>>)>>)),
                ExprStmt(SetVectorLen(v, last))>>))

----------------------------------------------------------------------------
(* Expressions. *)

\* reconstruct_path_or_locator: a storage variable holds something or not.
LowerPath(z, e) ==
    LET var == z.p.globals[e.n]
        m == ValuesOf(e.n)
    IN  CASE e.n \notin DOMAIN z.p.globals -> Lowered(z, e, <<>>)
          [] e.n \in DOMAIN z.p.globals /\ var.t.k = "mapping" -> Lowered(z, e, <<>>)
          [] e.n \in DOMAIN z.p.globals /\ var.t.k = "optional" ->
               Lowered(z, Ternary(On(m, "contains", <<False>>),
                                On(m, "get_or_use",
                                   <<False, ZeroOf(z.p.structs, var.t.s[1])>>),
                                NoValue, NoType), <<>>)
          [] OTHER -> Lowered([z EXCEPT !.bad = TRUE], e, <<>>)

RECURSIVE Lower(_, _)

\* The parts of an expression, each with its statements and its source.
LowerParts(z, es) ==
    Thread(LAMBDA acc, e : Bind(Lower(acc.z, e), LAMBDA r :
                           [z |-> r.z,
                            s |-> Append(acc.s, [z |-> r.z, e |-> r.e, ss |-> r.ss, old |-> e])]),
           [z |-> z, s |-> <<>>], es)

Lower(z0, e) ==
    Bind(LowerParts(z0, e.s), LAMBDA parts :
    LET z == parts.z
        a == parts.s
        v == e.f[1]
    IN  CASE e.k = "Path" -> LowerPath(z, e)
          [] e.k = "Intrinsic" /\ e.n = "Vector::push" -> VectorPush(z, v, a[1])
          [] e.k = "Intrinsic" /\ e.n = "Vector::len" -> VectorLen(z, v)
          [] e.k = "Intrinsic" /\ e.n = "Vector::pop" -> VectorPop(z, v)
          [] e.k = "Intrinsic" /\ e.n = "Vector::get" -> VectorGet(z, v, a[1])
          [] e.k = "Intrinsic" /\ e.n = "Vector::set" -> VectorSet(z, v, a[1], a[2])
          [] e.k = "Intrinsic" /\ e.n = "Vector::clear" -> VectorClear(z, v)
          [] e.k = "Intrinsic" /\ e.n = "Vector::swap_remove" -> VectorSwapRemove(z, v, a[1])
          [] OTHER -> Lowered(z, [e EXCEPT !.s = [i \in DOMAIN a |-> a[i].e]],
                            FlattenSeq([i \in DOMAIN a |-> a[i].ss])))

----------------------------------------------------------------------------
(* Statements. *)

\* A storage variable is set or, with none, removed.
LowerAssign(z, s) ==
    LET x == s.e[1].n
    IN  Bind(Lower(z, s.e[2]), LAMBDA r :
        Bind(Lower(z, s.e[1]), LAMBDA place :
        Bind(Lower(place.z, s.e[2]), LAMBDA value :
        LET removed == r.e.k = "Literal" /\ r.e.n = "none"
        IN  IF IsPath(s.e[1]) /\ x \in DOMAIN z.p.globals
            THEN [z |-> r.z, ss |-> r.ss,
                  s |-> ExprStmt(IF removed THEN On(ValuesOf(x), "remove", <<False>>)
                                 ELSE On(ValuesOf(x), "set", <<False, r.e>>))]
            ELSE [z |-> value.z, ss |-> place.ss \o value.ss,
                  s |-> [s EXCEPT !.e = <<place.e, value.e>>]])))

\* What is left of an expression statement must still be one.
LowerExpressionStatement(z, s) ==
    LET keep == ~CanDiscard(s.e[1], Singletons(z.p))
    IN  Bind(Lower(z, s.e[1]), LAMBDA r :
        LET legal == r.e.k \in {"Call", "Intrinsic"}
            b == Bound(r.z, "$discard", r.e)
        IN  CASE legal -> [z |-> r.z, ss |-> r.ss, s |-> ExprStmt(r.e)]
              [] ~legal /\ keep -> [z |-> b.z, ss |-> r.ss, s |-> b.s]
              [] OTHER -> [z |-> r.z, ss |-> r.ss, s |-> ExprStmt(Unit)])

RECURSIVE LowerStatement(_, _)
LowerBlock(z, ss) ==
    Thread(LAMBDA acc, s : Bind(LowerStatement(acc.z, s), LAMBDA r :
                           [z |-> r.z, b |-> acc.b \o Append(r.ss, r.s)]),
           [z |-> z, b |-> <<>>], ss)

\* The statements that an else-if needs come before the whole conditional.
LowerConditional(z, s) ==
    Bind(Lower(z, s.e[1]), LAMBDA cond :
    Bind(LowerBlock(cond.z, s.b[1]), LAMBDA then :
    LET chained == Len(s.b) = 2 /\ s.n = "elseif" /\ Len(s.b[2]) = 1
                   /\ s.b[2][1].k = "Conditional"
    IN  Bind(LowerStatement(then.z, s.b[2][1]), LAMBDA inner :
        Bind(LowerBlock(then.z, s.b[2]), LAMBDA else :
        LET With(z1, ss, blocks) == [z |-> z1, ss |-> cond.ss \o ss,
                                     s |-> [s EXCEPT !.e = <<cond.e>>, !.b = blocks]]
        IN  CASE Len(s.b) = 1 -> With(then.z, <<>>, <<then.b>>)
              [] Len(s.b) = 2 /\ chained -> With(inner.z, inner.ss, <<then.b, <<inner.s>>>>)
              [] OTHER -> With(else.z, <<>>, <<then.b, else.b>>)))))

\* Asserts, definitions, constants and returns; there are no iterations.
LowerSimple(z, s) ==
    Bind(LowerParts(z, s.e), LAMBDA r :
    [z |-> [r.z EXCEPT !.bad = @ \/ s.k = "Iteration"],
     ss |-> FlattenSeq([i \in DOMAIN r.s |-> r.s[i].ss]),
     s |-> [s EXCEPT !.e = [i \in DOMAIN r.s |-> r.s[i].e]]])

LowerStatement(z, s) ==
    Bind(LowerBlock(z, s.b[1]), LAMBDA r :
    CASE s.k = "Assign" -> LowerAssign(z, s)
      [] s.k = "Conditional" -> LowerConditional(z, s)
      [] s.k = "Expression" -> LowerExpressionStatement(z, s)
      [] s.k = "Block" -> [z |-> r.z, ss |-> <<>>, s |-> [s EXCEPT !.b = <<r.b>>]]
      [] OTHER -> LowerSimple(z, s))

----------------------------------------------------------------------------
(* The pass. *)

(* Mutant: every storage variable becomes one mapping keyed by a boolean. *)
NewMappingsOfSingletons(p) ==
    LET stored == {g \in DOMAIN p.globals : p.globals[g].d = "Storage"}
    IN  [m \in {ValuesOf(g) : g \in stored} |->
           [t |-> MappingType(Boolean, VectorElement(p, CHOOSE h \in stored : ValuesOf(h) = m)),
            d |-> "Mapping"]]

\* reconstruct_storage_variable.
NewMappings(p) ==
    LET stored == {g \in DOMAIN p.globals : p.globals[g].d = "Storage"}
        vectors == stored \ Singletons(p)
        Global(key, value) == [t |-> MappingType(key, value), d |-> "Mapping"]
    IN  [m \in {ValuesOf(g) : g \in stored} |->
           LET g == CHOOSE h \in stored : ValuesOf(h) = m
           IN  Global(IF g \in vectors THEN U32 ELSE Boolean, VectorElement(p, g))]
        @@ [m \in {LengthOf(g) : g \in vectors} |-> Global(Boolean, U32)]

LowerStorageProgram(u) ==
    LET One(acc, fn) == Bind(LowerBlock(acc.z, fn.body), LAMBDA r :
                        [z |-> r.z, fs |-> Append(acc.fs, [fn EXCEPT !.body = r.b])])
    IN  Bind(Thread(One, [z |-> [p |-> u.p, c |-> u.c, bad |-> u.bad], fs |-> <<>>], u.p.funcs), LAMBDA r :
        [u EXCEPT !.p.funcs = r.fs, !.p.globals = @ @@ NewMappings(u.p),
                  !.c = r.z.c, !.bad = r.z.bad])
=============================================================================
