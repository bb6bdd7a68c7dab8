--------------------------- MODULE OptionLowering ----------------------------
(***************************************************************************)
(* passes/src/option_lowering: an optional T? becomes a struct with the    *)
(* members is_some and val, and every value that is used as an optional is *)
(* wrapped in one.                                                         *)
(*                                                                         *)
(* A visit is given the type x that the context expects (NoType: none), and*)
(* yields the visitor z = [p, structs, out, c, bad], the expression e and  *)
(* the statements ss that come before it.  p is the program as it was,     *)
(* structs the composites as they become and out the output type of the    *)
(* function.                                                               *)
(***************************************************************************)
EXTENDS StorageLowering, TypeRules

Optional(t) == t.k = "optional"

----------------------------------------------------------------------------
(* Types. *)

\* make_optional_struct_symbol; the type has been lowered.
RECURSIVE TypeName(_)
TypeName(t) ==
    CASE t.k = "array" -> "[" \o TypeName(t.s[1]) \o "; " \o ToString(t.l) \o "]"
      [] t.k = "composite" -> "::" \o t.n
      [] OTHER -> t.k
OptionalName(t) == TypeName(t) \o "?"
Unnameable == {"tuple", "optional", "mapping", "numeric", "future", "vector",
               "identifier", "dynrecord", "err", "unit"}

RECURSIVE LowerType(_)
LowerType(t) ==
    LET t1 == [t EXCEPT !.s = [i \in DOMAIN t.s |-> LowerType(t.s[i])]]
    IN  IF Optional(t) THEN CompositeType(OptionalName(t1.s[1])) ELSE t1

\* The wrapper structs of a type, and whether each of them has a name.
RECURSIVE Wrappers(_)
Wrappers(t) ==
    LET inner == LowerType(t.s[1])
        own == IF Optional(t)
               THEN OptionalName(inner) :> <<Param("is_some", Boolean), Param("val", inner)>>
               ELSE <<>>
    IN  Thread(LAMBDA acc, i : acc @@ Wrappers(t.s[i]), own, [i \in DOMAIN t.s |-> i])
RECURSIVE Nameable(_)
Nameable(t) == /\ Optional(t) => LowerType(t.s[1]).k \notin Unnameable
               /\ \A i \in DOMAIN t.s : Nameable(t.s[i])

\* reconstruct_type: insert_optional_wrapper_struct for what t contains.
Lowering(z, t) ==
    [z EXCEPT !.structs = @ @@ Wrappers(t), !.bad = @ \/ ~Nameable(t)]

----------------------------------------------------------------------------
(* Values. *)

Wrapper(inner, is_some, val) ==
    Composite(OptionalName(LowerType(inner)), <<"is_some", "val">>,
              <<Literal(is_some, Boolean), val>>, NoType)

WrapOptionalValue(z, e, inner) == Lowered(Lowering(z, OptionalType(inner)), Wrapper(inner, 1, e), <<>>)

WrapNone(z, inner) ==
    Bind(Lowering(z, OptionalType(inner)), LAMBDA z1 :
    Lowered(z1, Wrapper(inner, 0, ZeroOf(z1.structs, LowerType(inner))), <<>>))

\* bind_optional_receiver.
BindOptionalReceiver(z, e) == Bound(z, "$opt", e)

\* What is expected of the elements, or of element i of a tuple.
Bare(t) == IF Optional(t) THEN t.s[1] ELSE t
Expected(x, e) == Bare(IF x = NoType THEN e.t ELSE x)

\* The types that the parts of e are visited with.
ExpectedParts(z, e, x) ==
    LET t == Expected(x, e)
        fn == FunctionNamed(z.p, e.n)
        prms == fn.consts \o fn.ins
    IN  CASE e.k = "Array" -> [i \in DOMAIN e.s |-> t.s[1]]
          [] e.k = "Repeat" -> <<IF t.k = "array" THEN t.s[1] ELSE NoType, NoType>>
          [] e.k = "Tuple" -> [i \in DOMAIN e.s |-> t.s[i]]
          [] e.k = "Call" -> [i \in DOMAIN e.s |-> prms[i].t]
          [] e.k = "Composite" ->
               [i \in DOMAIN e.s |-> IF i - e.v \in DOMAIN e.f
                                     THEN MemberType([structs |-> z.old @@ z.structs], t.n,
                                                     e.f[i - e.v])
                                     ELSE NoType]
          [] e.k = "Ternary" -> LET arm == IF x = NoType THEN e.t ELSE x
                                IN  <<NoType, arm, arm>>
          [] OTHER -> [i \in DOMAIN e.s |-> NoType]

----------------------------------------------------------------------------
(* Expressions. *)

RECURSIVE LowerOption(_, _, _)
LowerOptions(z, es, xs) ==
    Thread(LAMBDA acc, i : Bind(LowerOption(acc.z, es[i], xs[i]), LAMBDA r :
                           [z |-> r.z, e |-> Append(acc.e, r.e), ss |-> acc.ss \o r.ss]),
           [z |-> z, e |-> <<>>, ss |-> <<>>], [i \in DOMAIN es |-> i])

Val_(e, t) == MemberAccess(e, "val", t)
IsSome(e) == MemberAccess(e, "is_some", Boolean)

OptionalUnwrap(z, e) ==
    Bind(LowerOption(z, e.s[1], NoType), LAMBDA r :
    LET opt == BindOptionalReceiver(r.z, r.e)
    IN  Lowered(opt.z, Val_(opt.x, e.s[1].t.s[1]),
              r.ss \o <<opt.s, AssertTrue(IsSome(opt.x))>>))

OptionalUnwrapOr(z, e) ==
    Bind(LowerOption(z, e.s[1], NoType), LAMBDA r :
    LET inner == e.s[1].t.s[1]
    IN  Bind(LowerOption(r.z, e.s[2], inner), LAMBDA other :
        LET opt == BindOptionalReceiver(other.z, r.e)
        IN  Lowered(opt.z, Ternary(IsSome(opt.x), Val_(opt.x, inner), other.e, inner),
                  r.ss \o other.ss \o <<opt.s>>)))

LowerNode(z, e, x) ==
    Bind(LowerOptions(z, e.s, ExpectedParts(z, e, x)), LAMBDA r :
    CASE e.k = "Intrinsic" /\ e.n = "Optional::unwrap" -> OptionalUnwrap(z, e)
      [] e.k = "Intrinsic" /\ e.n = "Optional::unwrap_or" -> OptionalUnwrapOr(z, e)
      [] OTHER -> Lowered(r.z, [e EXCEPT !.s = r.e], r.ss))

\* reconstruct_expression: a value that the context uses as an optional.
LowerOption(z, e, x) ==
    Bind(LowerNode(z, e, x), LAMBDA r :
    Bind(WrapOptionalValue(r.z, r.e, x.s[1]), LAMBDA w :
    CASE e.k = "Literal" /\ e.n = "none" ->
           IF Optional(e.t) THEN WrapNone(z, e.t.s[1])
           ELSE Lowered([z EXCEPT !.bad = TRUE], e, <<>>)
      [] ~(e.k = "Literal" /\ e.n = "none") /\ Optional(x) ->
           CASE r.e.t = NoType -> Lowered([r.z EXCEPT !.bad = TRUE], r.e, r.ss)
             [] r.e.t # NoType /\ CanCoerceTo(r.e.t, x.s[1]) -> Lowered(w.z, w.e, r.ss)
             [] OTHER -> r
      [] OTHER -> r))

----------------------------------------------------------------------------
(* Statements. *)

ExpectedOf(z, s) ==
    CASE s.k = "Definition" -> <<IF s.t = NoType THEN s.e[1].t ELSE s.t>>
      [] s.k = "Const" -> <<s.t>>
      [] s.k = "Assign" -> <<NoType, s.e[1].t>>
      [] s.k = "Return" -> <<z.out>>
      [] OTHER -> [i \in DOMAIN s.e |-> NoType]

RECURSIVE OptionStatement(_, _)
OptionBlock(z, ss) ==
    Thread(LAMBDA acc, s : Bind(OptionStatement(acc.z, s), LAMBDA r :
                           [z |-> r.z, b |-> acc.b \o Append(r.ss, r.s)]),
           [z |-> z, b |-> <<>>], ss)

\* The blocks come after the condition; the statements of an else-if stay in
\* the else branch.
OptionStatement(z, s) ==
    Bind(LowerOptions(z, s.e, ExpectedOf(z, s)), LAMBDA es :
    Bind(Thread(LAMBDA acc, b : Bind(OptionBlock(acc.z, b), LAMBDA r :
                                [z |-> r.z, b |-> Append(acc.b, r.b)]),
                [z |-> Lowering(es.z, s.t), b |-> <<>>], s.b), LAMBDA bs :
    [z |-> bs.z, ss |-> es.ss,
     s |-> [s EXCEPT !.e = es.e, !.b = bs.b, !.t = LowerType(@)]]))

----------------------------------------------------------------------------
(* The pass. *)

LowerMembers(ps) == [i \in DOMAIN ps |-> [ps[i] EXCEPT !.t = LowerType(@)]]
TypesOf(ps) == [i \in DOMAIN ps |-> ps[i].t]

\* reconstruct_function; the output type of a constructor is not looked up.
OptionFunction(z, fn) ==
    LET z1 == [z EXCEPT !.out = IF fn.variant = "Constructor" THEN @ ELSE fn.out]
        z2 == Thread(Lowering, z1, TypesOf(fn.consts \o fn.ins) \o <<fn.out>>)
    IN  Bind(OptionBlock(z2, fn.body), LAMBDA r :
        [z |-> r.z, fn |-> [fn EXCEPT !.consts = LowerMembers(@), !.ins = LowerMembers(@),
                                      !.out = LowerType(@), !.body = r.b]])

\* do_pass: the composites come first.
LowerOptionProgram(u) ==
    LET lowered == [s \in DOMAIN u.p.structs |-> LowerMembers(u.p.structs[s])]
        z0 == [p |-> u.p, old |-> u.p.structs, structs |-> lowered, out |-> NoType,
               c |-> u.c, bad |-> u.bad]
        z1 == Thread(Lowering, z0,
                     FlattenSeq([i \in 1 .. Cardinality(DOMAIN u.p.structs) |->
                                   TypesOf(u.p.structs[SetToSeq(DOMAIN u.p.structs)[i]])]))
    IN  Bind(Thread(LAMBDA acc, fn : Bind(OptionFunction(acc.z, fn), LAMBDA f :
                                     [z |-> f.z, fs |-> Append(acc.fs, f.fn)]),
                    [z |-> z1, fs |-> <<>>], u.p.funcs), LAMBDA r :
        [u EXCEPT !.p.funcs = r.fs, !.p.structs = r.z.structs, !.c = r.z.c, !.bad = r.z.bad])
=============================================================================
