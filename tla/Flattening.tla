----------------------------- MODULE Flattening -----------------------------
(***************************************************************************)
(* passes/src/flattening: off chain, the branches of conditionals are put  *)
(* one after the other, assertions are weakened by the path condition and  *)
(* by the early returns met before them, and the returns are folded into   *)
(* one at the end.  Code of a finalize context keeps its conditionals.     *)
(*                                                                         *)
(* st.conds is the condition stack (a guard is "built" once it has been    *)
(* conjoined with all guards below it), st.rets the returns met so far.    *)
(***************************************************************************)
EXTENDS LeoAst, SequencesExt

LOCAL Out(st, e, ss) == [st |-> st, e |-> e, ss |-> ss]
LOCAL Panic(st) == [st EXCEPT !.bad = TRUE]
LOCAL Fresh(st) == [st EXCEPT !.c = @ + 1]
LOCAL Bool(x) == Path(x, Boolean)

FlatDefinition(st, x, e) ==
    [st |-> [st EXCEPT !.bad = @ \/ e.t = NoType], s |-> Let(x, e)]

\* unique_simple_definition.
FlatUniqueDefinition(st, e) ==
    LET x == UniqueSymbol("$var", "$", st.c)
        d == FlatDefinition(Fresh(st), x, e)
    IN  [st |-> d.st, e |-> Path(x, e.t), s |-> d.s]

----------------------------------------------------------------------------
(* Guards (visitor.rs)                                                     *)

(* Mutant: a guard is the innermost condition alone. *)
ConstructGuardInnermost(st) ==
    Out([st EXCEPT !.conds = [i \in DOMAIN @ |-> [@[i] EXCEPT !.built = TRUE]]], 0, <<>>)

\* construct_guard: the conjunction of the conditions on the stack.  What
\* has been built is kept on the stack and reused.
ConstructGuard(st) ==
    LET step(acc, i) ==
          LET cond == acc.st.conds[i]
              g == UniqueSymbol("guard", "$", acc.st.c)
          IN  IF cond.built THEN acc
              ELSE IF i = 1
              THEN Out([acc.st EXCEPT !.conds[1].built = TRUE], 0, acc.ss)
              ELSE Out([Fresh(acc.st) EXCEPT
                          !.conds[i] = [built |-> TRUE, x |-> g]], 0,
                       Append(acc.ss,
                              Let(g, Binary("And", Bool(acc.st.conds[i - 1].x),
                                            Bool(cond.x), Boolean))))
    IN  Thread(step, Out(st, 0, <<>>), [i \in DOMAIN st.conds |-> i])

\* construct_early_return_guard: true iff one of the returns so far was
\* taken.  A return that no condition guards makes it the constant true,
\* whose literal has no recorded type.
ConstructEarlyReturnGuard(st) ==
    LET step(acc, i) ==
          LET ret == acc.st.rets[i]
              g == UniqueSymbol("guard", "$", acc.st.c)
          IN  IF ret.guard = "built" THEN acc
              ELSE IF i = 1
              THEN Out([acc.st EXCEPT !.rets[1].guard = "built",
                                      !.rets[1].any = ret.plain], 0, acc.ss)
              ELSE Out([Fresh(acc.st) EXCEPT !.rets[i].guard = "built",
                                             !.rets[i].any = g], 0,
                       Append(acc.ss,
                              Let(g, Binary("Or", Bool(acc.st.rets[i - 1].any),
                                            Bool(ret.plain), Boolean))))
    IN  Bind(Thread(step, Out(st, 0, <<>>), [i \in DOMAIN st.rets |-> i]), LAMBDA r :
        LET t == UniqueSymbol("true", "$", st.c)
            d == FlatDefinition(Fresh(st), t, Literal(1, NoType))
        IN  IF \E i \in DOMAIN st.rets : st.rets[i].guard = "none"
            THEN Out(d.st, Bool(t), <<d.s>>)
            ELSE Out(r.st, Bool(Last(r.st.rets).any), r.ss))

----------------------------------------------------------------------------
(* Ternaries                                                               *)

RECURSIVE FlattenTernary(_, _, _)

\* Part i of e, an array, a struct or a tuple; a tuple may be a literal.
LOCAL PartOf(p, e, i) ==
    CASE e.t.k = "array" -> ArrayAccess(e, Index(i - 1), e.t.s[1])
      [] e.t.k = "composite" ->
           MemberAccess(e, p.structs[e.t.n][i].n, p.structs[e.t.n][i].t)
      [] e.t.k = "tuple" ->
           IF e.k = "Tuple" THEN e.s[i] ELSE TupleAccess(e, i - 1, e.t.s[i])

\* ternary_array, ternary_composite and ternary_tuple: the parts of both
\* sides get names, a ternary chooses between each pair, and the result is
\* rebuilt under a name (unless it is made from tuple literals).
TernaryOfParts(p, st, e, n) ==
    LET a == e.s[2]
        b == e.s[3]
        step(acc, i) ==
          Bind(FlatUniqueDefinition(acc.st, PartOf(p, a, i)), LAMBDA d1 :
          Bind(FlatUniqueDefinition(d1.st, PartOf(p, b, i)), LAMBDA d2 :
          Bind(FlattenTernary(p, d2.st,
                              Ternary(e.s[1], d1.e, d2.e, d1.e.t)), LAMBDA r :
          Out(r.st, Append(acc.e, r.e), acc.ss \o <<d1.s, d2.s>> \o r.ss))))
    IN  Bind(Thread(step, Out(st, <<>>, <<>>), [i \in 1 .. n |-> i]), LAMBDA parts :
        LET whole == CASE a.t.k = "array" -> Array(parts.e, a.t)
                       [] a.t.k = "tuple" -> Tuple(parts.e, a.t)
                       [] a.t.k = "composite" ->
                            Composite(a.t.n,
                                      [i \in 1 .. n |-> p.structs[a.t.n][i].n],
                                      parts.e, a.t)
        IN  Bind(FlatUniqueDefinition(parts.st, whole), LAMBDA d :
            IF a.k = "Tuple" THEN Out(parts.st, whole, parts.ss)
            ELSE Out(d.st, d.e, Append(parts.ss, d.s))))

\* reconstruct_ternary.
FlattenTernary(p, st, e) ==
    LET t == e.s[2].t
        simple == IsPath(e.s[2]) /\ IsPath(e.s[3])
    IN  IF t = NoType \/ e.s[3].t # t \/ (t.k # "tuple" /\ ~simple)
        THEN Out(Panic(st), e, <<>>)
        ELSE CASE t.k = "array" -> TernaryOfParts(p, st, e, t.l)
               [] t.k = "composite" ->
                    TernaryOfParts(p, st, e, Len(p.structs[t.n]))
               [] t.k = "tuple" -> TernaryOfParts(p, st, e, Len(t.s))
               [] OTHER -> Out(st, e, <<>>)

\* Only ternaries change; after SSA a ternary is never an operand.
FlattenExpression(p, st, e) ==
    IF e.k = "Ternary" THEN FlattenTernary(p, st, e) ELSE Out(st, e, <<>>)

----------------------------------------------------------------------------
(* Returns *)

\* fold_guards and fold_returns: the first return whose guard holds counts.
FoldReturns(p, st, body) ==
    LET rets == st.rets
        step(acc, i) ==
          LET ret == rets[Len(rets) - i]
              x == UniqueSymbol("$ret", "$", acc.st.c)
          IN  Bind(FlattenTernary(p, Fresh(acc.st),
                                  Ternary(Bool(ret.plain), ret.e, acc.e,
                                          ret.e.t)), LAMBDA r :
              LET d == FlatDefinition(r.st, x, r.e)
              IN  IF r.e.k = "Tuple" THEN Out(r.st, r.e, acc.ss \o r.ss)
                  ELSE Out(d.st, Path(x, r.e.t), acc.ss \o Append(r.ss, d.s)))
    IN  Bind(Thread(step, Out(st, Last(rets).e, <<>>),
                    [i \in 1 .. (Len(rets) - 1) |-> i]), LAMBDA r :
        IF rets = <<>> THEN Out(st, Append(body, Return(Unit)), <<>>)
        ELSE IF Last(rets).e.k = "Unit"
        THEN Out(st, Append(body, Return(Unit)), <<>>)
        ELSE Out(r.st, body \o Append(r.ss, Return(r.e)), <<>>))

\* reconstruct_return.
FlattenReturn(st, s) ==
    Bind(ConstructGuard(st), LAMBDA g :
    LET ret == IF st.conds = <<>>
               THEN [guard |-> "none", plain |-> "", any |-> "", e |-> s.e[1]]
               ELSE [guard |-> "unbuilt", plain |-> Last(g.st.conds).x,
                     any |-> "", e |-> s.e[1]]
    IN  IF st.fin THEN Out(st, s, <<>>)
        ELSE Out([g.st EXCEPT !.rets = Append(@, ret)], Dummy, g.ss))

----------------------------------------------------------------------------
(* The other statements (ast.rs)                                           *)

\* reconstruct_assert.
FlattenAssert(p, st, s) ==
    Bind(Thread(LAMBDA acc, e :
                  Bind(FlattenExpression(p, acc.st, e), LAMBDA r :
                  Out(r.st, Append(acc.e, r.e), acc.ss \o r.ss)),
                Out(st, <<>>, <<>>), s.e), LAMBDA operands :
    Bind(ConstructGuard(operands.st), LAMBDA g :
    Bind(FlatUniqueDefinition(g.st, Unary("Not", Bool(Last(g.st.conds).x),
                                          Boolean)), LAMBDA not :
    LET path == IF operands.st.conds = <<>>
                THEN Out(operands.st, <<>>, <<>>)
                ELSE Out(not.st, <<not.e>>, Append(g.ss, not.s))
    IN  Bind(ConstructEarlyReturnGuard(path.st), LAMBDA early :
        Bind(IF path.st.rets = <<>> THEN path
             ELSE Out(early.st, Append(path.e, early.e),
                      path.ss \o early.ss), LAMBDA guards :
        Bind(FlatUniqueDefinition(guards.st,
               Binary(IF s.n = "AssertEq" THEN "Eq" ELSE "Neq",
                      operands.e[1], operands.e[2], Boolean)), LAMBDA compare :
        LET claim == IF s.n = "Assert" THEN Out(guards.st, operands.e[1], <<>>)
                     ELSE Out(compare.st, compare.e, <<compare.s>>)
        IN  Bind(Thread(LAMBDA acc, guard :
                          Bind(FlatUniqueDefinition(acc.st,
                                 Binary("Or", acc.e, guard, Boolean)), LAMBDA d :
                          Out(d.st, d.e, Append(acc.ss, d.s))),
                        claim, guards.e), LAMBDA weaker :
            IF st.fin THEN Out(st, s, <<>>)
            ELSE IF guards.e = <<>>
            THEN Out(operands.st, [s EXCEPT !.e = operands.e], operands.ss)
            ELSE Out(weaker.st, AssertTrue(weaker.e),
                     operands.ss \o guards.ss \o weaker.ss))))))))

RECURSIVE FlattenBlock(_, _, _)

\* One branch of a conditional: its condition e gets a name, and is on the
\* stack while the block is flattened.
FlattenBranch(p, st, e, block) ==
    LET x == UniqueSymbol("condition", "$", st.c)
        d == FlatDefinition(Fresh(st), x, e)
    IN  Bind(FlattenBlock(p, [d.st EXCEPT !.conds =
                                Append(@, [built |-> FALSE, x |-> x])], block), LAMBDA b :
        Out([b.st EXCEPT !.conds = Front(@)], 0, <<d.s>> \o b.e))

\* reconstruct_conditional.
FlattenConditional(p, st, s) ==
    LET c == s.e[1]
    IN  Bind(FlattenBranch(p, st, c, s.b[1]), LAMBDA a :
        Bind(FlattenBranch(p, a.st, Unary("Not", c, Boolean), s.b[2]), LAMBDA b :
        Bind(FlattenBlock(p, st, s.b[1]), LAMBDA then :
        Bind(IF Len(s.b) = 2 THEN FlattenBlock(p, then.st, s.b[2])
             ELSE Out(then.st, <<>>, <<>>), LAMBDA else :
        IF st.fin THEN Out(else.st, Conditional(c, <<then.e, else.e>>), <<>>)
        ELSE IF Len(s.b) = 2 THEN Out(b.st, Dummy, a.ss \o b.ss)
        ELSE Out(a.st, Dummy, a.ss)))))

\* reconstruct_definition.
FlattenDefinition(p, st, s) ==
    Bind(FlattenExpression(p, st, s.e[1]), LAMBDA r :
    Out([r.st EXCEPT !.bad = @ \/ r.e.t = NoType],
        Definition(s.ns, r.e), r.ss))

FlattenStatement(p, st, s) ==
    CASE s.k = "Assert" -> FlattenAssert(p, st, s)
      [] s.k \in {"Assign", "Iteration"} -> Out(Panic(st), s, <<>>)
      [] s.k = "Block" -> Bind(FlattenBlock(p, st, s.b[1]), LAMBDA r :
                          Out(r.st, Block(r.e), <<>>))
      [] s.k = "Conditional" -> FlattenConditional(p, st, s)
      [] s.k = "Definition" -> FlattenDefinition(p, st, s)
      [] s.k = "Expression" -> Out(st, s, <<>>)
      [] s.k = "Return" -> FlattenReturn(st, s)

\* reconstruct_block: what became empty stays, as an empty block.
FlattenBlock(p, st, ss) ==
    Thread(LAMBDA acc, s : Bind(FlattenStatement(p, acc.st, s), LAMBDA r :
                           Out(r.st, Append(acc.e \o r.ss, r.e), <<>>)),
           Out(st, <<>>, <<>>), ss)

\* reconstruct_function and reconstruct_constructor.
FlattenFunction(p, st, fn) ==
    Bind(FlattenBlock(p, [st EXCEPT !.fin = \/ fn.variant = "Constructor"
                                            \/ IsFinalizeContext(fn.variant)],
                      fn.body), LAMBDA r :
    Bind(FoldReturns(p, r.st, r.e), LAMBDA folded :
    Out([folded.st EXCEPT !.rets = <<>>],
        [fn EXCEPT !.body = folded.e], <<>>)))

FlattenProgram(u) ==
    LET st0 == [c |-> u.c, conds |-> <<>>, rets |-> <<>>, fin |-> FALSE,
                bad |-> u.bad]
    IN  Bind(Thread(LAMBDA acc, fn :
                      Bind(FlattenFunction(u.p, acc.st, fn), LAMBDA g :
                      Out(g.st, Append(acc.e, g.e), <<>>)),
                    Out(st0, <<>>, <<>>), u.p.funcs), LAMBDA r :
        [u EXCEPT !.p.funcs = r.e, !.c = r.st.c, !.bad = r.st.bad])
=============================================================================
