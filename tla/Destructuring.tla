--------------------------- MODULE Destructuring ----------------------------
(***************************************************************************)
(* passes/src/destructuring: a variable of tuple type becomes one variable *)
(* per element.  st.tuples maps the tuples met so far to their element     *)
(* variables; c and bad are as in SsaForming.                              *)
(***************************************************************************)
EXTENDS LeoAst, SequencesExt

LOCAL Out(st, e, ss) == [st |-> st, e |-> e, ss |-> ss]
LOCAL Panic(st) == [st EXCEPT !.bad = TRUE]

\* The variables of tuple x, as expressions.
Elements(st, x) == [i \in DOMAIN st.tuples[x] |->
                      Path(st.tuples[x][i].n, st.tuples[x][i].t)]

\* make_identifiers and the names of assign_tuple: one fresh variable for
\* each element type, numbered from 0 inside the name.
MakeIdentifiers(st, x, mark, sep, ts) ==
    [st |-> [st EXCEPT !.c = @ + Len(ts)],
     ids |-> [i \in DOMAIN ts |->
                Param(UniqueSymbol(x \o mark \o ToString(i - 1), sep,
                                   st.c + i - 1), ts[i])]]

----------------------------------------------------------------------------
(* visitor.rs and the expressions of ast.rs                                *)

RECURSIVE Reconstruct(_, _)

\* reconstruct_expression_tuple: an expression of tuple type comes back as
\* a tuple literal of element variables.  The variables of a call that was
\* not given a name have no recorded type.
ReconstructTuple(st, e) ==
    Bind(Reconstruct(st, e), LAMBDA r :
    LET new == MakeIdentifiers(r.st, "destructure", "#", "#", r.e.t.s)
    IN  IF e.t = NoType THEN Out(Panic(st), e, <<>>)
        ELSE IF ~IsTuple(e.t) \/ r.e.k = "Tuple" THEN r
        ELSE IF IsPath(r.e)
        THEN IF r.e.n \in DOMAIN r.st.tuples
             THEN Out(r.st, Tuple(Elements(r.st, r.e.n), e.t), r.ss)
             ELSE Out(Panic(st), e, <<>>)
        ELSE IF r.e.k \in {"Call", "Intrinsic"}
        THEN Out(new.st,
                 Tuple([i \in DOMAIN new.ids |-> Path(new.ids[i].n, NoType)],
                       e.t),
                 Append(r.ss, Definition([i \in DOMAIN new.ids |-> new.ids[i].n],
                                         r.e)))
        ELSE Out(Panic(st), e, <<>>))

\* fold_with_op.
FoldWithOp(op, es) ==
    Thread(LAMBDA acc, e : Binary(op, acc, e, Boolean), es[1], Tail(es))

\* reconstruct_binary: == and != of tuples compare element by element.  In
\* the other case the statements of the operands are not returned.
ReconstructBinary(st, e) ==
    Bind(ReconstructTuple(st, e.s[1]), LAMBDA l :
    Bind(ReconstructTuple(l.st, e.s[2]), LAMBDA r :
    IF l.e.k = "Tuple" /\ r.e.k = "Tuple" /\ e.n \in {"Eq", "Neq"}
    THEN Out(r.st,
             FoldWithOp(IF e.n = "Eq" THEN "And" ELSE "Or",
                        [i \in DOMAIN l.e.s |->
                           Binary(e.n, l.e.s[i], r.e.s[i], Boolean)]),
             l.ss \o r.ss)
    ELSE Out(r.st, [e EXCEPT !.s = <<l.e, r.e>>], <<>>)))

\* reconstruct_tuple_access.
ReconstructTupleAccess(st, e) ==
    LET x == e.s[1].n
    IN  IF IsPath(e.s[1]) /\ x \in DOMAIN st.tuples
        THEN Out(st, Elements(st, x)[e.v + 1], <<>>)
        ELSE Out(Panic(st), e, <<>>)

\* reconstruct_ternary: one ternary, with a name, per element.
ReconstructTernary(st, e) ==
    Bind(Reconstruct(st, e.s[1]), LAMBDA c :
    Bind(ReconstructTuple(c.st, e.s[2]), LAMBDA a :
    Bind(ReconstructTuple(a.st, e.s[3]), LAMBDA b :
    LET before == c.ss \o a.ss \o b.ss
        cond == IF IsPath(c.e) THEN c.e
                ELSE Path(UniqueSymbol("cond", "$$", b.st.c), Boolean)
        st1 == IF IsPath(c.e) THEN b.st ELSE [b.st EXCEPT !.c = @ + 1]
        defCond == IF IsPath(c.e) THEN <<>> ELSE <<Let(cond.n, c.e)>>
    IN  Bind(MakeIdentifiers(st1, "ternary", "_", "$$", a.e.t.s), LAMBDA new :
        LET defs == [i \in DOMAIN new.ids |->
                       Let(new.ids[i].n, Ternary(cond, a.e.s[i], b.e.s[i],
                                                 new.ids[i].t))]
        IN  IF a.e.k = "Tuple" /\ b.e.k = "Tuple"
            THEN Out(new.st,
                     Tuple([i \in DOMAIN new.ids |->
                              Path(new.ids[i].n, new.ids[i].t)], a.e.t),
                     before \o defCond \o defs)
            ELSE Out(b.st, [e EXCEPT !.s = <<c.e, a.e, b.e>>], before)))))

\* The other expressions: the default traversal, which drops the statements
\* of the children (SSA left only paths there).
Reconstruct(st, e) ==
    CASE e.k = "Binary" -> ReconstructBinary(st, e)
      [] e.k = "TupleAccess" -> ReconstructTupleAccess(st, e)
      [] e.k = "Ternary" -> ReconstructTernary(st, e)
      [] OTHER ->
           Thread(LAMBDA acc, i :
                    Bind(Reconstruct(acc.st, e.s[i]), LAMBDA r :
                    Out(r.st, [acc.e EXCEPT !.s[i] = r.e], <<>>)),
                  Out(st, e, <<>>), [i \in DOMAIN e.s |-> i])

----------------------------------------------------------------------------
(* The statements of ast.rs                                                *)

\* reconstruct_assert: an assertion on two tuples becomes one per element.
DestructureAssert(st, s) ==
    Bind(ReconstructTuple(st, s.e[1]), LAMBDA l :
    Bind(ReconstructTuple(l.st, s.e[2]), LAMBDA r :
    Bind(Reconstruct(st, s.e[1]), LAMBDA e :
    IF s.n = "Assert" THEN Out(e.st, [s EXCEPT !.e = <<e.e>>], <<>>)
    ELSE IF l.e.k = "Tuple" /\ r.e.k = "Tuple"
    THEN Out(r.st, Dummy,
             l.ss \o r.ss \o [i \in DOMAIN l.e.s |->
                [s EXCEPT !.e = <<l.e.s[i], r.e.s[i]>>]])
    ELSE Out(r.st, [s EXCEPT !.e = <<l.e, r.e>>], <<>>))))

(* Mutant: the place of an assignment is left as it is. *)
DestructurePlaceKept(st, place) == place

\* The place of an assignment with x.i replaced by the element variable.
RECURSIVE DestructurePlace(_, _)
DestructurePlace(st, place) ==
    IF IsPath(place) THEN place
    ELSE IF place.k = "TupleAccess"
    THEN Elements(st, place.s[1].n)[place.v + 1]
    ELSE [place EXCEPT !.s[1] = DestructurePlace(st, @)]

\* reconstruct_assign.
DestructureAssign(st, s) ==
    Bind(Reconstruct(st, s.e[2]), LAMBDA r :
    LET place == s.e[1]
    IN  IF IsPath(place) /\ IsTuple(r.e.t)
        THEN IF IsPath(r.e)
             THEN Out(r.st, Dummy, r.ss \o
                      [i \in DOMAIN st.tuples[place.n] |->
                         Assign(Elements(st, place.n)[i],
                                Elements(st, r.e.n)[i])])
             ELSE Out(Panic(st), s, <<>>)
        ELSE Out(r.st, Assign(DestructurePlace(st, place), r.e), r.ss))

\* reconstruct_definition.
DestructureDefinition(st, s) ==
    Bind(Reconstruct(st, s.e[1]), LAMBDA r :
    LET x == s.ns[1]
        one == Len(s.ns) = 1
        new == MakeIdentifiers(r.st, x, "#tuple", "$", r.e.t.s)
        called == MakeIdentifiers(r.st, x, "#", "#", r.e.t.s)
        parts == IF r.e.k = "Tuple" THEN r.e.s
                 ELSE IF r.e.n \in DOMAIN r.st.tuples
                 THEN Elements(r.st, r.e.n) ELSE <<>>
        Known(st1, ids) == [st1 EXCEPT !.tuples = (x :> ids) @@ @]
    IN  IF ~IsTuple(r.e.t)
        THEN Out([r.st EXCEPT !.bad = @ \/ ~one \/ r.e.t = NoType],
                 Definition(s.ns, r.e), r.ss)
        ELSE IF r.e.k \in {"Path", "Tuple"} /\ one
        THEN Out(Known(new.st, new.ids), Dummy, r.ss \o
                 [i \in DOMAIN parts |-> Let(new.ids[i].n, parts[i])])
        ELSE IF r.e.k \in {"Path", "Tuple"}
        THEN Out(r.st, Dummy, r.ss \o
                 [i \in DOMAIN parts |-> Let(s.ns[i], parts[i])])
        ELSE IF r.e.k = "Call" /\ one
        THEN Out(Known(called.st, called.ids),
                 Definition([i \in DOMAIN called.ids |-> called.ids[i].n], r.e),
                 r.ss)
        ELSE IF r.e.k \in {"Call", "Intrinsic"} /\ ~one
        THEN Out(r.st, Definition(s.ns, r.e), r.ss)
        ELSE Out(Panic(st), s, <<>>))

RECURSIVE DestructureBlock(_, _)

\* reconstruct_conditional; the branches of the outcome are blocks.
DestructureConditional(st, s) ==
    Bind(Reconstruct(st, s.e[1]), LAMBDA c :
    Bind(Thread(LAMBDA acc, b : Bind(DestructureBlock(acc.st, b), LAMBDA g :
                                Out(g.st, Append(acc.e, g.e), <<>>)),
                Out(c.st, <<>>, <<>>), s.b), LAMBDA r :
    Out(r.st, Conditional(c.e, r.e), c.ss)))

DestructureStatement(st, s) ==
    CASE s.k = "Assert" -> DestructureAssert(st, s)
      [] s.k = "Assign" -> DestructureAssign(st, s)
      [] s.k = "Block" -> Bind(DestructureBlock(st, s.b[1]), LAMBDA r :
                          Out(r.st, Block(r.e), <<>>))
      [] s.k = "Conditional" -> DestructureConditional(st, s)
      [] s.k = "Definition" -> DestructureDefinition(st, s)
      [] s.k = "Expression" -> Bind(Reconstruct(st, s.e[1]), LAMBDA r :
                               Out(r.st, ExprStmt(r.e), <<>>))
      [] s.k = "Return" -> Bind(ReconstructTuple(st, s.e[1]), LAMBDA r :
                           Out(r.st, Return(r.e), r.ss))
      [] s.k = "Iteration" -> Out(Panic(st), s, <<>>)

\* reconstruct_block: the statements a statement asks for come before it,
\* and what became empty is dropped.
DestructureBlock(st, ss) ==
    Thread(LAMBDA acc, s :
             Bind(DestructureStatement(acc.st, s), LAMBDA r :
             Out(r.st, acc.e \o r.ss \o
                       (IF IsRemovable(r.e) THEN <<>> ELSE <<r.e>>), <<>>)),
           Out(st, <<>>, <<>>), ss)

\* program.rs: every function, with one table of tuples for the unit.
DestructureProgram(u) ==
    LET st0 == [c |-> u.c, tuples |-> <<>>, bad |-> u.bad]
    IN  Bind(Thread(LAMBDA acc, fn :
                      Bind(DestructureBlock(acc.st, fn.body), LAMBDA g :
                      Out(g.st, Append(acc.e, [fn EXCEPT !.body = g.e]),
                          <<>>)),
                    Out(st0, <<>>, <<>>), u.p.funcs), LAMBDA r :
        [u EXCEPT !.p.funcs = r.e, !.c = r.st.c, !.bad = r.st.bad])
=============================================================================
