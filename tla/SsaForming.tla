----------------------------- MODULE SsaForming -----------------------------
(***************************************************************************)
(* passes/src/static_single_assignment: assignments become definitions of  *)
(* fresh names, nested blocks are flattened, a conditional is followed by  *)
(* a ternary ("phi") for every outer variable that a branch assigned, and  *)
(* operands become variables.                                              *)
(*                                                                         *)
(* The visitor's state st: c the assigner's counter, tab the rename table, *)
(* a stack of scopes that map a name to its current version, and bad, set  *)
(* where the code panics.  A consume operator returns the state, what is   *)
(* left of the node and the statements to put before it.                   *)
(***************************************************************************)
EXTENDS LeoAst, SequencesExt

Out(st, e, ss) == [st |-> st, e |-> e, ss |-> ss]

----------------------------------------------------------------------------
(* The rename table (common/rename_table).                                 *)

Push(st) == [st EXCEPT !.tab = Append(@, <<>>)]
Pop(st) == [st EXCEPT !.tab = Front(@)]

\* Records version y, of type t, of name x in the innermost scope.
UpdateTable(st, x, y, t) ==
    [st EXCEPT !.tab[Len(st.tab)] = (x :> [n |-> y, t |-> t]) @@ @]

Knows(tab, x) == \E i \in DOMAIN tab : x \in DOMAIN tab[i]

\* RenameTable::lookup: the innermost scope that knows x decides.
Lookup(tab, x) ==
    tab[CHOOSE i \in DOMAIN tab :
          /\ x \in DOMAIN tab[i]
          /\ \A j \in DOMAIN tab : j > i => x \notin DOMAIN tab[j]][x]

----------------------------------------------------------------------------
(* visitor.rs *)

\* SsaFormingVisitor::rename_identifier.
RenameIdentifier(st, x, t) ==
    LET y == UniqueSymbol(x, "$#", st.c)
    IN  [st |-> UpdateTable([st EXCEPT !.c = @ + 1], x, y, t), n |-> y]

\* simple_definition: the right-hand side must have a recorded type.
SimpleDefinition(st, x, e) ==
    [st |-> [UpdateTable(st, x, x, e.t) EXCEPT !.bad = @ \/ e.t = NoType],
     s |-> Let(x, e)]

\* unique_simple_definition.
UniqueSimpleDefinition(st, e) ==
    LET x == UniqueSymbol("$var", "$", st.c)
        d == SimpleDefinition([st EXCEPT !.c = @ + 1], x, e)
    IN  [st |-> d.st, x |-> x, s |-> d.s]

----------------------------------------------------------------------------
(* expression.rs *)

RECURSIVE ConsumeExpression(_, _, _)
RECURSIVE ConsumeStatement(_, _, _)

\* consume_expression_and_define: every operand that is not a path or a
\* unit, a literal included, is given a name.
ConsumeAndDefine(p, st, e) ==
    Bind(ConsumeExpression(p, st, e), LAMBDA r :
    Bind(UniqueSimpleDefinition(r.st, r.e), LAMBDA d :
    IF r.e.k \in {"Path", "Unit"} THEN r
    ELSE Out(d.st, Path(d.x, r.e.t), Append(r.ss, d.s))))

DefineAll(p, st, es) ==
    Thread(LAMBDA acc, e : Bind(ConsumeAndDefine(p, acc.st, e), LAMBDA r :
                           Out(r.st, Append(acc.e, r.e), acc.ss \o r.ss)),
             Out(st, <<>>, <<>>), es)

\* consume_composite_init: the members in the order of the declaration, the
\* owner of a record first; those not given are copied from the base.
OrderedMembers(p, e) ==
    LET decl == p.structs[e.n]
        first == IF e.n \in p.records THEN SelectSeq(decl, LAMBDA m : m.n = "owner") ELSE <<>>
        order == first \o SelectSeq(decl, LAMBDA m : m \notin ToSet(first))
        Given(m) == {j \in DOMAIN e.f : e.f[j] = m.n}
    IN  [e EXCEPT !.f = [i \in DOMAIN order |-> order[i].n],
                  !.s = [i \in DOMAIN order |->
                           IF Given(order[i]) # {} THEN e.s[CHOOSE j \in Given(order[i]) : TRUE]
                           ELSE MemberAccess(e.s[Len(e.s)], order[i].n, order[i].t)]]

\* consume_path.
ConsumePath(st, e) ==
    IF Knows(st.tab, e.n) THEN [e EXCEPT !.n = Lookup(st.tab, e.n).n] ELSE e

\* consume_array_access leaves the index as it is, consume_repeat the count.
ConsumeFirst(p, st, e) ==
    Bind(ConsumeAndDefine(p, st, e.s[1]), LAMBDA r :
    Out(r.st, [e EXCEPT !.s[1] = r.e], r.ss))

\* consume_expression.  The other kinds of nodes only have their operands
\* named, in order.
ConsumeExpression(p, st, e) ==
    CASE e.k = "Path" -> Out(st, ConsumePath(st, e), <<>>)
      [] e.k \in {"Literal", "Unit"} -> Out(st, e, <<>>)
      [] e.k \in {"ArrayAccess", "Repeat"} -> ConsumeFirst(p, st, e)
      [] OTHER ->
           Bind(DefineAll(p, st, e.s), LAMBDA r :
           LET done == [e EXCEPT !.s = r.e]
           IN  Out(r.st,
                   IF e.k = "Composite" THEN OrderedMembers(p, done) ELSE done,
                   r.ss))

----------------------------------------------------------------------------
(* statement.rs *)

ConsumeBlock(p, st, ss) ==
    Thread(LAMBDA acc, s : Bind(ConsumeStatement(p, acc.st, s), LAMBDA r :
                           Out(r.st, 0, acc.ss \o r.ss)),
             Out(st, 0, <<>>), ss)

RECURSIVE RenameRoot(_, _)
RenameRoot(st, place) ==
    IF IsPath(place) THEN ConsumePath(st, place)
    ELSE [place EXCEPT !.s[1] = RenameRoot(st, @)]

\* consume_assign: an assignment to a variable defines a new version of it;
\* one to a part of a variable stays, on the current version.
ConsumeAssign(p, st, s) ==
    LET place == s.e[1]
    IN  Bind(ConsumeExpression(p, st, s.e[2]), LAMBDA r :
        LET new == RenameIdentifier(r.st, place.n, place.t)
            d == SimpleDefinition(new.st, new.n, r.e)
        IN  IF IsPath(place) THEN Out(d.st, 0, Append(r.ss, d.s))
            ELSE Out(r.st, 0,
                     Append(r.ss, Assign(RenameRoot(r.st, place), r.e))))

\* The phi functions of a conditional on variable c, for the names that one
\* of the branch scopes a, b redefines and an enclosing scope knows.
Phi(st, c, a, b, names) ==
    Thread(LAMBDA acc, x :
               LET t == Lookup(st.tab, x).t
                   Version(sc) == Path(IF x \in DOMAIN sc THEN sc[x].n
                                       ELSE Lookup(st.tab, x).n, t)
                   y == UniqueSymbol(x, "$", acc.st.c)
                   d == SimpleDefinition([acc.st EXCEPT !.c = @ + 1], y,
                                         Ternary(c, Version(a), Version(b), t))
               IN  Out(UpdateTable(d.st, x, y, t), 0, Append(acc.ss, d.s)),
             Out(st, 0, <<>>), names)

\* consume_conditional.
ConsumeConditional(p, st, s) ==
    Bind(ConsumeAndDefine(p, st, s.e[1]), LAMBDA c :
    Bind(ConsumeBlock(p, Push(c.st), s.b[1]), LAMBDA then :
    LET after == Pop(then.st)
    IN  Bind(IF Len(s.b) = 2 THEN ConsumeBlock(p, Push(after), s.b[2])
             ELSE Out(Push(after), 0, <<>>), LAMBDA else :
        LET a == Last(then.st.tab)
            b == Last(else.st.tab)
            outer == Pop(else.st)
            written == {x \in DOMAIN a \cup DOMAIN b : Knows(outer.tab, x)}
        IN  Bind(Phi(outer, c.e, a, b, SetToSeq(written)), LAMBDA phi :
            LET blocks == IF Len(s.b) = 2 THEN <<then.ss, else.ss>> ELSE <<then.ss>>
            IN  Out(phi.st, 0, Append(c.ss, Conditional(c.e, blocks)) \o phi.ss)))))

\* consume_definition: with rename_defs every defined name is made unique;
\* for several names that happens before the right-hand side is consumed.
ConsumeDefinition(p, st, s) ==
    LET one == Len(s.ns) = 1
        Fresh(st0) ==
          Thread(LAMBDA acc, i :
                     IF st0.renameDefs
                     THEN LET t == IF one THEN s.e[1].t ELSE s.e[1].t.s[i]
                              r == RenameIdentifier(acc.st, s.ns[i], t)
                          IN  Out(r.st, Append(acc.e, r.n), <<>>)
                     ELSE Out(acc.st, Append(acc.e, s.ns[i]), <<>>),
                   Out(st0, <<>>, <<>>), [i \in DOMAIN s.ns |-> i])
        first == IF one THEN Out(st, s.ns, <<>>) ELSE Fresh(st)
    IN  Bind(ConsumeExpression(p, first.st, s.e[1]), LAMBDA r :
        Bind(IF one THEN Fresh(r.st) ELSE Out(r.st, first.e, <<>>), LAMBDA names :
        LET d == SimpleDefinition(names.st, names.e[1], r.e)
        IN  IF one THEN Out(d.st, 0, Append(r.ss, d.s))
            ELSE Out(names.st, 0, Append(r.ss, Definition(names.e, r.e)))))

\* consume_assert.
ConsumeAssert(p, st, s) ==
    Bind(DefineAll(p, st, s.e), LAMBDA r :
    Out(r.st, 0, Append(r.ss, [s EXCEPT !.e = r.e])))

\* consume_return: the elements of a tuple are named, not the tuple.
ConsumeReturn(p, st, s) ==
    Bind(IF s.e[1].k = "Tuple" THEN ConsumeExpression(p, st, s.e[1])
         ELSE ConsumeAndDefine(p, st, s.e[1]), LAMBDA r :
    Out(r.st, 0, Append(r.ss, Return(r.e))))

\* consume_expression_statement.
ConsumeExprStmt(p, st, s) ==
    Bind(ConsumeExpression(p, st, s.e[1]), LAMBDA r :
    Out(r.st, 0, Append(r.ss, ExprStmt(r.e))))

ConsumeStatement(p, st, s) ==
    CASE s.k = "Assert" -> ConsumeAssert(p, st, s)
      [] s.k = "Assign" -> ConsumeAssign(p, st, s)
      [] s.k = "Block" -> ConsumeBlock(p, st, s.b[1])
      [] s.k = "Conditional" -> ConsumeConditional(p, st, s)
      [] s.k = "Definition" -> ConsumeDefinition(p, st, s)
      [] s.k = "Expression" -> ConsumeExprStmt(p, st, s)
      [] s.k = "Return" -> ConsumeReturn(p, st, s)
      [] s.k = "Const" -> Out(st, 0, <<>>)
      [] s.k = "Iteration" -> Out([st EXCEPT !.bad = TRUE], 0, <<>>)

----------------------------------------------------------------------------
(* program.rs *)

\* consume_function: a scope for the body; with rename_defs the parameters
\* get unique names, otherwise they are not registered.
ConsumeFunction(p, st, fn) ==
    LET ins == Thread(LAMBDA acc, prm :
                 IF st.renameDefs
                 THEN LET y == UniqueSymbol(prm.n, "$$", acc.st.c)
                      IN  Out(UpdateTable([acc.st EXCEPT !.c = @ + 1],
                                          prm.n, y, prm.t),
                              Append(acc.e, [prm EXCEPT !.n = y]), <<>>)
                 ELSE Out(acc.st, Append(acc.e, prm), <<>>),
               Out(Push(st), <<>>, <<>>), fn.ins)
    IN  Bind(ConsumeBlock(p, ins.st, fn.body), LAMBDA r :
        Out(Pop(r.st), [fn EXCEPT !.ins = ins.e, !.body = r.ss], <<>>))

\* consume_program and consume_program_scope over a unit u: the program p,
\* the shared counter c and whether a pass has panicked.
SsaProgram(u, renameDefs) ==
    LET st0 == [c |-> u.c, tab |-> <<>>, bad |-> u.bad,
                renameDefs |-> renameDefs]
    IN  Bind(Thread(LAMBDA acc, fn :
                        Bind(ConsumeFunction(u.p, acc.st, fn), LAMBDA g :
                        Out(g.st, Append(acc.e, g.e), <<>>)),
                      Out(st0, <<>>, <<>>), u.p.funcs), LAMBDA r :
        [u EXCEPT !.p.funcs = r.e, !.c = r.st.c, !.bad = r.st.bad])
=============================================================================
