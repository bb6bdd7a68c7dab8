-------------------------- MODULE WriteTransforming -------------------------
(***************************************************************************)
(* passes/src/write_transforming: an array or a struct of which a part is  *)
(* assigned gets one variable per element or member.  Assignments to parts *)
(* become assignments to those variables, and a use of the whole is        *)
(* preceded by an assignment that rebuilds it.                             *)
(*                                                                         *)
(* array_members and composite_members are one table here: it maps a       *)
(* variable to the sequence of its parts' variables, with their types.     *)
(***************************************************************************)
EXTENDS LeoAst, SequencesExt

LOCAL Out(st, e, ss) == [st |-> st, e |-> e, ss |-> ss]
LOCAL Panic(st) == [st EXCEPT !.bad = TRUE]

----------------------------------------------------------------------------
(* WriteTransformingFiller: which variables have parts that are assigned.  *)

\* The types of the parts of a value of type t, with the text that names
\* each part.
Parts(p, t) ==
    IF t.k = "array"
    THEN [i \in 1 .. t.l |-> Param(ToString(i - 1), t.s[1])]
    ELSE p.structs[t.n]

\* The index of the part that an access selects, among the parts of its base.
PartIndex(p, access) ==
    IF access.k = "ArrayAccess" THEN access.s[2].v + 1
    ELSE CHOOSE i \in DOMAIN p.structs[access.s[1].t.n] :
            p.structs[access.s[1].t.n][i].n = access.n

IsPart(e) == e.k \in {"ArrayAccess", "MemberAccess"}

\* access_recurse: the variable for a place, made when it is first needed.
RECURSIVE AccessRecurse(_, _, _)
AccessRecurse(p, st, place) ==
    IF IsPath(place) THEN [st |-> st, x |-> Param(place.n, place.t)]
    ELSE IF ~IsPart(place)
    THEN [st |-> Panic(st), x |-> Param("", NoType)]
    ELSE
    Bind(AccessRecurse(p, st, place.s[1]), LAMBDA base :
    LET parts == Parts(p, place.s[1].t)
        c == base.st.c
        new == [i \in DOMAIN parts |->
                  Param(UniqueSymbol(base.x.n \o "#" \o parts[i].n, "$",
                                     c + i - 1), parts[i].t)]
        st1 == IF base.x.n \in DOMAIN base.st.members THEN base.st
               ELSE [base.st EXCEPT !.members = (base.x.n :> new) @@ @,
                                    !.c = @ + Len(parts)]
    IN  [st |-> st1, x |-> st1.members[base.x.n][PartIndex(p, place)]])

(* Mutant: writes in branches are not collected. *)
FillBlockAtTopLevel(p, st, ss) ==
    Thread(LAMBDA acc, s : IF s.k = "Assign" THEN AccessRecurse(p, acc, s.e[1]).st ELSE acc,
           st, ss)

RECURSIVE FillBlock(_, _, _)
FillBlock(p, st, ss) ==
    Thread(LAMBDA acc, s :
             IF s.k = "Assign" THEN AccessRecurse(p, acc, s.e[1]).st
             ELSE Thread(LAMBDA a, b : FillBlock(p, a, b), acc, s.b),
           st, ss)

\* fill: the functions of the program are visited, its constructor is not.
Fill(p, st) ==
    Thread(LAMBDA acc, fn : IF fn.variant = "Constructor" THEN acc
                            ELSE FillBlock(p, acc, fn.body),
           st, p.funcs)

----------------------------------------------------------------------------
(* visitor.rs *)

\* The expression that selects part i of variable x.
Access(p, x, i) ==
    IF x.t.k = "array"
    THEN ArrayAccess(Path(x.n, x.t), Index(i - 1), x.t.s[1])
    ELSE MemberAccess(Path(x.n, x.t), p.structs[x.t.n][i].n,
                      p.structs[x.t.n][i].t)

\* define_variable_members: the definitions of the variables for x's parts.
RECURSIVE DefineMembers(_, _, _)
DefineMembers(p, st, x) ==
    IF x.n \notin DOMAIN st.members THEN <<>>
    ELSE Thread(LAMBDA acc, i :
                  LET y == st.members[x.n][i]
                  IN  Append(acc, Let(y.n, Access(p, x, i)))
                        \o DefineMembers(p, st, y),
                <<>>, [i \in DOMAIN st.members[x.n] |-> i])

\* reconstruct_assign_place: the variable that an assignment is really to.
RECURSIVE AssignPlace(_, _, _)
AssignPlace(p, st, place) ==
    IF IsPath(place) THEN [st |-> st, x |-> Param(place.n, place.t)]
    ELSE
    LET base == AssignPlace(p, st, place.s[1])
    IN  IF IsPart(place) /\ base.x.n \in DOMAIN st.members
        THEN [base EXCEPT !.x = st.members[base.x.n][PartIndex(p, place)]]
        ELSE [st |-> Panic(st), x |-> Param("", NoType)]

\* reconstruct_assign_recurse: x = e, and with it the variables of x's
\* parts.  The access that reads a part back has its type recorded for a
\* struct and none recorded for an array.
RECURSIVE AssignRecurse(_, _, _, _)
AssignRecurse(p, st, x, e) ==
    LET parts == st.members[x.n]
        whole == Assign(Path(x.n, x.t), e)
        ReadBack(i) == IF x.t.k = "array"
                       THEN [Access(p, x, i) EXCEPT !.t = NoType]
                       ELSE Access(p, x, i)
        ValueOf(i) ==
          IF e.k = "Array" THEN e.s[i]
          ELSE e.s[CHOOSE j \in DOMAIN e.f : e.f[j] = p.structs[x.t.n][i].n]
        Each(F(_)) == FlattenSeq([i \in DOMAIN parts |->
                                   AssignRecurse(p, st, parts[i], F(i))])
    IN  IF x.n \notin DOMAIN st.members THEN <<whole>>
        ELSE IF e.k \in {"Array", "Composite"} THEN Each(ValueOf)
        ELSE <<whole>> \o Each(ReadBack)

----------------------------------------------------------------------------
(* ast.rs *)

\* reconstruct_identifier: a use of x, after the statements that rebuild it.
RECURSIVE Rebuild(_, _, _)
Rebuild(p, st, x) ==
    IF x.n \notin DOMAIN st.members THEN <<>>
    ELSE
    LET parts == st.members[x.n]
        es == [i \in DOMAIN parts |-> Path(parts[i].n, parts[i].t)]
        names == [i \in DOMAIN parts |-> p.structs[x.t.n][i].n]
        value == IF x.t.k = "array" THEN Array(es, x.t)
                 ELSE Composite(x.t.n, names, es, x.t)
    IN  Append(FlattenSeq([i \in DOMAIN parts |-> Rebuild(p, st, parts[i])]),
               Assign(Path(x.n, x.t), value))

\* A read of a part of a variable reads the part's variable if it has one.
\* Everything else is the traversal that collects the statements.
RECURSIVE TransformExpression(_, _, _)
TransformExpression(p, st, e) ==
    IF IsPath(e) THEN Out(st, e, Rebuild(p, st, Param(e.n, e.t)))
    ELSE IF e.k = "TupleAccess" \/ (IsPart(e) /\ ~IsPath(e.s[1]))
    THEN Out(Panic(st), e, <<>>)
    ELSE IF IsPart(e)
    THEN IF e.s[1].n \in DOMAIN st.members
         THEN LET y == st.members[e.s[1].n][PartIndex(p, e)]
              IN  Out(st, Path(y.n, y.t), Rebuild(p, st, y))
         ELSE Out(st, e, <<>>)
    ELSE Thread(LAMBDA acc, i :
                  Bind(TransformExpression(p, acc.st, e.s[i]), LAMBDA r :
                  Out(r.st, [acc.e EXCEPT !.s[i] = r.e], acc.ss \o r.ss)),
                Out(st, e, <<>>), [i \in DOMAIN e.s |-> i])

TransformAll(p, st, es) ==
    Thread(LAMBDA acc, e : Bind(TransformExpression(p, acc.st, e), LAMBDA r :
                           Out(r.st, Append(acc.e, r.e), acc.ss \o r.ss)),
           Out(st, <<>>, <<>>), es)

\* reconstruct_assign.
TransformAssign(p, st, s) ==
    Bind(TransformExpression(p, st, s.e[2]), LAMBDA r :
    Bind(AssignPlace(p, r.st, s.e[1]), LAMBDA place :
    IF place.st.bad THEN Out(place.st, Dummy, <<>>)
    ELSE Out(place.st, Dummy,
             r.ss \o AssignRecurse(p, place.st, place.x, r.e))))

\* reconstruct_definition.
TransformDefinition(p, st, s) ==
    Bind(TransformExpression(p, st, s.e[1]), LAMBDA r :
    LET t == r.e.t
        Var(i) == Param(s.ns[i], IF Len(s.ns) = 1 THEN t ELSE t.s[i])
    IN  Out(r.st, Dummy,
            Append(r.ss, Definition(s.ns, r.e))
              \o FlattenSeq([i \in DOMAIN s.ns |->
                               DefineMembers(p, st, Var(i))])))

RECURSIVE TransformBlock(_, _, _)

\* reconstruct_statement and its methods; a conditional's condition and a
\* statement's operands are transformed before its blocks.
TransformStatement(p, st, s) ==
    Bind(TransformAll(p, st, s.e), LAMBDA r :
    Bind(Thread(LAMBDA acc, b :
                  Bind(TransformBlock(p, acc.st, b), LAMBDA g :
                  Out(g.st, Append(acc.e, g.e), <<>>)),
                Out(r.st, <<>>, <<>>), s.b), LAMBDA bs :
    CASE s.k = "Assign" -> TransformAssign(p, st, s)
      [] s.k = "Definition" -> TransformDefinition(p, st, s)
      [] s.k = "Iteration" -> Out(Panic(st), s, <<>>)
      [] OTHER -> Out(bs.st, [s EXCEPT !.e = r.e, !.b = bs.e], r.ss)))

\* reconstruct_block.
TransformBlock(p, st, ss) ==
    Thread(LAMBDA acc, s :
             Bind(TransformStatement(p, acc.st, s), LAMBDA r :
             Out(r.st, acc.e \o r.ss \o
                       (IF IsRemovable(r.e) THEN <<>> ELSE <<r.e>>), <<>>)),
           Out(st, <<>>, <<>>), ss)

\* reconstruct_function: the variables for the parameters' parts come first.
TransformFunction(p, st, fn) ==
    Bind(TransformBlock(p, st, fn.body), LAMBDA r :
    LET first == FlattenSeq([i \in DOMAIN fn.ins |->
                               DefineMembers(p, st, fn.ins[i])])
    IN  Out(r.st, [fn EXCEPT !.body = first \o r.e], <<>>))

WriteTransformProgram(u) ==
    LET st0 == Fill(u.p, [c |-> u.c, members |-> <<>>, bad |-> u.bad])
    IN  Bind(Thread(LAMBDA acc, fn :
                      Bind(TransformFunction(u.p, acc.st, fn), LAMBDA g :
                      Out(g.st, Append(acc.e, g.e), <<>>)),
                    Out(st0, <<>>, <<>>), u.p.funcs), LAMBDA r :
        [u EXCEPT !.p.funcs = r.e, !.c = r.st.c, !.bad = r.st.bad])
=============================================================================
