-------------------------- MODULE Monomorphization --------------------------
(***************************************************************************)
(* passes/src/monomorphization: a generic function or struct is copied for *)
(* every list of literal const arguments that it is used with.             *)
(*                                                                         *)
(* The visitor copies as it meets the uses.  What a use becomes does not   *)
(* depend on the copies made so far, so the rewriting is a map here and    *)
(* the copies are the least set closed under the uses in what is kept and  *)
(* in the copies.                                                          *)
(***************************************************************************)
EXTENDS ConstPropagation, SequencesExt

G == INSTANCE DiGraph

\* The name that the copy for the literals args gets.
Specialized(name, args) ==
    name \o "::" \o ToString([i \in DOMAIN args |-> args[i].v])

\* try_evaluate_const_args: the literals, or nothing.
TryEvaluateConstArgs(u, es) ==
    Bind([i \in DOMAIN es |-> Cp(u.p, NewPropagation(u), es[i])], LAMBDA rs :
    IF \E i \in DOMAIN es : rs[i].v = <<>> \/ rs[i].e.k # "Literal" THEN <<>>
    ELSE [i \in DOMAIN es |-> rs[i].e])

\* The same for the const arguments of a type.
ConstArgsOf(t) ==
    [i \in DOMAIN t.s |-> IF t.s[i].l = Unknown THEN Path(t.s[i].n, U32) ELSE Index(t.s[i].l)]

----------------------------------------------------------------------------
(* The Replacer: const parameters give way to literals, ids are fresh, so  *)
(* that no constant of the copy has been evaluated yet.                    *)

RECURSIVE ReplaceInType(_, _)
ReplaceInType(sub, t) ==
    LET t1 == [t EXCEPT !.s = [i \in DOMAIN @ |-> ReplaceInType(sub, @[i])]]
    IN  IF t.k \in {"array", "const"} /\ t.l = Unknown /\ t.n \in DOMAIN sub
        THEN [t1 EXCEPT !.n = "", !.l = sub[t.n].v] ELSE t1

RECURSIVE ReplaceInExpr(_, _)
ReplaceInExpr(sub, e) ==
    IF e.k = "Path" /\ e.n \in DOMAIN sub THEN [sub[e.n] EXCEPT !.t = e.t]
    ELSE [e EXCEPT !.t = ReplaceInType(sub, @),
                   !.s = [i \in DOMAIN @ |-> ReplaceInExpr(sub, @[i])]]

RECURSIVE ReplaceInStatements(_, _)
ReplaceInStatements(sub, ss) ==
    [i \in DOMAIN ss |->
       [ss[i] EXCEPT !.n = IF ss[i].k = "Const" THEN "" ELSE @,
                     !.t = ReplaceInType(sub, @),
                     !.e = [j \in DOMAIN @ |-> ReplaceInExpr(sub, @[j])],
                     !.b = [j \in DOMAIN @ |-> ReplaceInStatements(sub, @[j])]]]

ReplaceInParams(sub, prms) ==
    [i \in DOMAIN prms |-> [prms[i] EXCEPT !.t = ReplaceInType(sub, @)]]

\* The literal of every const parameter.
Substitution(prms, args) ==
    [x \in {prms[i].n : i \in DOMAIN prms} |->
       args[CHOOSE i \in DOMAIN prms : prms[i].n = x]]

----------------------------------------------------------------------------
(* What the visitor makes of a use.  x holds the names of the functions    *)
(* and what the lists of const arguments in the program evaluate to.       *)

\* reconstruct_type and reconstruct_composite_type.
RECURSIVE MonoType(_, _)
MonoType(x, t) ==
    IF t.k # "composite" THEN [t EXCEPT !.s = [i \in DOMAIN @ |-> MonoType(x, @[i])]]
    ELSE IF t.s = <<>> \/ x.known[ConstArgsOf(t)] = <<>> THEN t
    ELSE CompositeType(Specialized(t.n, x.known[ConstArgsOf(t)]))

IsGenericUse(names, e) ==
    e.v > 0 /\ (e.k = "Composite" \/ (e.k = "Call" /\ e.n \in names))

ConstArgs(e) == SubSeq(e.s, 1, e.v)

\* reconstruct_call and reconstruct_composite_init: the arguments of a call
\* are left as they are, the members of a struct are visited.
RECURSIVE MonoExpr(_, _)
MonoExpr(x, e) ==
    LET own == IF e.k = "Composite" THEN e.v ELSE 0
        es == [i \in DOMAIN e.s |-> IF i <= own \/ e.k = "Call" THEN e.s[i]
                                    ELSE MonoExpr(x, e.s[i])]
        args == x.known[ConstArgs(e)]
        e1 == [e EXCEPT !.s = es, !.t = IF e.k = "Cast" THEN MonoType(x, @) ELSE @]
    IN  IF ~IsGenericUse(x.names, e) \/ args = <<>> THEN e1
        ELSE [e1 EXCEPT !.n = Specialized(e.n, args), !.v = 0,
                        !.s = SubSeq(@, e.v + 1, Len(@))]

RECURSIVE MonoStatements(_, _)
MonoStatements(x, ss) ==
    [i \in DOMAIN ss |->
       [ss[i] EXCEPT !.t = MonoType(x, @),
                     !.e = [j \in DOMAIN @ |-> MonoExpr(x, @[j])],
                     !.b = [j \in DOMAIN @ |-> MonoStatements(x, @[j])]]]

MonoParams(x, prms) == [i \in DOMAIN prms |-> [prms[i] EXCEPT !.t = MonoType(x, @)]]

MonoFunction(x, fn) ==
    [fn EXCEPT !.ins = MonoParams(x, @), !.out = MonoType(x, @),
               !.body = MonoStatements(x, @)]

----------------------------------------------------------------------------
(* The uses of generics: sort, name and const arguments.                   *)

Use(sort, n, es) == [sort |-> sort, n |-> n, es |-> es]
Over(f) == UNION {f[i] : i \in DOMAIN f}

RECURSIVE TypeUses(_)
TypeUses(t) ==
    IF t.k = "composite"
    THEN IF t.s = <<>> THEN {}
         ELSE {Use("type", t.n, ConstArgsOf(t))}
    ELSE Over([i \in DOMAIN t.s |-> TypeUses(t.s[i])])

RECURSIVE ExprUses(_, _)
ExprUses(names, e) ==
    LET own == IF IsGenericUse(names, e)
               THEN {Use(e.k, e.n, ConstArgs(e))} ELSE {}
        visited == IF e.k = "Call" THEN {} ELSE {i \in DOMAIN e.s : e.k # "Composite" \/ i > e.v}
    IN  own \cup Over([i \in visited |-> ExprUses(names, e.s[i])])
            \cup (IF e.k = "Cast" THEN TypeUses(e.t) ELSE {})

RECURSIVE StatementUses(_, _)
StatementUses(names, ss) ==
    Over([i \in DOMAIN ss |->
            TypeUses(ss[i].t)
              \cup Over([j \in DOMAIN ss[i].e |-> ExprUses(names, ss[i].e[j])])
              \cup Over([j \in DOMAIN ss[i].b |-> StatementUses(names, ss[i].b[j])])])

ParamUses(prms) == Over([i \in DOMAIN prms |-> TypeUses(prms[i].t)])

FunctionUses(names, fn) ==
    ParamUses(fn.ins) \cup TypeUses(fn.out) \cup StatementUses(names, fn.body)

----------------------------------------------------------------------------
(* The copies. *)

ParamsOf(p, name) == IF name \in DOMAIN p.params THEN p.params[name] ELSE <<>>

\* The copy of a function, before it is visited in turn.
FunctionCopy(p, n, args) ==
    LET fn == FunctionNamed(p, n)
        sub == Substitution(fn.consts, args)
    IN  [fn EXCEPT !.n = Specialized(n, args), !.consts = <<>>,
                   !.ins = ReplaceInParams(sub, @), !.out = ReplaceInType(sub, @),
                   !.body = ReplaceInStatements(sub, @)]

\* The members of the copy of a struct (monomorphize_composite).
CompositeCopy(p, n, args) ==
    ReplaceInParams(Substitution(ParamsOf(p, n), args), p.structs[n])

CopyUses(p, names, use, args) ==
    IF args = <<>> THEN {}
    ELSE IF use.sort = "Call" THEN FunctionUses(names, FunctionCopy(p, use.n, args))
    ELSE ParamUses(CompositeCopy(p, use.n, args))

\* All uses, those in the copies included, and what their const arguments are: a
\* list of literals, or nothing when one is not known.
RECURSIVE Closed(_, _, _)
Closed(u, names, uses) ==
    Bind([es \in {use.es : use \in uses} |-> TryEvaluateConstArgs(u, es)], LAMBDA known :
    Bind(uses \cup UNION {CopyUses(u.p, names, use, known[use.es]) : use \in uses}, LAMBDA more :
    IF more = uses THEN [uses |-> uses, known |-> known, names |-> names]
    ELSE Closed(u, names, more)))

----------------------------------------------------------------------------
(* Programs. *)

\* The global constants, as statements.
ConstsOf(p) ==
    [i \in DOMAIN p.consts |-> Const(p.consts[i].n, p.consts[i].t, p.consts[i].e)]

GraphOf(nodes, edges) ==
    Thread(LAMBDA g, e : G!AddEdge(g, e[1], e[2]),
           [nodes |-> nodes, edges |-> <<>>], SetToSeq(edges))

\* The structs in use, members before what they are members of.
CompositeOrder(u) ==
    LET Named(t) == {x \in DOMAIN u.p.structs : t.k = "composite" /\ t.n = x}
        ofType[t \in UNION {{m.t : m \in Range(u.p.structs[x])} : x \in DOMAIN u.p.structs}] ==
          Named(t) \cup UNION {Named(t.s[i]) : i \in DOMAIN t.s}
        edges == UNION {UNION {{<<x, y>> : y \in ofType[m.t]} :
                                 m \in Range(u.p.structs[x])} : x \in u.used}
    IN  G!PostOrder(G!RetainNodes(GraphOf(SetToSeq(DOMAIN u.p.structs), edges), u.used)).order

\* What is called by something that can be called from outside, callees first.
CallOrder(u) ==
    LET names == [i \in DOMAIN u.p.funcs |-> u.p.funcs[i].n]
        roots == {"constructor"} \cup
                 {x \in Range(names) : LET fn == FunctionNamed(u.p, x)
                                      IN  \/ fn.variant \in {"EntryPoint", "View"}
                                          \/ fn.variant = "Fn" /\ fn.consts = <<>>}
    IN  SelectSeq(G!PostOrderWithFilter(GraphOf(names, u.calls), roots).order,
                  LAMBDA x : x \in Range(names) \ {"constructor"})

\* The functions and structs that are visited, and all uses in them.
Visits(u) ==
    [funcs |-> Append(CallOrder(u), "constructor"), structs |-> CompositeOrder(u)]
AllUses(u, v) ==
    LET names == {fn.n : fn \in Range(u.p.funcs)}
        InFunction(n) == FunctionUses(names, FunctionNamed(u.p, n))
    IN  Closed(u, names,
          Over([i \in DOMAIN v.funcs |-> InFunction(v.funcs[i])])
            \cup Over([i \in DOMAIN v.structs |-> ParamUses(u.p.structs[v.structs[i]])])
            \cup Over([g \in DOMAIN u.p.globals |-> TypeUses(u.p.globals[g].t)])
            \cup StatementUses(names, ConstsOf(u.p)))

\* reconstruct_program_scope.  A generic function goes once it was copied, unless a
\* call still needs it; every generic struct goes.  A copy of what was not visited is
\* a panic.
MonoScope(u, v, x) ==
    LET made == {use \in x.uses : x.known[use.es] # <<>>}
        Name(use) == Specialized(use.n, x.known[use.es])
        calls == {use \in made : use.sort = "Call"}
        mono == {use.n : use \in calls}
        waiting == {use.n : use \in {c \in x.uses \ made : c.sort = "Call"}}
        kept == SelectSeq(v.funcs, LAMBDA n : n \notin mono \/ n \in waiting)
        all == [i \in DOMAIN kept |-> FunctionNamed(u.p, kept[i])]
        entry == SelectSeq(all, LAMBDA fn : fn.variant = "EntryPoint")
        other == SelectSeq(Front(all), LAMBDA fn : fn.variant # "EntryPoint")
        copied == SetToSeq({<<use.n, x.known[use.es]>> : use \in calls})
        copies == [i \in DOMAIN copied |-> FunctionCopy(u.p, copied[i][1], copied[i][2])]
        funcs == entry \o other \o copies \o <<Last(all)>>
        concrete == {n \in Range(v.structs) : ParamsOf(u.p, n) = <<>>}
        apart == u.p.external \ Range(v.structs)
        Copy(use) == MonoParams(x, CompositeCopy(u.p, use.n, x.known[use.es]))
    IN  [u |-> [u EXCEPT
           !.p.funcs = [i \in DOMAIN funcs |-> MonoFunction(x, funcs[i])],
           !.p.structs = [n \in concrete \cup apart |-> MonoParams(x, @[n])]
              @@ [y \in {Name(use) : use \in made \ calls} |->
                    Copy(CHOOSE use \in made \ calls : Name(use) = y)],
           !.p.params = <<>>,
           !.p.globals = [n \in DOMAIN @ |-> [@[n] EXCEPT !.t = MonoType(x, @)]],
           !.p.consts = [i \in DOMAIN @ |->
              [@[i] EXCEPT !.t = MonoType(x, @), !.e = MonoExpr(x, @)]],
           !.bad = @ \/ ~({use.n : use \in made} \subseteq Range(v.funcs \o v.structs))],
         changed |-> made # {} \/ ~(DOMAIN u.p.structs \subseteq u.used \cup u.p.external),
         left |-> {use.sort : use \in x.uses \ made}]

\* do_pass.
MonoProgram(u) ==
    Feed(Visits(u), LAMBDA v : Feed(AllUses(u, v), LAMBDA x : MonoScope(u, v, x)))
=============================================================================
