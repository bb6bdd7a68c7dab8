--------------------------- MODULE Optimizations ---------------------------
(***************************************************************************)
(* The passes that remove code: remove_unreachable, in the rounds of       *)
(* constant propagation, and at the end of the pipeline common             *)
(* subexpression elimination and dead code elimination.                    *)
(***************************************************************************)
EXTENDS LeoAst, SequencesExt

----------------------------------------------------------------------------
(***************************************************************************)
(* passes/src/remove_unreachable.rs: what follows a return in a block goes.*)
(* A visit yields the node and whether a return was met (has_return).      *)
(***************************************************************************)

RECURSIVE ReachBlock(_, _)

\* A conditional returns when both its branches do.
ReachConditional(ret, s) ==
    Bind([i \in DOMAIN s.b |-> ReachBlock(FALSE, s.b[i])], LAMBDA bs :
    [ret |-> ret \/ (Len(s.b) = 2 /\ bs[1].ret /\ bs[2].ret),
     s |-> [s EXCEPT !.b = [i \in DOMAIN bs |-> bs[i].ss]]])

\* A return inside an iteration does not count.
ReachIteration(ret, s) ==
    [ret |-> ret, s |-> [s EXCEPT !.b = <<ReachBlock(FALSE, s.b[1]).ss>>]]

ReachStatement(ret, s) ==
    Bind(ReachBlock(ret, s.b[1]), LAMBDA b :
    CASE s.k = "Conditional" -> ReachConditional(ret, s)
      [] s.k = "Iteration" -> ReachIteration(ret, s)
      [] s.k = "Block" -> [ret |-> b.ret, s |-> [s EXCEPT !.b = <<b.ss>>]]
      [] s.k = "Return" -> [ret |-> TRUE, s |-> s]
      [] OTHER -> [ret |-> ret, s |-> s])

\* reconstruct_block: the scan keeps the statements up to the first after
\* which a return has been met; it visits one more.
ReachBlock(ret, ss) ==
    LET Scan(acc, s) ==
          Bind(ReachStatement(acc.ret, s), LAMBDA r :
          CASE acc.ended -> acc
            [] ~acc.ended /\ acc.seen -> [acc EXCEPT !.ret = r.ret, !.ended = TRUE]
            [] OTHER -> [ret |-> r.ret, seen |-> r.ret, ended |-> FALSE,
                         ss |-> Append(acc.ss, r.s)])
    IN  Bind(Thread(Scan, [ret |-> ret, seen |-> FALSE, ended |-> FALSE, ss |-> <<>>], ss), LAMBDA all :
        [ret |-> all.ret, ss |-> all.ss])

\* reconstruct_function and reconstruct_constructor; do_pass never reports a
\* change.
RemoveUnreachableProgram(u) ==
    [u EXCEPT !.p.funcs = [i \in DOMAIN @ |->
                [@[i] EXCEPT !.body = ReachBlock(FALSE, @).ss]]]

----------------------------------------------------------------------------
(***************************************************************************)
(* passes/src/common_subexpression_elimination: a definition whose value   *)
(* was computed before, in this block or in an enclosing one, is dropped,  *)
(* and its name stands for the earlier one.                                *)
(*                                                                         *)
(* scopes is the stack of tables from the expressions met so far to their  *)
(* names.  Types are no part of a key, except that of a literal.           *)
(***************************************************************************)

Commutative == {"Add", "AddWrapped", "BitwiseAnd", "BitwiseOr", "Eq", "Neq",
                "Mul", "And", "Or", "Xor", "Nand", "Nor"}

\* Atom.
Atom(e) == [k |-> e.k, n |-> e.n, v |-> e.v,
            t |-> IF e.k = "Literal" THEN e.t.k ELSE ""]
IsAtom(e) == e.k \in {"Path", "Literal"}

\* Expr: the key of an expression.  The operands of a commutative operation
\* are put in a fixed order, here: into a set.
Key(e) ==
    [k |-> IF IsAtom(e) THEN "Atom" ELSE e.k,
     n |-> IF IsAtom(e) THEN "" ELSE e.n,
     s |-> IF IsAtom(e) THEN <<Atom(e)>>
           ELSE IF e.n \in Commutative THEN <<>>
           ELSE [i \in DOMAIN e.s |-> Atom(e.s[i])],
     u |-> IF e.n \in Commutative THEN {Atom(e.s[i]) : i \in DOMAIN e.s}
           ELSE {}]

\* Kinds of expression that have a key.
HasKey(e) == IsAtom(e) \/ e.k \in {"Array", "ArrayAccess", "Binary", "Ternary",
                                   "Unary"}

Found(scopes, key) == \E i \in DOMAIN scopes : key \in DOMAIN scopes[i]
Name(scopes, key) ==
    scopes[CHOOSE i \in DOMAIN scopes :
             /\ key \in DOMAIN scopes[i]
             /\ \A j \in DOMAIN scopes : j > i => key \notin DOMAIN scopes[j]][key]

Remember(scopes, key, x) == [scopes EXCEPT ![Len(scopes)] = (key :> x) @@ @]

\* try_atom on an operand.
TryAtom(scopes, e) ==
    IF IsPath(e) /\ Found(scopes, Key(e)) THEN Path(Name(scopes, Key(e)), e.t)
    ELSE e

AllAtoms(e) == \A i \in DOMAIN e.s : IsAtom(e.s[i])

\* try_expr for an expression that a definition gives the name x, or, if x
\* is empty, that stands elsewhere: what it becomes, whether the definition
\* can go, whether the code gives up.
TryExpr(scopes, e, x) ==
    Bind(IF IsAtom(e) THEN e
         ELSE [e EXCEPT !.s = [i \in DOMAIN @ |-> TryAtom(scopes, @[i])]], LAMBDA e1 :
    Bind(Key(e1), LAMBDA key :
    LET here == Key(Path(x, e.t))
        Yield(sc, r, gone, bad) == [scopes |-> sc, e |-> r, gone |-> gone,
                                    bad |-> bad]
    IN  IF ~IsAtom(e) /\ (~AllAtoms(e) \/ e.k = "TupleAccess")
        THEN Yield(scopes, e, FALSE, TRUE)
        ELSE IF ~HasKey(e1) THEN Yield(scopes, e1, FALSE, FALSE)
        ELSE IF Found(scopes, key)
        THEN Yield(IF x = "" THEN scopes
                   ELSE Remember(scopes, here, Name(scopes, key)),
                   Path(Name(scopes, key), e.t), x # "", e.t = NoType)
        ELSE Yield(IF x = "" THEN scopes ELSE Remember(scopes, key, x),
                   e1, FALSE, FALSE)))

\* The elements of a tuple are tried one by one; a tuple has no key.
TryTuple(scopes, e) ==
    Bind([i \in DOMAIN e.s |-> TryExpr(scopes, e.s[i], "")], LAMBDA rs :
    [scopes |-> scopes, e |-> [e EXCEPT !.s = [i \in DOMAIN rs |-> rs[i].e]],
     gone |-> FALSE, bad |-> \E i \in DOMAIN rs : rs[i].bad])

TryAny(scopes, e, x) ==
    IF e.k = "Tuple" THEN TryTuple(scopes, e) ELSE TryExpr(scopes, e, x)

----------------------------------------------------------------------------
RECURSIVE CseBlock(_, _)

\* reconstruct_definition and the default traversal of the other statements.
CseStatement(scopes, s) ==
    LET x == IF s.k = "Definition" /\ Len(s.ns) = 1 THEN s.ns[1] ELSE ""
    IN  Bind(TryAny(scopes, s.e[1], x), LAMBDA d :
        Bind([i \in DOMAIN s.e |-> TryAny(scopes, s.e[i], "")], LAMBDA es :
        Bind([i \in DOMAIN s.b |-> CseBlock(scopes, s.b[i])], LAMBDA bs :
        IF s.k = "Definition"
        THEN [scopes |-> d.scopes, bad |-> d.bad,
              s |-> IF d.gone THEN Dummy ELSE [s EXCEPT !.e = <<d.e>>]]
        ELSE [scopes |-> scopes,
              s |-> [s EXCEPT !.e = [i \in DOMAIN es |-> es[i].e],
                              !.b = [i \in DOMAIN bs |-> bs[i].ss]],
              bad |-> \/ s.k = "Iteration"
                      \/ \E i \in DOMAIN es : es[i].bad
                      \/ \E i \in DOMAIN bs : bs[i].bad])))

\* reconstruct_block: a scope of its own.
CseBlock(scopes, ss) ==
    Thread(LAMBDA acc, s :
             Bind(CseStatement(acc.scopes, s), LAMBDA r :
             [scopes |-> r.scopes, ss |-> Append(acc.ss, r.s),
              bad |-> acc.bad \/ r.bad]),
           [scopes |-> Append(scopes, <<>>), ss |-> <<>>, bad |-> FALSE], ss)

CseProgram(u) ==
    Bind([i \in DOMAIN u.p.funcs |-> CseBlock(<<>>, u.p.funcs[i].body)], LAMBDA rs :
    [u EXCEPT !.p.funcs = [i \in DOMAIN @ |->
                             [@[i] EXCEPT !.body = rs[i].ss]],
              !.bad = @ \/ \E i \in DOMAIN rs : rs[i].bad])

----------------------------------------------------------------------------
(***************************************************************************)
(* passes/src/dead_code_elimination: definitions that nothing uses go,     *)
(* unless computing them may fail or has an effect; so do functions that   *)
(* are no longer called.                                                   *)
(***************************************************************************)

\* reconstruct_path: every path that is kept is a use.
RECURSIVE Uses(_)
Uses(e) == (IF IsPath(e) THEN {e.n} ELSE {})
             \cup UNION {Uses(e.s[i]) : i \in DOMAIN e.s}
UsesOf(es) == UNION {Uses(es[i]) : i \in DOMAIN es}

RECURSIVE DceBlock(_, _)

\* reconstruct_definition, reconstruct_expression_statement and the default
\* traversal: the statement, and the variables used from it on.
DceStatement(used, s) ==
    Bind(Thread(LAMBDA acc, b :
                  Bind(DceBlock(acc.used, b), LAMBDA r :
                  [used |-> r.used, b |-> Append(acc.b, r.ss),
                   bad |-> acc.bad \/ r.bad]),
                [used |-> used \cup UsesOf(s.e), b |-> <<>>,
                 bad |-> FALSE], s.b), LAMBDA bs :
    LET dead == \/ /\ s.k = "Definition"
                   /\ ToSet(s.ns) \cap used = {}
                   /\ CanDiscard(s.e[1], {})
                \/ s.k = "Expression" /\ CanDiscard(s.e[1], {})
    IN  IF dead THEN [used |-> used, s |-> Dummy, bad |-> FALSE]
        ELSE [used |-> bs.used, s |-> [s EXCEPT !.b = bs.b],
              bad |-> bs.bad \/ s.k \in {"Assign", "Iteration"}])

\* reconstruct_block: from the last statement to the first.
DceBlock(used, ss) ==
    LET r == Thread(LAMBDA acc, s :
                      Bind(DceStatement(acc.used, s), LAMBDA g :
                      [used |-> g.used, ss |-> <<g.s>> \o acc.ss,
                       bad |-> acc.bad \/ g.bad]),
                    [used |-> used, ss |-> <<>>, bad |-> FALSE], Reverse(ss))
    IN  [r EXCEPT !.ss = SelectSeq(@, LAMBDA s : ~IsRemovable(s))]

\* The functions that stay.
IsKept(u, fn) == CASE fn.variant = "Fn" -> u.counts[fn.n] > 0
                   [] fn.variant = "FinalFn" -> FALSE
                   [] OTHER -> TRUE

\* reconstruct_program_scope, reconstruct_function, reconstruct_constructor.
DceProgram(u) ==
    LET kept == SelectSeq(u.p.funcs, LAMBDA fn : IsKept(u, fn))
    IN  Bind([i \in DOMAIN kept |-> DceBlock({}, kept[i].body)], LAMBDA rs :
        [u EXCEPT !.p.funcs = [i \in DOMAIN kept |->
                                 [kept[i] EXCEPT !.body = rs[i].ss]],
                  !.bad = @ \/ \E i \in DOMAIN rs : rs[i].bad])
=============================================================================
