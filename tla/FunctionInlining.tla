-------------------------- MODULE FunctionInlining --------------------------
(***************************************************************************)
(* passes/src/function_inlining, for the functions of one program: callees *)
(* first, a call is replaced by the callee's body with the arguments for   *)
(* the parameters and fresh names for its definitions.  A body with a      *)
(* return under a conditional (on chain conditionals stay) is woven into   *)
(* the caller: each return path binds the result and gets its own copy of  *)
(* the statements after the call that depend on it.                        *)
(*                                                                         *)
(* st.counts is CompilerState::call_count, st.done the functions already   *)
(* reconstructed, st.always what the analysis found, st.fin whether code   *)
(* that runs on chain is being traversed.                                  *)
(***************************************************************************)
EXTENDS SsaForming

----------------------------------------------------------------------------
(* What a statement reads, defines, calls.                                 *)

RECURSIVE ExprNames(_, _)
ExprNames(kind, e) ==
    (IF e.k = kind THEN {e.n} ELSE {})
      \cup UNION {ExprNames(kind, e.s[i]) : i \in DOMAIN e.s}

RECURSIVE StmtNames(_, _)
StmtNames(kind, s) ==
    UNION {ExprNames(kind, s.e[i]) : i \in DOMAIN s.e}
      \cup UNION {StmtNames(kind, s.b[i][j]) :
                    <<i, j>> \in {ij \in (DOMAIN s.b) \X (1 .. 99) :
                                    ij[2] <= Len(s.b[ij[1]])}}

LocalUses(s) == StmtNames("Path", s)
CallsOf(ss) == UNION {StmtNames("Call", ss[i]) : i \in DOMAIN ss}

\* The statements of the blocks of s, one after the other.
Inner(s) == FlattenSeq(s.b)

RECURSIVE DefsOf(_)
DefsOf(s) ==
    ToSet(s.ns) \cup UNION {DefsOf(Inner(s)[i]) : i \in DOMAIN Inner(s)}

RECURSIVE ContainsReturn(_)
ContainsReturn(s) ==
    \/ s.k = "Return"
    \/ s.k \in {"Block", "Conditional"}
         /\ \E i \in DOMAIN Inner(s) : ContainsReturn(Inner(s)[i])

SomeReturn(ss) == \E i \in DOMAIN ss : ContainsReturn(ss[i])

----------------------------------------------------------------------------
(* iterative.rs *)

\* The visitor that inlining makes for itself: no enclosing scopes.
FreshSsa(st) ==
    [c |-> st.c, tab |-> <<(<<>>)>>, bad |-> st.bad, renameDefs |-> TRUE]
Resume(st, ssa) == [st EXCEPT !.c = ssa.c, !.bad = ssa.bad]

(* Mutant: a copy keeps the names of the original. *)
FreshCloneVerbatim(p, st, ss) == Out(st, 0, ss)

\* fresh_clone.
FreshClone(p, st, ss) ==
    Bind(ConsumeBlock(p, FreshSsa(st), ss), LAMBDA r :
    IF ss = <<>> THEN Out(st, 0, <<>>) ELSE Out(Resume(st, r.st), 0, r.ss))

\* bind_and_continue: xs are the names that take the value, none if the
\* call's value is discarded.
BindAndContinue(p, st, value, xs, continuation) ==
    LET bind == IF xs = <<>> THEN <<>>
                ELSE IF Len(xs) > 1 /\ value.k = "Tuple"
                THEN [i \in DOMAIN xs |-> Let(xs[i], value.s[i])]
                ELSE <<Definition(xs, value)>>
    IN  FreshClone(p, st, bind \o continuation)

\* weave.
RECURSIVE Weave(_, _, _, _, _)
Weave(p, st, ss, xs, continuation) ==
    LET returning == {i \in DOMAIN ss : ContainsReturn(ss[i])}
    IN  Bind(CHOOSE j \in returning : \A k \in returning : j <= k, LAMBDA i :
        LET before == SubSeq(ss, 1, i - 1)
            rest == SubSeq(ss, i + 1, Len(ss))
            s == ss[i]
        IN  Bind(FreshClone(p, st, rest), LAMBDA copy :
            Bind(Weave(p, copy.st, s.b[1] \o copy.ss, xs, continuation), LAMBDA then :
            Bind(Weave(p, then.st,
                       (IF Len(s.b) = 2 THEN s.b[2] ELSE <<>>) \o rest,
                       xs, continuation), LAMBDA else :
            Bind(BindAndContinue(p, st, Unit, xs, continuation), LAMBDA end :
            Bind(BindAndContinue(p, st, s.e[1], xs, continuation), LAMBDA ret :
            Bind(Weave(p, st, s.b[1] \o rest, xs, continuation), LAMBDA merged :
            IF returning = {} THEN Out(end.st, 0, ss \o end.ss)
            ELSE CASE s.k = "Return" -> Out(ret.st, 0, before \o ret.ss)
                   [] s.k = "Block" -> Out(merged.st, 0, before \o merged.ss)
                   [] s.k = "Conditional" ->
                        Out(else.st, 0, Append(before,
                              Conditional(s.e[1], <<then.ss, else.ss>>))))))))))

\* split_continuation: how many of the statements after the call are copied
\* into every return path.
SplitContinuation(xs, ss) ==
    LET step(acc, i) ==
          IF LocalUses(ss[i]) \cap acc.names = {} THEN acc
          ELSE [cut |-> i, names |-> acc.names \cup DefsOf(ss[i])]
    IN  Bind(Thread(step, [cut |-> 0, names |-> ToSet(xs)],
                    [i \in DOMAIN ss |-> i]).cut, LAMBDA direct :
        LET DefsUpTo(c) == UNION {DefsOf(ss[i]) : i \in 1 .. c}
            Closed(c) == \A i \in DOMAIN ss :
                           i > c => LocalUses(ss[i]) \cap DefsUpTo(c) = {}
        IN  IF direct = 0 THEN 0
            ELSE CHOOSE c \in direct .. Len(ss) :
                   Closed(c) /\ \A d \in direct .. (c - 1) : ~Closed(d))

\* lower_iterative_inline.
LowerIterativeInline(p, st, body, xs, continuation) ==
    Bind(SplitContinuation(xs, continuation), LAMBDA cut :
    Bind(Weave(p, st, body, xs, SubSeq(continuation, 1, cut)), LAMBDA r :
    Out(r.st, 0,
        r.ss \o SubSeq(continuation, cut + 1, Len(continuation)))))

----------------------------------------------------------------------------
(* transform.rs *)

RECURSIVE NamesOptional(_)
NamesOptional(t) ==
    \/ t.k = "optional"
    \/ t.k \in {"tuple", "array"} /\ \E i \in DOMAIN t.s : NamesOptional(t.s[i])

\* Type::is_empty.
EmptyType(t) == t.k = "unit" \/ (t.k = "array" /\ t.l = 0)

\* should_inline in reconstruct_call.
ShouldInline(st, fn) ==
    \/ fn.variant = "FinalFn"
    \/ /\ fn.variant = "Fn"
       /\ \/ st.fin
          \/ Len(fn.ins) > 16
          \/ NamesOptional(fn.out)
          \/ \E i \in DOMAIN fn.ins : NamesOptional(fn.ins[i].t)
          \/ fn.n \in st.always
          \/ /\ ~fn.noInline
             /\ \/ st.counts[fn.n] = 1
                \/ \A i \in DOMAIN fn.ins : EmptyType(fn.ins[i].t)

\* Replacer: e with the arguments for the parameters.
RECURSIVE ReplaceIn(_, _)
ReplaceIn(args, e) ==
    IF IsPath(e) /\ e.n \in DOMAIN args THEN args[e.n]
    ELSE [e EXCEPT !.s = [i \in DOMAIN @ |-> ReplaceIn(args, @[i])]]

RECURSIVE ReplaceInBlock(_, _)
ReplaceInBlock(args, ss) ==
    [i \in DOMAIN ss |->
       [ss[i] EXCEPT !.e = [j \in DOMAIN @ |-> ReplaceIn(args, @[j])],
                     !.b = [j \in DOMAIN @ |-> ReplaceInBlock(args, @[j])]]]

\* reconstruct_call: what is left of the call, the statements before it and
\* whether they are a body still to be woven into the caller.
InlineCall(p, st, e) ==
    LET fn == st.done[e.n]
        names == {fn.ins[i].n : i \in DOMAIN fn.ins}
        args == [x \in names |-> e.s[CHOOSE i \in DOMAIN fn.ins :
                                       fn.ins[i].n = x]]
    IN  Bind(ConsumeBlock(p, FreshSsa(st), ReplaceInBlock(args, fn.body)), LAMBDA r :
        LET st1 == [Resume(st, r.st) EXCEPT !.counts[e.n] = @ - 1]
            ended == r.ss # <<>> /\ Last(r.ss).k = "Return"
            before == IF ended THEN Front(r.ss) ELSE r.ss
            Yield(s, x, ss, woven) == [st |-> s, e |-> x, ss |-> ss,
                                       woven |-> woven]
        IN  IF e.n \notin DOMAIN st.done
            THEN Yield([st EXCEPT !.bad = TRUE], e, <<>>, FALSE)
            ELSE IF ~ShouldInline(st, fn) THEN Yield(st, e, <<>>, FALSE)
            ELSE IF SomeReturn(before) THEN Yield(st1, Unit, r.ss, TRUE)
            ELSE Yield(st1, IF ended THEN Last(r.ss).e[1] ELSE Unit, before, FALSE))

RECURSIVE InlineStatements(_, _, _)

\* reconstruct_definition, reconstruct_expression_statement and
\* reconstruct_conditional.  After SSA a call is all there is on the right of
\* a definition or in an expression statement.
InlineStatement(p, st, s) ==
    Bind(InlineCall(p, st, s.e[1]), LAMBDA call :
    Bind(Thread(LAMBDA acc, b :
                  Bind(InlineStatements(p, acc.st, b), LAMBDA r :
                  Out(r.st, Append(acc.e, r.ss), <<>>)),
                Out(st, <<>>, <<>>), s.b), LAMBDA blocks :
    LET Yield(st1, ss, body, xs) == [st |-> st1, ss |-> ss, body |-> body,
                                     xs |-> xs]
    IN  IF s.k \in {"Definition", "Expression"} /\ s.e[1].k = "Call"
        THEN IF call.woven THEN Yield(call.st, <<>>, call.ss, s.ns)
             ELSE IF s.k = "Definition" /\ Len(s.ns) > 1 /\ call.e.k = "Tuple"
             THEN Yield(call.st, call.ss \o [i \in DOMAIN s.ns |->
                                    Let(s.ns[i], call.e.s[i])], <<>>, <<>>)
             ELSE IF s.k = "Expression" /\ call.e.k = "Unit"
             THEN Yield(call.st, call.ss, <<>>, <<>>)
             ELSE Yield(call.st, Append(call.ss, [s EXCEPT !.e = <<call.e>>]),
                        <<>>, <<>>)
        ELSE IF s.k \in {"Assign", "Iteration"}
                  \/ (s.k = "Conditional" /\ ~st.fin)
        THEN Yield([st EXCEPT !.bad = TRUE], <<s>>, <<>>, <<>>)
        ELSE Yield(blocks.st, <<[s EXCEPT !.b = blocks.e]>>, <<>>, <<>>)))

\* reconstruct_statements: when a statement inlines a body that has to be
\* woven, the rest of the block is reconstructed as its continuation.
InlineStatements(p, st, ss) ==
    LET step(acc, i) ==
          IF acc.at # 0 THEN acc
          ELSE Bind(InlineStatement(p, acc.st, ss[i]), LAMBDA r :
               [st |-> r.st, ss |-> acc.ss \o r.ss, body |-> r.body,
                xs |-> r.xs, at |-> IF r.body = <<>> THEN 0 ELSE i])
    IN  Bind(Thread(step, [st |-> st, ss |-> <<>>, body |-> <<>>,
                           xs |-> <<>>, at |-> 0], [i \in DOMAIN ss |-> i]), LAMBDA r :
        Bind(InlineStatements(p, r.st, SubSeq(ss, r.at + 1, Len(ss))), LAMBDA k :
        Bind(LowerIterativeInline(p, k.st, r.body, r.xs, k.ss), LAMBDA l :
        IF r.at = 0 THEN Out(r.st, 0, r.ss)
        ELSE Out(l.st, 0, r.ss \o l.ss))))

\* reconstruct_function and reconstruct_constructor.
InlineFunction(p, st, fn) ==
    LET onChain == fn.variant = "Constructor" \/ IsFinalizeContext(fn.variant)
    IN  Bind(InlineStatements(p, [st EXCEPT !.fin = onChain], fn.body), LAMBDA r :
        LET new == [fn EXCEPT !.body = r.ss]
        IN  [r.st EXCEPT !.fin = FALSE, !.done = (fn.n :> new) @@ @])

----------------------------------------------------------------------------
(* analysis.rs and mod.rs                                                  *)

\* AnalysisVisitor: what is called from anything but an entry point.
FunctionsToInline(p) ==
    UNION {CallsOf(p.funcs[i].body) :
             i \in {j \in DOMAIN p.funcs : p.funcs[j].variant # "EntryPoint"}}

\* DiGraph::post_order of the call graph: callees before callers.
RECURSIVE PostOrder(_, _, _)
PostOrder(p, seen, names) ==
    Thread(LAMBDA acc, x :
             IF x \in ToSet(acc) THEN acc
             ELSE Append(PostOrder(p, acc,
                           SetToSeq(CallsOf(FunctionNamed(p, x).body))), x),
           seen, names)

\* do_pass; the functions keep the order in which they were reconstructed.
InlineProgram(u) ==
    LET p == u.p
        order == PostOrder(p, <<>>, [i \in DOMAIN p.funcs |-> p.funcs[i].n])
        st0 == [c |-> u.c, bad |-> u.bad, counts |-> u.counts, done |-> <<>>,
                fin |-> FALSE, always |-> FunctionsToInline(p)]
    IN  Bind(Thread(LAMBDA acc, x : InlineFunction(p, acc, FunctionNamed(p, x)),
                    st0, order), LAMBDA r :
        [u EXCEPT !.p.funcs = [i \in DOMAIN order |-> r.done[order[i]]],
                  !.c = r.c, !.bad = r.bad, !.counts = r.counts])
=============================================================================
