---------------------------- MODULE TypeChecking -----------------------------
(***************************************************************************)
(* The type checker: statements, functions, declarations and the whole     *)
(* program (type_checking/ast.rs, program.rs, visitor.rs, scope_state.rs). *)
(* TypeCheck(p) is the program with the type of every expression recorded, *)
(* and what the pass found out on the way: the errors, the call counts and *)
(* the call graph, and the structs in use.                                 *)
(***************************************************************************)
EXTENDS TypeCalls

CONSTANTS MaxInputs, MaxOutputs, MaxMappings, MaxFunctions

----------------------------------------------------------------------------
(* Scope. *)

\* ScopeState::new and the visitor's own fields.
NewChecker(p) ==
    [p |-> p, errs |-> {}, vars |-> <<>>, csc |-> <<>>, variant |-> "", function |-> "",
     hasReturn |-> FALSE, cond |-> FALSE, final |-> FALSE, outer |-> {}, seenFinal |-> FALSE,
     ctor |-> FALSE, calledFinalize |-> FALSE, callLoc |-> "", futures |-> <<>>,
     finalizers |-> <<>>, callers |-> <<>>, finals |-> <<>>, onchain |-> FALSE,
     programIdArg |-> FALSE, users |-> {}, pending |-> {}, calls |-> {}, used |-> {},
     counts |-> [n \in {fn.n : fn \in Range(AllFunctions(p))} |-> 0]]

\* ScopeState::reset.
Reset(c) ==
    [c EXCEPT !.function = "", !.variant = "", !.hasReturn = FALSE, !.calledFinalize = FALSE,
              !.cond = FALSE, !.callLoc = "", !.ctor = FALSE, !.seenFinal = FALSE,
              !.futures = <<>>, !.onchain = FALSE, !.programIdArg = FALSE]

InLastScope(c, x) == c.csc # <<>> /\ x \in c.csc[Len(c.csc)]
EnterConditional(c) == [c EXCEPT !.csc = Append(@, {})]
LeaveConditional(c) == [c EXCEPT !.csc = SubSeq(@, 1, Len(@) - 1)]
Remember(c, x) == [c EXCEPT !.csc[Len(c.csc)] = @ \cup {x}]

Declare(c, x, t, d) == [c EXCEPT !.vars = (x :> [t |-> t, d |-> d]) @@ @]

IsVariable(c, x) == x \in DOMAIN c.vars \/ x \in DOMAIN c.p.globals
Variable(c, x) == IF x \in DOMAIN c.vars THEN c.vars[x] ELSE c.p.globals[x]

\* set_local_type: a future remembers the call it came from.
SetLocalType(c, x, inferred, t) ==
    LET future == t.k = "future" \/ (IsTuple(t) /\ t.s[Len(t.s)].k = "future")
        c1 == IF future /\ c.callLoc # ""
              THEN [c EXCEPT !.futures = (x :> c.callLoc) @@ @] ELSE c
    IN  Declare(Remember(c1, x), x, IF future THEN inferred ELSE t, "Mut")

----------------------------------------------------------------------------
(* Expressions. *)

VisitPath(c, e, x) ==
    LET var == Variable(c, e.n)
        c1 == IF var.d = "Storage" /\ var.t.k \notin {"vector", "mapping"}
              THEN CheckAccessAllowed(c, "FinalizeRead") ELSE c
    IN  CASE ~IsVariable(c, e.n) -> Yield(Emit(c, "unknown_sym"), e, ErrType)
          [] e.n \notin DOMAIN c.vars /\ e.n \in c.p.hidden ->
               Yield(Emit(c, "inaccessible_item"), e, ErrType)
          [] OTHER -> Yield(MaybeAssertType(c1, var.t, x), e, var.t)

\* visit_expression with the type that is expected, or visit_block.
RECURSIVE Visit(_, _, _)
VisitBlock(c, ss) == Visit(c, Block(ss), NoType)

\* The two operands, each with an expected type.
Operands(c, e, xl, xr) ==
    Feed(Visit(c, e.s[1], xl), LAMBDA l :
    Feed(Visit(l.c, e.s[2], xr), LAMBDA r : [l |-> l, r |-> r, c |-> r.c]))

\* "none" takes the type of what it is compared with.
VisitOperands(c, e, x) ==
    LET xo == UnwrapOptionalType(x)
    IN  CASE e.n \in LogicalOps -> Operands(MaybeAssertType(c, Boolean, x), e, Boolean, Boolean)
          [] e.n \in Comparisons -> Operands(c, e, NoType, NoType)
          [] e.n = "Mul" /\ xo = Group -> Operands(c, e, NoType, NoType)
          [] e.n \in {"Eq", "Neq"} /\ IsNone(e.s[1]) /\ ~IsNone(e.s[2]) ->
               Feed(Visit(c, e.s[2], NoType), LAMBDA r :
               Feed(Visit(r.c, e.s[1], r.t), LAMBDA l : [l |-> l, r |-> r, c |-> l.c]))
          [] e.n \in {"Eq", "Neq"} /\ IsNone(e.s[2]) ->
               Feed(Visit(c, e.s[1], NoType), LAMBDA l :
               Feed(Visit(l.c, e.s[2], l.t), LAMBDA r : [l |-> l, r |-> r, c |-> r.c]))
          [] e.n \in {"Eq", "Neq"} /\ ~IsNone(e.s[1]) /\ ~IsNone(e.s[2]) ->
               Operands(c, e, NoType, NoType)
          [] e.n \in {"Pow", "PowWrapped", "Shl", "Shr", "ShlWrapped", "ShrWrapped"} ->
               Operands(c, e, xo, NoType)
          [] OTHER -> Operands(c, e, xo, xo)

VisitBinary(c, e, x) ==
    Feed(VisitOperands(c, e, x), LAMBDA two : BinaryRule(two, e, x))

VisitUnary(c, e, x) ==
    LET xo == IF e.n \in {"ToXCoordinate", "ToYCoordinate"} THEN Group
              ELSE UnwrapOptionalType(x)
    IN  Feed(Visit(c, e.s[1], xo), LAMBDA r : UnaryRule(r, e, xo, x))

\* Both branches have the expected type; without one, a branch that is "none"
\* takes the type of the other, made optional.
VisitTernary(c, e, x) ==
    LET cond == Visit(c, e.s[1], Boolean)
        inside == [cond.c EXCEPT !.cond = TRUE]
        AsOptional(t) == IF t.k = "optional" THEN t ELSE OptionalType(t)
        Both(xt) == LET a == RejectNumeric(Visit(inside, e.s[2], xt))
                        b == RejectNumeric(Visit(a.c, e.s[3], xt))
                    IN  [c |-> b.c, a |-> a, b |-> b]
    IN  Bind(CASE x # NoType -> Both(x)
               [] x = NoType /\ IsNone(e.s[3]) ->
                    LET a == Visit(inside, e.s[2], NoType)
                        b == Visit(a.c, e.s[3], AsOptional(a.t))
                    IN  [c |-> b.c, a |-> a, b |-> b]
               [] x = NoType /\ ~IsNone(e.s[3]) /\ IsNone(e.s[2]) ->
                    LET b == Visit(inside, e.s[3], NoType)
                        a == Visit(b.c, e.s[2], AsOptional(b.t))
                    IN  [c |-> a.c, a |-> a, b |-> b]
               [] OTHER -> Both(NoType), LAMBDA branches :
        LET t1 == branches.a.t
            t2 == branches.b.t
            mismatch == ~CanCoerceTo(t1, t2) /\ ~CanCoerceTo(t2, t1)
        IN  Bind(CASE ErrType \in {t1, t2} \/ mismatch -> ErrType
                   [] x # NoType -> x
                   [] CanCoerceTo(t1, t2) -> t2
                   [] OTHER -> t1, LAMBDA t :
            LET after == [branches.c EXCEPT !.cond = c.cond]
                c1 == Report(after, {
                        <<mismatch /\ ErrType \notin {t1, t2}, "ternary_branch_mismatch">>,
                        <<\/ IsExternalRecord(c, t)
                          \/ IsTuple(t) /\ \E u \in Range(t.s) : IsExternalRecord(c, u),
                          "ternary_over_external_records">>,
                        <<t = DynRecord, "type_should_be">>})
            IN  Typed(c1, e,
                      <<cond.e, branches.a.e, branches.b.e>>, t)))

\* Each element is visited with its part of the expected type.
VisitTuple(c, e, x) ==
    LET wanted == IsTuple(x)
        n == IF wanted THEN Len(x.s) ELSE Len(e.s)
        es == SubSeq(e.s, 1, IF n < Len(e.s) THEN n ELSE Len(e.s))
    IN  Bind(VisitAll(Visit, c, es, LAMBDA i : IF wanted THEN x.s[i] ELSE NoType), LAMBDA r :
        LET unknown == {i \in DOMAIN r.ts : r.ts[i] = Numeric}
            ts == [i \in DOMAIN r.ts |-> IF i \in unknown THEN ErrType ELSE r.ts[i]]
            nested == /\ wanted \/ x = NoType
                      /\ \E i \in DOMAIN es : es[i].k = "Tuple"
            c1 == Report(r.c, {
                    <<wanted /\ n # Len(e.s), "incorrect_tuple_length">>,
                    <<nested, "nested_tuple_expression">>,
                    <<unknown # {}, "could_not_determine_type">>,
                    <<~wanted /\ x # NoType /\ ErrType \notin Range(ts), "type_should_be">>})
        IN  Typed(c1, e, r.es, IF x = NoType THEN TupleType(ts) ELSE x))

\* The type of the array is that of its first element.
VisitArray(c, e, x) ==
    LET xe == ExpectedElement(x)
    IN  Bind(VisitAll(LAMBDA d, el, u : RejectNumeric(Visit(d, el, u)), c, e.s, LAMBDA i : xe), LAMBDA r :
        LET first == IF e.s # <<>> THEN r.ts[1] ELSE IF xe = NoType THEN ErrType ELSE xe
            c1 == EmitIf(r.c, e.s = <<>> /\ xe = NoType, "could_not_determine_type")
            c2 == EmitIf(c1, Len(e.s) > MaxArrayElements, "array_too_large")
        IN  Bind(Thread(LAMBDA d, u : AssertType(d, u, IF xe = NoType THEN first ELSE xe),
                        c2, SubSeq(r.ts, 2, Len(r.ts))), LAMBDA c3 :
            Bind(IF ErrType \in Range(r.ts) \cup {first} THEN ErrType
                 ELSE ArrayType(first, Len(e.s)), LAMBDA t :
            Typed(IF t = ErrType THEN c3 ELSE MaybeAssertType(c3, t, x), e, r.es, t))))

VisitRepeat(c, e, x) ==
    LET el == RejectNumeric(Visit(c, e.s[1], ExpectedElement(x)))
    IN  Bind(InferDefaultU32(Visit(el.c, e.s[2], NoType)), LAMBDA n :
        LET len == IF n.e.k = "Literal" THEN n.e.v ELSE Unknown
            c1 == EmitIf(n.c, len > MaxArrayElements, "array_too_large")
            t == ArrayType(el.t, len)
        IN  Typed(MaybeAssertType(c1, t, x), e, <<el.e, n.e>>, t))

VisitArrayAccess(base, e, x) ==
    LET a == [base EXCEPT !.c = AssertKind(@, base.t, {"array"})]
        i0 == Visit(a.c, e.s[2], NoType)
    IN  Bind(IF i0.t = Numeric
             THEN [Retype(i0, U32) EXCEPT !.c = CheckNumericLiteral(@, i0.e, U32)]
             ELSE i0, LAMBDA i :
        LET c1 == AssertKind(i.c, i.t, IntegerTypes)
            t == IF a.t.k = "array" THEN a.t.s[1] ELSE ErrType
        IN  Typed(MaybeAssertType(c1, t, x), e, <<a.e, i.e>>, t))

\* The arguments of check_intrinsic, each visited with the type the container
\* asks for.  The index of a vector is a u32 when it has no suffix; nothing
\* else is said of its type.
VisitContainerArgs(c, e) ==
    LET box == Visit(c, Receiver(e), NoType)
        IsIndex(i) == i = 1 /\ e.n \in {"Vector::get", "Vector::set", "Vector::swap_remove"}
        Expected(i) == CASE box.t.k = "mapping" -> box.t.s[i]
                         [] box.t.k = "vector" -> box.t.s[1]
                         [] OTHER -> NoType
        One(acc, i) ==
          Feed(Visit(acc.c, Arguments(e)[i], IF IsIndex(i) THEN NoType ELSE Expected(i)),
               LAMBDA v : Bind(IF IsIndex(i) THEN InferDefaultU32(v) ELSE v, LAMBDA r :
                          [c |-> r.c, es |-> Append(acc.es, r.e), ts |-> Append(acc.ts, r.t)]))
    IN  Bind(Thread(One, [c |-> box.c, es |-> <<>>, ts |-> <<>>],
                    [i \in DOMAIN Arguments(e) |-> i]), LAMBDA rest :
        [c |-> rest.c, box |-> box.t, ts |-> rest.ts,
         es |-> IF e.f = <<>> THEN <<box.e>> \o rest.es ELSE rest.es])

VisitOptionalArgs(c, e, x) ==
    LET Fallback(opt) == CASE x # NoType -> x
                           [] x = NoType /\ opt.t.k = "optional" -> opt.t.s[1]
                           [] OTHER -> NoType
    IN  Feed(Visit(c, e.s[1], IF x = NoType THEN NoType ELSE OptionalType(x)), LAMBDA opt :
          IF Len(e.s) = 1 THEN [c |-> opt.c, es |-> <<opt.e>>, ts |-> <<opt.t>>]
          ELSE Feed(Visit(opt.c, e.s[2], Fallback(opt)), LAMBDA other :
                 [c |-> other.c, es |-> <<opt.e, other.e>>, ts |-> <<opt.t, other.t>>]))

\* The program, the network and the member of a dynamic access.
VisitTargets(c, e) ==
    LET r == VisitAll(Visit, c, SubSeq(e.s, 1, 3), LAMBDA i : NoType)
    IN  [r EXCEPT !.c = Thread(LAMBDA d, t : AssertKind(d, t, {"field", "identifier"}),
                               @, r.ts)]

\* check_dynamic_call_intrinsic.  e.t is the return type.
CheckDynamicCall(c, e, x) ==
    Bind(VisitTargets(ValidateDynamicCallScope(c), e), LAMBDA tgt :
    LET rest == VisitAll(LAMBDA d, el, u : RejectNumeric(Visit(d, el, u)), tgt.c,
                         SubSeq(e.s, 4, Len(e.s)), LAMBDA i : NoType)
        future == \/ e.t.k = "future"
                  \/ IsTuple(e.t) /\ \E u \in Range(e.t.s) : u.k = "future"
    IN  Bind(IF e.t = UnitType THEN rest.c ELSE AssertTypeIsValid(rest.c, e.t), LAMBDA c1 :
        LET c2 == IF future THEN [c1 EXCEPT !.callLoc = "dynamic"] ELSE c1
        IN  IF Len(e.s) < 3 THEN Yield(Emit(c, "dynamic_call_min_args"), e, ErrType)
            ELSE Typed(AssertAndReturnType(c2, e.t, x), e, tgt.es \o rest.es, e.t)))

\* check_dynamic_mapping_intrinsic: only the default is compared with the type.
CheckDynamicMapping(c, e, x) ==
    LET tgt == VisitTargets(RequireFinalScope(c), e)
    IN  Bind(RejectNumeric(Visit(tgt.c, e.s[4], NoType)), LAMBDA key :
        LET dflt == Visit(key.c, e.s[5], e.t)
            t == IF e.n = "Dynamic::contains" THEN Boolean ELSE e.t
            wrong == Len(e.s) # (IF e.n = "Dynamic::get_or_use" THEN 5 ELSE 4)
            last == IF Len(e.s) = 5 THEN dflt.c ELSE key.c
        IN  IF wrong THEN Yield(Emit(RequireFinalScope(c), "wrong_arg_count"), e, ErrType)
            ELSE Typed(MaybeAssertType(last, t, x), e,
                       tgt.es \o <<key.e>> \o (IF Len(e.s) = 5 THEN <<dflt.e>> ELSE <<>>), t))

\* get_intrinsic: "get" and "set" on a container mean what its type says.
ResolveAccess(c, e) ==
    LET box == Visit(c, Receiver(e), NoType)
        op == IF e.n = "__unresolved_get" THEN "get" ELSE "set"
    IN  IF e.n \notin {"__unresolved_get", "__unresolved_set"}
        THEN [c |-> c, e |-> e, ok |-> TRUE]
        ELSE [c |-> AssertKind(box.c, box.t, {"vector", "mapping"}),
              e |-> [e EXCEPT !.n = (IF box.t.k = "vector" THEN "Vector::" ELSE "Mapping::") \o op],
              ok |-> box.t.k \in {"vector", "mapping"}]

VisitArgs(c, e, x) ==
    CASE e.n \in MappingOps \cup VectorOps -> VisitContainerArgs(c, e)
      [] e.n \in {"Optional::unwrap", "Optional::unwrap_or"} -> VisitOptionalArgs(c, e, x)
      [] OTHER -> VisitAll(LAMBDA d, el, u : RejectNumeric(Visit(d, el, u)), c, e.s, LAMBDA i : NoType)

VisitResolved(c0, e, x) ==
    LET outside == c0.variant \notin {"Finalize", "FinalFn", "View"} /\ ~c0.final
        c == EmitIf(c0, outside /\ IsFinalizeCommand(e.n),
                    "operation_must_be_in_final_block_or_function")
        container == e.n \in MappingOps \cup VectorOps
    IN  CASE e.n = "Dynamic::call" -> CheckDynamicCall(c0, e, x)
          [] e.n \in DynamicReads -> CheckDynamicMapping(c0, e, x)
          [] /\ Len(e.f) + Len(e.s) # NumArgs(e.n)
             /\ e.n \notin DynamicReads \cup {"Dynamic::call"} ->
               Yield(MaybeAssertType(Emit(c, "incorrect_num_args_to_call"), ErrType, x),
                     e, ErrType)
          [] OTHER ->
               Feed(VisitArgs(c, e, x), LAMBDA args :
               Feed(CheckIntrinsic(args.c, e, IF container THEN args.box ELSE NoType,
                                   args.es, args.ts), LAMBDA r :
                    Typed(MaybeAssertType(r.c, r.t, x), e, args.es, r.t)))

VisitIntrinsic(c, e, x) ==
    Bind(ResolveAccess(c, e), LAMBDA found :
    IF ~found.ok THEN Yield(found.c, found.e, ErrType)
    ELSE VisitResolved(found.c, found.e, x))

\* An argument with an error ends the visit: the call is then not counted.
VisitArguments(c, fn, args) ==
    LET n == IF Len(args) < Len(fn.ins) THEN Len(args) ELSE Len(fn.ins)
        One(acc, i) ==
          IF acc.err THEN [acc EXCEPT !.es = Append(@, args[i])]
          ELSE Feed(Visit(acc.c, args[i], fn.ins[i].t), LAMBDA r :
                 LET next == [acc EXCEPT !.c = r.c, !.es = Append(@, r.e)]
                 IN  CASE r.t = ErrType -> [next EXCEPT !.err = TRUE]
                       [] r.t # ErrType /\ fn.variant = "Finalize" /\ fn.ins[i].t.k = "future" ->
                            ConsumeFuture(next, args[i], r.t)
                       [] OTHER -> [next EXCEPT !.inferred = Append(@, r.t)])
    IN  Thread(One, [c |-> c, es |-> <<>>, inferred |-> <<>>, err |-> FALSE],
               [i \in 1 .. n |-> i])

VisitCall(c, e, x) ==
    LET fn == Declared(c.p, e.n)
        nc == IF e.v < Len(fn.consts) THEN e.v ELSE Len(fn.consts)
        Fail(d) == Yield(d, e, ErrType)
    IN  CASE ~IsDeclared(c.p, e.n) -> Fail(Emit(c, "unknown_sym"))
          [] e.n \in c.p.hidden -> Fail(Emit(c, "inaccessible_item"))
          [] fn.variant = "FinalFn" /\ OutsideFinal(c) ->
               Fail(Emit(c, "call_final_fn_outside_finalize_context"))
          [] c.final /\ fn.variant \notin {"FinalFn", "Fn", "View"} ->
               Fail(Emit(c, "can_only_call_inline_function"))
          [] /\ fn.variant = "EntryPoint" /\ HasFuture(fn.out)
             /\ fn.n \notin DOMAIN c.finals -> Fail(CheckProgramArgs(CallRules(c, fn), fn, e))
          [] OTHER ->
               Feed(VisitAll(Visit, BeforeArguments(c, fn, e, x), SubSeq(e.s, 1, nc),
                             LAMBDA i : fn.consts[i].t), LAMBDA consts :
               Feed(VisitArguments(consts.c, fn, SubSeq(e.s, e.v + 1, Len(e.s))), LAMBDA args :
                    AfterArguments(c, args, fn, e, consts.es \o args.es, x)))

VisitCast(c, e, x) ==
    LET to == e.t
        inner == e.s[1]
        owner == Visit(c, inner.s[1], NoType)
    IN  Bind(RejectNumeric(Visit(c, inner, NoType)), LAMBDA r :
        LET Finish(d, sub) == Typed(MaybeAssertType(d, to, x), e, <<sub>>, to)
            plain == r.t # ErrType /\ ~(IsComposite(c, r.t) /\ TypeIsRecord(c, r.t))
        IN  CASE to = DynRecord -> Finish(EmitIf(r.c, plain, "cannot_cast_to_dyn_record"), r.e)
              [] inner.k = "MemberAccess" /\ owner.t = DynRecord /\ to # DynRecord ->
                   Finish(owner.c, [inner EXCEPT !.s[1] = owner.e, !.t = to])
              [] OTHER -> Finish(AssertKind(AssertKind(r.c, to, Castable), r.t, Castable), r.e))

\* The members given are checked in the order of the declaration.
VisitMembers(c, e, members, hasBase) ==
    LET Given(m) == {i \in DOMAIN e.f : e.f[i] = m.n}
        First(m) == CHOOSE i \in Given(m) : \A j \in Given(m) : i <= j
        One(acc, m) ==
          IF Given(m) = {} THEN [acc EXCEPT !.c = EmitIf(@, ~hasBase, "missing_composite_member")]
          ELSE Feed(Visit(acc.c, e.s[e.v + First(m)], m.t), LAMBDA r :
                 [c |-> r.c, es |-> [acc.es EXCEPT ![e.v + First(m)] = r.e]])
    IN  Thread(One, [c |-> c, es |-> e.s], members)

VisitCompositeInit(c, e, x) ==
    Bind([CompositeType(e.n) EXCEPT !.s = [i \in 1 .. e.v |-> ConstArg(e.s[i])]], LAMBDA t :
    LET members == MembersOf(c, t)
        params == IF e.n \in DOMAIN c.p.params THEN c.p.params[e.n] ELSE <<>>
        nc == IF e.v < Len(params) THEN e.v ELSE Len(params)
        hasBase == Len(e.s) = e.v + Len(e.f) + 1
        c1 == EmitIf(LookupComposite(c, t), e.v # Len(params), "incorrect_num_const_args")
        consts == VisitAll(Visit, c1, SubSeq(e.s, 1, nc), LAMBDA i : params[i].t)
    IN  Bind(MaybeAssertType(consts.c, t, x), LAMBDA c2 :
        LET base == Visit(c2, e.s[Len(e.s)], t)
            c3 == Report(IF hasBase THEN base.c ELSE c2, {
                    <<Cardinality(Range(e.f)) # Len(e.f), "duplicate_member">>,
                    <<IF hasBase THEN Len(e.f) > Len(members) ELSE Len(e.f) # Len(members),
                      "incorrect_num_composite_members">>,
                    <<hasBase /\ \E f \in Range(e.f) : \A m \in Range(members) : m.n # f,
                      "invalid_composite_variable">>})
        IN  Bind(VisitMembers(c3, e, members, hasBase), LAMBDA given :
            LET es == [i \in DOMAIN e.s |-> CASE i <= nc -> consts.es[i]
                                              [] hasBase /\ i = Len(e.s) -> base.e
                                              [] OTHER -> given.es[i]]
                c4 == IF e.n \in c.p.records THEN CheckRecordInit(given.c, e.n) ELSE given.c
            IN  CASE ~IsComposite(c, t) -> Yield(Emit(c, "unknown_sym"), e, ErrType)
                  [] ~IsAccessible(c, e.n) ->
                       Yield(Emit(LookupComposite(c, t), "inaccessible_item"), e, ErrType)
                  [] OTHER -> Typed(c4, e, es, t))))

RECURSIVE PathsIn(_)
PathsIn(e) == {q \in {e} : IsPath(e)} \cup UNION {PathsIn(e.s[i]) : i \in DOMAIN e.s}
RECURSIVE PathsOf(_)
PathsOf(ss) ==
    UNION {UNION {PathsIn(ss[i].e[j]) : j \in DOMAIN ss[i].e} : i \in DOMAIN ss} \cup
    UNION {UNION {PathsOf(ss[i].b[j]) : j \in DOMAIN ss[i].b} : i \in DOMAIN ss}

\* The variables of the transition that a final block uses are its inputs.
Captured(c, body) ==
    {q \in PathsOf(body) : q.n \in c.outer /\ c.vars[q.n].d # "Const"}

\* visit_async.  Block visits the statements.
VisitAsync(c, e) ==
    LET c1 == [c EXCEPT !.final = TRUE, !.outer = DOMAIN c.vars]
        After(r) ==
          LET caught == Captured(r.c, r.b)
              record == \E q \in caught : IsComposite(c, q.t) /\ TypeIsRecord(c, q.t)
              types == SetToSeq({q.t : q \in caught})
          IN  Yield(Report([r.c EXCEPT !.final = FALSE, !.seenFinal = TRUE,
                                       !.finals = (c.function :> types) @@ @],
                           {<<record, "record_captured_by_final_block">>,
                            <<c.calledFinalize, "PANIC">>}),
                    [e EXCEPT !.b = r.b], FutureType(<<>>))
        Fail(error) == Yield(Emit(c, error), e, ErrType)
    IN  CASE c.cond -> Fail("final_block_in_conditional")
          [] ~c.cond /\ c.variant # "EntryPoint" -> Fail("illegal_final_block_location")
          [] ~c.cond /\ c.variant = "EntryPoint" /\ c.seenFinal ->
               Fail("multiple_final_blocks_not_allowed")
          [] OTHER -> Feed(VisitBlock(c1, e.b), After)

----------------------------------------------------------------------------
(* What may be assigned to.  A target is Local, Storage, ExternalStorage   *)
(* or Err.                                                                 *)

VisitPathAssign(c, e) ==
    LET var == Variable(c, e.n)
        constant == var.d \in {"Const", "ConstParameter", "ConstInput"}
        c1 == Report(c, {
                <<constant, "cannot_assign_to_const">>,
                <<OnChain(c) /\ ~InLastScope(c, e.n), "final_cannot_assign_outside_conditional">>,
                <<c.final /\ e.n \in c.outer, "cannot_assign_to_vars_outside_final_block">>})
        Target(d, t, kind) == [c |-> d, e |-> [e EXCEPT !.t = t], t |-> t, kind |-> kind]
    IN  CASE ~IsVariable(c, e.n) -> Target(Emit(c, "unknown_sym"), ErrType, "Err")
          [] IsVariable(c, e.n) /\ var.t.k = "vector" ->
               Target(Emit(c, "invalid_assignment_target"), ErrType, "Err")
          [] IsVariable(c, e.n) /\ var.d = "Storage" /\ var.t.k # "vector" ->
               Target(c, var.t, IF e.n \in c.p.external THEN "ExternalStorage" ELSE "Storage")
          [] OTHER -> Target(c1, var.t, "Local")

VisitExpressionAssign(c0, place) ==
    LET RECURSIVE At(_, _)
        At(c, e) ==
          Bind(At(c, e.s[1]), LAMBDA base :
          LET inner == [c |-> base.c, e |-> base.e, t |-> base.t]
          IN  Bind(CASE e.k = "ArrayAccess" -> VisitArrayAccess(inner, e, NoType)
                     [] e.k = "MemberAccess" -> VisitMemberAccess(inner, e, NoType, TRUE)
                     [] e.k = "TupleAccess" -> VisitTupleAccess(inner, e, NoType)
                     [] OTHER -> Yield(Emit(c, "invalid_assignment_target"), e, ErrType), LAMBDA r :
              LET parts == {"ArrayAccess", "MemberAccess", "TupleAccess"}
                  target == IF IsPath(e) THEN VisitPathAssign(c, e)
                            ELSE [c |-> r.c, e |-> r.e, t |-> r.t,
                                  kind |-> IF e.k \in parts THEN "Local" ELSE "Err"]
              IN  Bind(target.t, LAMBDA t :
                  LET foreign == \/ IsExternalRecord(c, t)
                                 \/ IsTuple(t) /\ \E u \in Range(t.s) : IsExternalRecord(c, u)
                  IN  [target EXCEPT !.c = Report(@, {
                         <<IsPath(e) /\ ~InLastScope(c, e.n) /\ foreign,
                           "assignment_to_external_record_cond">>,
                         <<t.k \in {"future", "mapping"}, "cannot_reassign">>})])))
    IN  At(c0, place)

----------------------------------------------------------------------------
(* Statements.  A visit yields the checker and the statement. *)

Done(c, s) == [c |-> c, s |-> s]

VisitAssert(c, s) ==
    LET one == Visit(c, s.e[1], Boolean)
        l == RejectNumeric(Visit(c, s.e[1], NoType))
    IN  Bind(RejectNumeric(Visit(l.c, s.e[2], NoType)), LAMBDA r :
        IF s.n = "Assert" THEN Done(one.c, [s EXCEPT !.e = <<one.e>>])
        ELSE Done(EmitIf(r.c, ErrType \notin {l.t, r.t} /\ ~TypesEquivalent(l.t, r.t),
                         "operation_types_mismatch"),
                  [s EXCEPT !.e = <<l.e, r.e>>]))

\* The value of an optional storage variable may be given bare.
VisitAssign(c, s) ==
    Bind(VisitExpressionAssign(c, s.e[1]), LAMBDA place :
    LET bare == /\ place.kind = "Storage" /\ place.t.k = "optional" /\ ~IsNone(s.e[2])
        c1 == IF place.kind = "Storage" /\ place.t.k # "mapping"
              THEN CheckAccessAllowed(place.c, "FinalizeWrite") ELSE place.c
        c2 == EmitIf(c1, place.kind = "ExternalStorage",
                     "cannot_modify_external_storage_variable")
        x == CASE place.kind = "Err" -> NoType
               [] bare -> place.t.s[1]
               [] OTHER -> place.t
    IN  Feed(Visit(c2, s.e[2], x), LAMBDA value :
          Done(value.c, [s EXCEPT !.e = <<place.e, value.e>>])))

\* A block that returns in both branches returns.
VisitConditional(c, s) ==
    LET Branch(d, ss) == VisitBlock(EnterConditional([d EXCEPT !.hasReturn = FALSE, !.cond = TRUE]), ss)
        Leave(d, both) == [LeaveConditional(d) EXCEPT !.hasReturn = c.hasReturn \/ both, !.cond = c.cond]
    IN  Feed(Visit(c, s.e[1], Boolean), LAMBDA cond :
        Feed(Branch(cond.c, s.b[1]), LAMBDA then :
          IF Len(s.b) = 1
          THEN Done(Leave(then.c, FALSE), [s EXCEPT !.e = <<cond.e>>, !.b = <<then.b>>])
          ELSE Feed(Branch(LeaveConditional(then.c), s.b[2]), LAMBDA else :
                 Done(Leave(else.c, then.c.hasReturn /\ else.c.hasReturn),
                      [s EXCEPT !.e = <<cond.e>>, !.b = <<then.b, else.b>>]))))

HasNestedTuple(t) == IsTuple(t) /\ \E u \in Range(t.s) : IsTuple(u)

VisitConst(c, s) ==
    LET c1 == EmitIf(c, ContainsOptionalType(c, s.t), "const_cannot_be_optional")
        c2 == EmitIf(EmitIf(c1, s.t = UnitType, "lhs_must_be_identifier_or_tuple"),
                     HasNestedTuple(s.t), "nested_tuple_type")
        value == Visit(c2, s.e[1], s.t)
    IN  Done(IF c.function = "" THEN value.c ELSE Declare(value.c, s.ns[1], s.t, "Const"),
             [s EXCEPT !.e = <<value.e>>])

VisitDefinition(c, s) ==
    LET annotated == s.t # NoType
        c1 == IF annotated THEN EmitIf(AssertTypeIsValid(c, s.t), HasNestedTuple(s.t),
                                       "nested_tuple_type") ELSE c
    IN  Bind(RejectNumeric(Visit(c1, s.e[1], s.t)), LAMBDA value :
        LET c2 == EmitIf(value.c, value.t.k = "vector",
                         "storage_vectors_cannot_be_moved_or_assigned")
            t == IF annotated THEN s.t ELSE value.t
            n == Len(s.ns)
            Part(whole, i) == IF IsTuple(whole) /\ i <= Len(whole.s) THEN whole.s[i] ELSE ErrType
            All(d, T(_)) == Thread(LAMBDA acc, i : SetLocalType(acc, s.ns[i], Part(value.t, i), T(i)),
                                   d, [i \in 1 .. n |-> i])
            c3 == CASE n = 1 -> SetLocalType(c2, s.ns[1], value.t, t)
                    [] n # 1 /\ ~IsTuple(t) ->
                         All(EmitIf(c2, ~annotated /\ t # ErrType,
                                    "multi_identifier_definition_requires_tuple"),
                             LAMBDA i : ErrType)
                    [] n # 1 /\ IsTuple(t) /\ n # Len(t.s) ->
                         Emit(c2, "incorrect_num_tuple_elements")
                    [] OTHER -> All(c2, LAMBDA i : t.s[i])
        IN  Done(c3, [s EXCEPT !.e = <<value.e>>]))

VisitExpressionStatement(c, s) ==
    IF s.e[1].k \notin {"Call", "Intrinsic", "Unit"}
    THEN Done(Emit(c, "expression_statement_must_be_function_call"), s)
    ELSE Feed(Visit(c, s.e[1], NoType), LAMBDA r : Done(r.c, [s EXCEPT !.e = <<r.e>>]))

\* The body neither returns nor finalizes.
VisitIteration(c, s) ==
    LET c1 == IF s.t = NoType THEN c ELSE AssertKind(c, s.t, IntegerTypes)
        lo == Visit(c1, s.e[1], s.t)
        hi == Visit(lo.c, s.e[2], s.t)
        c2 == AssertKind(AssertKind(hi.c, lo.t, IntegerTypes), hi.t, IntegerTypes)
        c3 == EmitIf(c2, lo.t # hi.t, "range_bounds_type_mismatch")
        t == IF s.t = NoType THEN lo.t ELSE s.t
        inside == [Declare(c3, s.ns[1], t, "Const") EXCEPT
                     !.hasReturn = FALSE, !.calledFinalize = FALSE]
    IN  Bind(VisitBlock(inside, s.b[1]), LAMBDA r :
        LET c4 == EmitIf(r.c, r.c.hasReturn, "loop_body_contains_return")
            c5 == EmitIf(c4, r.c.calledFinalize \/ r.c.seenFinal, "loop_body_contains_final")
        IN  Done([c5 EXCEPT !.hasReturn = c.hasReturn, !.calledFinalize = c.calledFinalize,
                            !.vars = c.vars],
                 [s EXCEPT !.e = <<lo.e, hi.e>>, !.b = <<r.b>>]))

VisitReturn(c, s) ==
    LET declared == Declared(c.p, c.function).out
        finalized == c.variant = "EntryPoint" /\ c.calledFinalize
        out == IF finalized THEN WithFuture(declared, FutureType(c.finalizers[c.function]))
               ELSE declared
        unit == s.e[1].k = "Unit"
    IN  CASE c.final -> Done(Emit(c, "final_block_cannot_return"), s)
          [] ~c.final /\ c.ctor ->
               Done(EmitIf(c, ~unit, "constructor_can_only_return_unit"), s)
          [] ~c.final /\ ~c.ctor /\ finalized /\ declared.k \notin {"future", "tuple"} ->
               Done(Emit(c, "entry_point_missing_final_to_return"), s)
          [] ~c.final /\ ~c.ctor /\ unit /\ out # UnitType -> Done(Emit(c, "missing_return"), s)
          [] OTHER -> Feed(Visit(c, s.e[1], out), LAMBDA value :
                        Done([value.c EXCEPT !.hasReturn = TRUE], [s EXCEPT !.e = <<value.e>>]))

VisitStatement(c, s) ==
    CASE c.hasReturn -> Done(Emit(c, "unreachable_code_after_return"), s)
      [] ~c.hasReturn /\ s.k = "Assert" -> VisitAssert(c, s)
      [] ~c.hasReturn /\ s.k = "Assign" -> VisitAssign(c, s)
      [] ~c.hasReturn /\ s.k = "Block" ->
           Feed(VisitBlock(c, s.b[1]), LAMBDA r : Done(r.c, [s EXCEPT !.b = <<r.b>>]))
      [] ~c.hasReturn /\ s.k = "Conditional" -> VisitConditional(c, s)
      [] ~c.hasReturn /\ s.k = "Const" -> VisitConst(c, s)
      [] ~c.hasReturn /\ s.k = "Definition" -> VisitDefinition(c, s)
      [] ~c.hasReturn /\ s.k = "Expression" -> VisitExpressionStatement(c, s)
      [] ~c.hasReturn /\ s.k = "Iteration" -> VisitIteration(c, s)
      [] OTHER -> VisitReturn(c, s)

\* The variables of a block are gone after it.
VisitStatements(c, ss) ==
    Feed(Thread(LAMBDA acc, s : Feed(VisitStatement(acc.c, s), LAMBDA v :
                                       [c |-> v.c, b |-> Append(acc.b, v.s)]),
                [c |-> c, b |-> <<>>], ss),
         LAMBDA r : [r EXCEPT !.c.vars = c.vars])

Visit(c, e, x) ==
    CASE e.k = "Block" -> VisitStatements(c, e.b[1])
      [] e.k = "Literal" -> VisitLiteral(c, e, x)
      [] e.k = "Path" -> VisitPath(c, e, x)
      [] e.k = "Unit" -> Yield(MaybeAssertType(c, UnitType, x), e, UnitType)
      [] e.k = "Binary" -> VisitBinary(c, e, x)
      [] e.k = "Unary" -> VisitUnary(c, e, x)
      [] e.k = "Ternary" -> VisitTernary(c, e, x)
      [] e.k = "Tuple" -> VisitTuple(c, e, x)
      [] e.k = "Array" -> VisitArray(c, e, x)
      [] e.k = "Repeat" -> VisitRepeat(c, e, x)
      [] e.k = "ArrayAccess" -> VisitArrayAccess(Visit(c, e.s[1], NoType), e, x)
      [] e.k = "MemberAccess" -> VisitMemberAccess(Visit(c, e.s[1], NoType), e, x, FALSE)
      [] e.k = "TupleAccess" -> VisitTupleAccess(Visit(c, e.s[1], NoType), e, x)
      [] e.k = "Call" -> VisitCall(c, e, x)
      [] e.k = "Cast" -> VisitCast(c, e, x)
      [] e.k = "Composite" -> VisitCompositeInit(c, e, x)
      [] e.k = "Intrinsic" -> VisitIntrinsic(c, e, x)
      [] OTHER -> VisitAsync(c, e)

----------------------------------------------------------------------------
(* Functions. *)

ConstGenericTypes == IntegerTypes \cup
    {"bool", "address", "scalar", "group", "field", "identifier"}
IsRecordComposite(c, t) == IsComposite(c, t) /\ TypeIsRecord(c, t)

RECURSIVE MergeTypes(_, _)
MergeTypes(a, b) ==
    CASE a.k = "future" /\ b.k = "future" ->
           FutureType([i \in 1 .. (IF Len(a.s) > Len(b.s) THEN Len(a.s) ELSE Len(b.s)) |->
                         IF i > Len(a.s) THEN ErrType
                         ELSE IF i > Len(b.s) THEN a.s[i] ELSE MergeTypes(a.s[i], b.s[i])])
      [] a.k # "future" /\ TypesEquivalent(a, b) -> a
      [] OTHER -> ErrType

\* What the callers of a finalizer pass to it.
InferredInputs(c, fn) ==
    LET callers == IF fn.n \in DOMAIN c.callers THEN SetToSeq(c.callers[fn.n]) ELSE <<>>
        first == c.finalizers[callers[1]]
    IN  IF callers = <<>> THEN <<>>
        ELSE Thread(LAMBDA acc, m : [i \in DOMAIN acc |-> MergeTypes(acc[i], c.finalizers[m][i])],
                    first, Tail(callers))

CheckInput(c, fn, prm, t, stub) ==
    LET entry == fn.variant = "EntryPoint"
        opaque == TypeIsRecord(c, t) \/ t.k = "future"
    IN  Bind(Report(AssertTypeIsValid(c, t), {
               <<IsTuple(t), "function_cannot_take_tuple_as_input">>,
               <<entry /\ ContainsOptionalType(c, t), "function_cannot_take_option_as_input">>,
               <<~entry /\ IsRecordComposite(c, t), "function_cannot_input_or_output_a_record">>,
               <<prm.m # "none" /\ (~entry \/ prm.m = "constant"),
                 "function_inputs_cannot_have_modes">>,
               <<entry /\ prm.m # "none" /\ opaque, "cannot_have_mode">>,
               <<t.k = "future" /\ fn.variant \notin {"Finalize", "FinalFn"},
                 "no_final_parameters">>}), LAMBDA c1 :
        IF stub THEN c1
        ELSE Declare(c1, prm.n, t, IF prm.m = "constant" THEN "ConstInput" ELSE "Input"))

\* The outputs of a function: none, or the elements of its tuple.
Outputs(fn) == CASE fn.out = UnitType -> <<>> [] IsTuple(fn.out) -> fn.out.s
                 [] OTHER -> <<fn.out>>
ModeOf(fn, i) == IF i \in DOMAIN fn.modes THEN fn.modes[i] ELSE "none"

CheckOutput(c, fn, i) ==
    LET t == Outputs(fn)[i]
        mode == ModeOf(fn, i)
        entry == fn.variant = "EntryPoint"
        opaque == TypeIsRecord(c, t) \/ t.k = "future"
    IN  Report(AssertTypeIsValid(LookupComposite(c, t), t), {
          <<~entry /\ IsRecordComposite(c, t), "function_cannot_input_or_output_a_record">>,
          <<IsTuple(t), "nested_tuple_type">>,
          <<entry /\ ContainsOptionalType(c, t), "function_cannot_return_option_as_output">>,
          <<opaque /\ entry /\ mode # "none", "cannot_have_mode">>,
          <<~opaque /\ mode = "constant", "cannot_have_constant_output_mode">>,
          <<fn.variant \in {"View", "FinalFn"} /\ mode # "none",
            "function_outputs_cannot_have_modes">>,
          <</\ entry /\ HasFuture(fn.out)
            /\ (t.k = "future") # (i = Len(Outputs(fn))), "entry_point_fn_final_invalid_output">>,
          <<~entry /\ t.k = "future", "only_entry_point_can_return_final">>})

CheckFunctionSignature(c, fn, stub) ==
    LET finalize == fn.variant = "Finalize" /\ ~stub
    IN  Bind(IF finalize THEN InferredInputs(c, fn) ELSE <<>>, LAMBDA inferred :
        LET limited == fn.variant \in {"EntryPoint", "Finalize", "View"}
            c1 == Report([c EXCEPT !.variant = fn.variant], {
                    <<finalize /\ (fn.out # UnitType \/ fn.n \notin DOMAIN c.callers), "PANIC">>,
                    <<fn.consts # <<>> /\ (fn.noInline \/ fn.variant \in {"EntryPoint", "View"}),
                      "cannot_have_const_generics">>,
                    <<fn.variant = "FinalFn" /\ fn.noInline, "no_inline_not_allowed_on_final_fn">>,
                    <<limited /\ Len(fn.ins) > MaxInputs, "function_has_too_many_inputs">>,
                    <<fn.variant \in {"EntryPoint", "View"} /\ Len(Outputs(fn)) > MaxOutputs,
                      "function_has_too_many_outputs">>})
            c2 == Thread(LAMBDA d, prm :
                           Declare(EmitIf(d, prm.t.k \notin ConstGenericTypes,
                                          "bad_const_generic_type"), prm.n, prm.t, "ConstParameter"),
                         c1, fn.consts)
            c3 == Thread(LAMBDA d, i : CheckInput(d, fn, fn.ins[i],
                           IF i \in DOMAIN inferred THEN inferred[i] ELSE fn.ins[i].t, stub),
                         c2, [i \in DOMAIN fn.ins |-> i])
        IN  Thread(LAMBDA d, i : CheckOutput(d, fn, i), c3, [i \in DOMAIN Outputs(fn) |-> i]))

PublicMarks == {"test", "should_fail", "inline"}
InternalMarks == {"_caller", "_program_id_arg", "_callable_function_arg", "_onchain_context"}

CheckAnnotations(c, fn) ==
    LET std == fn.n \in c.p.library
        test == "test" \in fn.marks
        fails == "should_fail" \in fn.marks
    IN  Report(c, {
          <<\E a \in fn.marks : ~(a \in PublicMarks \/ (a \in InternalMarks /\ std)),
            "unknown_annotation">>,
          <<\/ (test \/ fails) /\ ~c.p.isTest
            \/ fails /\ ~test
            \/ test /\ (fn.variant # "EntryPoint" \/ fn.ins # <<>>), "annotation_error">>})

VisitFunction(c0, fn) ==
    LET c == [Reset(c0) EXCEPT !.variant = fn.variant,
                !.onchain = "_onchain_context" \in fn.marks,
                !.programIdArg = "_program_id_arg" \in fn.marks]
        names == {prm.n : prm \in Range(fn.consts \o fn.ins)}
        c1 == [CheckAnnotations(c, fn) EXCEPT !.csc = Append(@, names), !.function = fn.n]
        Missing(d) == EmitIf(d, fn.out # UnitType /\ ~d.hasReturn, "missing_return")
    IN  Feed(CheckFunctionSignature(c1, fn, FALSE), LAMBDA c2 :
        Feed(VisitBlock(c2, fn.body), LAMBDA r :
          [c |-> [LeaveConditional(Reset(Missing(r.c))) EXCEPT !.vars = <<>>],
           fn |-> [fn EXCEPT !.body = r.b]]))

\* visit_function_stub: what a finalizer of an imported program captures is
\* known from its declaration.
VisitFunctionStub(c, fn) ==
    CheckFunctionSignature(
      IF fn.variant = "Finalize"
      THEN [c EXCEPT !.finals = (fn.n :> [i \in DOMAIN fn.ins |-> fn.ins[i].t]) @@ @] ELSE c,
      fn, TRUE)

\* visit_constructor.  The compiler writes the body unless it is custom.
VisitConstructor(c0, fn) ==
    LET c == [Reset(c0) EXCEPT !.function = "constructor", !.variant = "Finalize", !.ctor = TRUE]
        k == c0.p.ctor
        checksum == "checksum" \in fn.marks
        m == Variable(c, k.mapping).t
        known == IsVariable(c, k.mapping) /\ m.k = "mapping"
        c1 == EmitIf(c, ("custom" \in fn.marks) = (fn.body = <<>>), "constructor_body")
        bytes == m.s[2].k = "array" /\ IsInteger(m.s[2].s[1]) /\ m.s[2].l = 32
        c2 == IF checksum
              THEN EmitIf(EmitIf(c1, m.s[1] # k.key, "key_type"), ~bytes, "value_type") ELSE c1
    IN  Bind(VisitBlock(EnterConditional(c2), fn.body), LAMBDA r :
        LET c3 == EmitIf(r.c, r.c.calledFinalize \/ r.c.seenFinal, "constructor_cannot_finalize")
        IN  IF checksum /\ ~known THEN [c |-> Emit(c1, "mapping_missing"), fn |-> fn]
            ELSE [c |-> LeaveConditional(Reset(c3)), fn |-> [fn EXCEPT !.body = r.b]])

----------------------------------------------------------------------------
(* Declarations. *)

RECURSIVE CompositesIn(_)
CompositesIn(t) ==
    CASE t.k = "composite" -> {t.n}
      [] t.k \in {"array", "optional", "tuple"} -> UNION {CompositesIn(u) : u \in Range(t.s)}
      [] OTHER -> {}

CheckMember(c, name, m) ==
    LET c1 == EmitIf(c, m.t.k \in {"tuple", "future"}, "composite_data_type_cannot_contain")
    IN  EmitIf(AssertMemberIsNotRecord(c1, m.t), name \notin c.p.records /\ m.m # "none",
               "struct_cannot_have_member_mode")

VisitComposite(c, name, stub) ==
    LET members == c.p.structs[name]
        params == IF name \in DOMAIN c.p.params THEN c.p.params[name] ELSE <<>>
        record == name \in c.p.records
        owners == {m \in Range(members) : m.n = "owner"}
        valid == Thread(LAMBDA d, m : AssertTypeIsValid(d, m.t), c, members)
    IN  Bind(Report(valid, {
               <<record /\ params # <<>>, "unexpected_record_const_parameters">>,
               <<~record /\ \E prm \in Range(params) : prm.t.k \notin ConstGenericTypes,
                 "bad_const_generic_type">>,
               <<Cardinality({m.n : m \in Range(members)}) # Len(members), "duplicate_member">>,
               <<record /\ (owners = {} \/ \E m \in owners : ~TypesEquivalent(Address, m.t)),
                 "required_record_variable">>,
               <<record /\ \E m \in Range(members) : ContainsOptionalType(c, m.t),
                 "record_field_cannot_be_optional">>,
               <<~record /\ \A m \in Range(members) : IsEmptyType(m.t), "zero_size_struct">>}), LAMBDA c1 :
        IF record /\ stub THEN c1
        ELSE Thread(LAMBDA d, m : CheckMember(d, name, m), c1, members))

VisitMapping(c, t) ==
    LET Bad(d, u) == \/ u.k \in {"future", "tuple", "mapping"} \/ TypeIsRecord(d, u)
                     \/ IsEmptyType(u) \/ ContainsOptionalType(d, u)
        One(d, u) == EmitIf(AssertTypeIsValid(d, u), Bad(d, u), "invalid_mapping_type")
    IN  Thread(One, c, t.s)

VisitStorageVariable(c, t) ==
    AssertStorageTypeIsValid(c, t.s[1])

\* A relation on names has a cycle.
RECURSIVE ReachedFrom(_, _)
ReachedFrom(edges, names) ==
    LET next == names \cup {e[2] : e \in {d \in edges : d[1] \in names}}
    IN  IF next = names THEN names ELSE ReachedFrom(edges, next)
HasCycle(edges) == \E e \in edges : e[1] \in ReachedFrom(edges, {e[2]})

CompositeEdges(p) ==
    UNION {UNION {{<<s, d>> : d \in CompositesIn(m.t)} : m \in Range(p.structs[s])} :
             s \in DOMAIN p.structs}

\* emit_offchain_transitivity_errors: who, directly or not, needs the caller.
EmitOffchainTransitivityErrors(c) ==
    LET reversed == {<<e[2], e[1]>> : e \in c.calls}
        offchain == ReachedFrom(reversed, c.users)
    IN  EmitIf(c, c.pending \cap offchain # {}, "call_reaches_offchain_from_onchain_scope")

----------------------------------------------------------------------------
(* The pass. *)

\* Everything that is declared outside of functions.
VisitDeclarations(p) ==
    LET Of(kind) == SetToSeq({g \in DOMAIN p.globals \ p.external : p.globals[g].d = kind})
        c0 == Thread(LAMBDA c, s : VisitComposite(c, s, TRUE), NewChecker(p),
                     SetToSeq(DOMAIN p.structs \cap p.external))
        c1 == Thread(VisitFunctionStub, c0, p.stubs)
    IN  Bind(VisitBlock(Reset(c1), [i \in DOMAIN p.consts |->
                                      Const(p.consts[i].n, p.consts[i].t, p.consts[i].e)]), LAMBDA ks :
        LET c2 == Thread(LAMBDA c, s : VisitComposite(c, s, FALSE), ks.c,
                         SetToSeq(DOMAIN p.structs \ p.external))
            c3 == Thread(LAMBDA c, g : VisitMapping(c, p.globals[g].t), c2, Of("Mapping"))
            c4 == Thread(LAMBDA c, g : VisitStorageVariable(c, p.globals[g].t), c3, Of("Storage"))
        IN  [c |-> Report(c4, {
                     <<HasCycle(CompositeEdges(p)), "cyclic_composite_dependency">>,
                     <<Len(Of("Mapping")) > MaxMappings, "too_many_mappings">>}),
             ks |-> ks.b, fs |-> <<>>])

VisitFunctions(p, start) ==
    Thread(LAMBDA acc, fn :
             Feed(IF fn.variant = "Constructor" THEN VisitConstructor(acc.c, fn)
                  ELSE VisitFunction(acc.c, fn),
                  LAMBDA r : [acc EXCEPT !.c = r.c, !.fs = Append(@, r.fn)]),
           start, p.funcs)

\* What is known of the program when every function was visited.
CheckProgram(p, c) ==
    LET entries == {i \in DOMAIN p.funcs : p.funcs[i].variant = "EntryPoint"}
    IN  EmitOffchainTransitivityErrors(
          Report(c, {
            <<\A fn \in Range(p.funcs) : fn.variant # "Constructor", "missing_constructor">>,
            <<HasCycle(c.calls), "cyclic_function_dependency">>,
            <<Cardinality(entries) \notin 1 .. MaxFunctions, "entry_points">>}))

VisitProgram(p) ==
    Feed(VisitDeclarations(p), LAMBDA start :
    Feed(VisitFunctions(p, start), LAMBDA r :
      [c |-> CheckProgram(p, r.c),
       p |-> [p EXCEPT !.funcs = r.fs,
                       !.consts = [i \in DOMAIN @ |-> [@[i] EXCEPT !.e = r.ks[i].e[1]]]]]))

\* do_pass: all records are kept, and the structs in use.
TypeCheck(p) ==
    Feed(VisitProgram(p), LAMBDA r :
      [ok |-> r.c.errs = {}, errs |-> r.c.errs, p |-> r.p, counts |-> r.c.counts,
       calls |-> r.c.calls, used |-> r.c.used \cup p.records, finals |-> r.c.finals])
=============================================================================
