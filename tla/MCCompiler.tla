----------------------------- MODULE MCCompiler -----------------------------
(* Short forms for the programs that the compiler is checked on.  As they  *)
(* come from the parser, expressions have no type yet.                     *)
EXTENDS CompilerPipeline, SequencesExt

Var(n) == Path(n, NoType)
Byte(i) == Literal(i, U8)
Nat32(i) == Literal(i, U32)
Bool(v) == Literal(v, Boolean)
Bin(op, l, r) == Binary(op, l, r, NoType)
Un(op, e) == Unary(op, e, NoType)
Cond(i, l, r) == Ternary(i, l, r, NoType)
CallTo(f, args) == Call(f, args, NoType)
CallWith(f, consts, args) == [Call(f, consts \o args, NoType) EXCEPT !.v = Len(consts)]
Pair(es) == Tuple(es, NoType)
Part(e, i) == TupleAccess(e, i, NoType)
List(es) == Array(es, NoType)
Copies(e, count) == Repeat(e, count, NoType)
Elem(e, i) == ArrayAccess(e, i, NoType)
New(n, fields, es) == Composite(n, fields, es, NoType)
NewWith(n, consts, fields, es) == [Composite(n, fields, consts \o es, NoType) EXCEPT !.v = Len(consts)]
Member(e, f) == MemberAccess(e, f, NoType)
OnMapping(op, m, args) == [Intrinsic("Mapping::" \o op, args, NoType) EXCEPT !.f = <<m>>]
Core(name, args) == Intrinsic(name, args, NoType)

Main(ins, out, body) == Function("main", "EntryPoint", ins, out, body)
Helper(name, ins, out, body) == Function(name, "Fn", ins, out, body)
Generic(fn, consts) == [fn EXCEPT !.consts = consts]
NoUpgrade == Constructor("noupgrade", <<>>)

\* A program with a main function of bytes, and the inputs it is run on.
OnBytes(p, inputs) ==
    [p |-> p,
     inputs |-> [i \in DOMAIN inputs |->
                   [fn |-> "main", vs |-> [j \in DOMAIN inputs[i] |-> Val(inputs[i][j])],
                    store |-> <<>>]]]

a == Var("a")
b == Var("b")
c == Var("c")
x == Var("x")
y == Var("y")
Plus(l, r) == Bin("AddWrapped", l, r)
TwoBytes == <<Param("a", U8), Param("b", U8)>>
Small == Bin("Lt", a, Byte(5))

----------------------------------------------------------------------------
(* Programs with conditionals, nested once, whose branches assign, assert  *)
(* and return.                                                             *)
FlowTests == {Bin("Lt", x, Byte(5)), Bool(1)}
FlowAssigns == {Assign(y, Bin("Add", x, y)), Assign(y, Bin("Mul", y, Byte(2)))}
FlowBranches == {<<s>> : s \in FlowAssigns} \cup {<<s, AssertNeq(y, x)>> : s \in FlowAssigns}
            \cup {<<s, Return(y)>> : s \in FlowAssigns}
FlowNested == {<<Conditional(Bin("Lt", y, Byte(6)), <<s, <<Assign(y, x)>>>>)>> : s \in FlowBranches}
FlowHalves == {<<l>> : l \in FlowBranches \cup FlowNested}
          \cup {<<l, r>> : l \in FlowBranches \cup FlowNested, r \in FlowBranches}
          \cup {<<l, r>> : l \in FlowBranches, r \in FlowNested}
FlowBodies == {<<Let("y", Bin("Add", x, Byte(1))), Conditional(t, bs), Return(y)>> :
             t \in FlowTests, bs \in FlowHalves}

FlowPrograms == {OnBytes(Program(<<>>, <<Main(<<Param("x", U8)>>, U8, ss), NoUpgrade>>),
                       <<<<0>>, <<4>>, <<5>>, <<128>>>>) : ss \in FlowBodies}

----------------------------------------------------------------------------
(* Programs that build, take apart and partly overwrite tuples, arrays and *)
(* structs, also in one branch of a conditional.                           *)
NewP(l, r) == New("P", <<"a", "b">>, <<l, r>>)
At(v, i) == Elem(Var(v), Nat32(i))

\* A local of each shape ...
Tuples == <<LetAs("w", TupleType(<<U8, U8>>), Pair(<<x, y>>))>>
Arrays == <<Let("w", List(<<x, y, Byte(3)>>))>>
Structs == <<Let("w", NewP(x, y))>>
ArraysOfStructs == <<Let("w", List(<<NewP(x, Byte(1)), NewP(y, Byte(2))>>))>>

\* ... what overwrites a part or all of it, ...
OtherByte(v) == {Plus(x, Byte(9)), v}
Updates ==
    {<<Tuples, s>> : s \in {Assign(Part(Var("w"), 0), y), Assign(Var("w"), Pair(<<y, x>>)),
                            Assign(Var("w"), Cond(Bin("Lt", x, y), Var("w"), Pair(<<y, Byte(0)>>)))}}
    \cup {<<Arrays, s>> : s \in {Assign(At("w", 1), e) : e \in OtherByte(At("w", 0))}
                               \cup {Assign(Var("w"), List(<<y, y, x>>)),
                                     Assign(Var("w"), Cond(Bin("Lt", x, y), Var("w"), List(<<x, x, x>>)))}}
    \cup {<<Structs, s>> : s \in {Assign(Member(Var("w"), "a"), e) : e \in OtherByte(Member(Var("w"), "b"))}
                                \cup {Assign(Var("w"), NewP(Member(Var("w"), "b"), x)),
                                      Assign(Var("w"), Cond(Bin("Lt", x, y), Var("w"), NewP(y, y)))}}
    \cup {<<ArraysOfStructs, s>> : s \in {Assign(Member(At("w", 0), "b"), Member(At("w", 1), "a")),
                                         Assign(At("w", 0), NewP(y, x)), Assign(At("w", 1), NewP(y, x))}}

\* ... in line, twice, or in a branch, ...
Placed(s) == {<<s>>, <<s, s>>, <<Conditional(Bin("Lt", x, Byte(5)), <<<<s>>>>)>>,
              <<Conditional(Bin("Lt", x, y), <<<<Assign(x, Byte(0))>>, <<s>>>>)>>}

\* ... and what becomes of it.
Endings(kind) ==
    CASE kind = Tuples -> {<<Definition(<<"p", "q">>, Var("w")), Return(Plus(Var("p"), Bin("MulWrapped", Var("q"), Byte(2))))>>,
                           <<AssertEq(Var("w"), Pair(<<x, y>>)), Return(Part(Var("w"), 1))>>}
      [] kind = Arrays -> {<<Return(Plus(At("w", 0), Bin("MulWrapped", At("w", 1), Byte(2))))>>}
      [] kind = Structs -> {<<Conditional(Bin("Eq", Var("w"), NewP(x, y)), <<<<Return(Byte(7))>>>>),
                              Return(Plus(Member(Var("w"), "a"), Member(Var("w"), "b")))>>}
      [] OTHER -> {<<Return(Plus(Member(At("w", 0), "b"), Member(At("w", 1), "a")))>>}

\* TwoUpdates updates of one variable, which they replace by a literal value only.
PlainUpdates == {u \in Updates : u[2].e[2].k # "Ternary"}
TwoUpdates(u) == {<<u[2], v[2]>> : v \in {w \in PlainUpdates : w[1] = u[1]}}

WholeBody(u, ms) == UNION {{u[1] \o m \o r : m \in ms} : r \in Endings(u[1])}
DataBodies == UNION {WholeBody(u, Placed(u[2])) : u \in Updates} \cup UNION {WholeBody(u, TwoUpdates(u)) : u \in PlainUpdates}
DataPrograms ==
    {OnBytes(Program([P |-> <<Param("a", U8), Param("b", U8)>>],
                     <<Main(<<Param("x", U8), Param("y", U8)>>, U8, ss), NoUpgrade>>),
             <<<<0, 0>>, <<4, 9>>, <<5, 2>>, <<200, 200>>>>) : ss \in DataBodies}

----------------------------------------------------------------------------
(* Programs that call helpers: once or twice, in line or in a branch, with *)
(* early returns, tuples, structs and calls of other helpers.              *)
\* fn f(a: u8, b: u8) -> u8
CallFs == {Helper("f", TwoBytes, U8, ss) : ss \in
         {<<Return(Plus(a, b))>>,
          <<Conditional(Small, <<<<Return(b)>>>>), Return(Plus(a, Byte(1)))>>,
          <<Conditional(Small, <<<<Return(CallTo("g", <<b>>))>>, <<Return(a)>>>>)>>,
          <<Let("c", Plus(a, b)), Conditional(Small, <<<<Assign(Var("c"), CallTo("g", <<a>>))>>>>),
            Return(Var("c"))>>,
          <<Let("c", CallTo("h", <<a, b>>)), Return(Bin("MulWrapped", Part(Var("c"), 0), Part(Var("c"), 1)))>>}}
CallGs == {Helper("g", <<Param("a", U8)>>, U8, ss) : ss \in
         {<<Return(Bin("Mul", a, Byte(2)))>>, <<AssertNeq(a, Byte(9)), Return(Plus(a, Byte(3)))>>}}
CallH == Helper("h", TwoBytes, TupleType(<<U8, U8>>), <<Return(Pair(<<b, CallTo("g", <<a>>)>>))>>)
Marked(fn, inline) == [fn EXCEPT !.noInline = ~inline]

CallBodies ==
    {<<Return(CallTo("f", <<x, y>>))>>,
     <<Let("c", CallTo("f", <<x, y>>)), Return(Plus(Var("c"), CallTo("f", <<y, x>>)))>>,
     <<Return(CallTo("f", <<CallTo("f", <<x, y>>), CallTo("g", <<y>>)>>))>>,
     <<Let("c", Byte(0)), Conditional(Bin("Lt", x, y), <<<<Assign(Var("c"), CallTo("f", <<x, y>>))>>>>),
       Return(Var("c"))>>,
     <<Definition(<<"c", "d">>, CallTo("h", <<x, y>>)), Return(Plus(Var("c"), CallTo("f", <<Var("d"), x>>)))>>,
     <<Conditional(Bin("Eq", CallTo("f", <<x, y>>), Byte(9)), <<<<Return(x)>>>>), Return(CallTo("g", <<y>>))>>}

CallPrograms ==
    {OnBytes(Program(<<>>, <<Main(<<Param("x", U8), Param("y", U8)>>, U8, m),
                             Marked(f, i), Marked(g, j), CallH, NoUpgrade>>),
             <<<<0, 0>>, <<4, 9>>, <<9, 4>>, <<200, 6>>>>) :
       m \in CallBodies, f \in CallFs, g \in CallGs, i, j \in BOOLEAN}

----------------------------------------------------------------------------
(* Programs whose final block calls a final fn that returns from branches, *)
(* and goes on to use, or not to use, what it returned.                    *)
Put_(k, e) == ExprStmt(OnMapping("set", "m", <<k, e>>))
Get(k) == OnMapping("get_or_use", "m", <<k, Byte(8)>>)
Odd == Bin("Eq", b, Byte(1))

\* final fn f(a: u8, b: u8) -> u8
FinalFs == {<<Conditional(Small, <<<<Return(b)>>>>), Put_(Byte(0), a), Return(a)>>,
       <<Conditional(Small, <<<<Put_(Byte(0), b), Return(b)>>, <<Return(Get(a))>>>>)>>,
       <<Let("d", Get(b)), Conditional(Small, <<<<Conditional(Odd, <<<<Return(Var("d"))>>>>), Put_(b, a)>>>>),
         Return(Plus(Var("d"), Byte(1)))>>,
       <<Conditional(Odd, <<<<AssertTrue(Small), Return(a)>>>>), Conditional(Small, <<<<Return(Byte(7))>>>>),
         Return(b)>>}

\* What follows the call.
FinalRests == {<<>>, <<Put_(a, c)>>,
          <<Let("d", Plus(a, b)), Put_(Byte(2), Var("d"))>>,
          <<Let("d", Plus(c, b)), Put_(Byte(2), Var("d")), Put_(Byte(3), Get(Byte(2)))>>,
          <<Let("e", a), Let("d", Plus(c, b)), Conditional(Odd, <<<<Put_(c, Byte(4))>>>>),
            Put_(Byte(3), Plus(Var("d"), Var("e")))>>,
          <<Let("d", CallTo("f", <<c, b>>)), Put_(b, Var("d"))>>}
FinalCalls == {Let("c", CallTo("f", <<a, b>>)), Let("c", Plus(CallTo("f", <<b, a>>), Byte(1)))}
Finals == {<<s>> \o r : s \in FinalCalls, r \in FinalRests}
          \cup {<<Conditional(Odd, <<<<s>> \o r>>), Put_(Byte(1), a)>> : s \in FinalCalls, r \in FinalRests}

FinalOf(f, body) ==
    [Program(<<>>, <<Main(TwoBytes, FutureType(<<>>), <<Return(Async(body))>>),
                     Function("f", "FinalFn", TwoBytes, U8, f), NoUpgrade>>)
       EXCEPT !.globals = [m |-> [t |-> MappingType(U8, U8), d |-> "Mapping"]]]

FinalInputs == <<<<1, 1>>, <<1, 2>>, <<6, 1>>, <<6, 3>>>>
FinalPrograms ==
    {[p |-> FinalOf(f, body),
      inputs |-> [i \in DOMAIN FinalInputs |->
                    [fn |-> "main", vs |-> <<Val(FinalInputs[i][1]), Val(FinalInputs[i][2])>>,
                     store |-> <<"m", Val(2)>> :> Val(5)]]] : f \in FinalFs, body \in Finals}

----------------------------------------------------------------------------
(* Programs whose loops, lengths and generics depend on constants.         *)
AddTo(e) == Assign(y, Bin("AddWrapped", y, e))

\* LoopBounds: literals, a global constant, a local one, and one that is not known.
As8(e) == Cast(e, U8)
LoopBounds == {Nat32(0), Nat32(2), Var("K"), Var("L"), Cast(Bin("Rem", x, Byte(4)), U32)}
LoopBodies == {<<AddTo(As8(Var("i")))>>,
          <<Const("J", U32, Bin("Mul", Var("i"), Nat32(3))), AddTo(As8(Var("J")))>>,
          <<Iteration("j", Nat32(0), Var("i"), <<AddTo(x)>>)>>,
          <<AddTo(Elem(List(<<x, Byte(7), y>>), Var("i")))>>,
          <<Let("c", CallWith("times", <<Var("i")>>, <<x>>)), AddTo(Var("c"))>>,
          <<Let("b", NewWith("Box", <<Var("i")>>, <<"v">>, <<Copies(x, Var("i"))>>)),
            AddTo(Elem(Member(Var("b"), "v"), Nat32(0)))>>,
          <<Conditional(Bin("Eq", Var("i"), Nat32(1)), <<<<AddTo(x)>>, <<AddTo(Byte(100))>>>>)>>}
Loops == {Iteration("i", lo, hi, ss) : lo \in {Nat32(0), Nat32(1)}, hi \in LoopBounds, ss \in LoopBodies}
         \cup {[Iteration("i", Nat32(0), hi, ss) EXCEPT !.n = "inclusive"] : hi \in LoopBounds, ss \in LoopBodies}
Times == Generic(Helper("times", <<Param("a", U8)>>, U8,
            <<Let("r", Byte(0)),
              Iteration("k", Nat32(0), Var("N"), <<Assign(Var("r"), Bin("AddWrapped", Var("r"), Var("a")))>>),
              Return(Var("r"))>>), <<Param("N", U32)>>)
ConstOf(ss) == [Program([Box |-> <<Param("v", [ArrayType(U8, Unknown) EXCEPT !.n = "N"])>>],
                  <<Main(<<Param("x", U8)>>, U8, ss), Times, NoUpgrade>>) EXCEPT
            !.globals = [K |-> [t |-> U32, d |-> "Const"]],
            !.consts = <<[n |-> "K", t |-> U32, e |-> Bin("Add", Nat32(1), Nat32(1))]>>,
            !.params = [Box |-> <<Param("N", U32)>>]]
ConstPrograms ==
    {OnBytes(ConstOf(<<Const("L", U32, Bin("Add", Var("K"), Nat32(1))), Let("y", Byte(0)), l, Return(y)>>),
             <<<<0>>, <<3>>, <<200>>>>) : l \in Loops}

----------------------------------------------------------------------------
(* Programs with a final block that works on a storage variable s, a       *)
(* storage vector v and a mapping m, and with optionals.                   *)
OnVector(op, args) == [Core("Vector::" \o op, args) EXCEPT !.f = <<"v">>]
Or(opt, e) == Core("Optional::unwrap_or", <<opt, e>>)
Unwrap(opt) == Core("Optional::unwrap", <<opt>>)

StorageGlobals == [s |-> [t |-> OptionalType(U8), d |-> "Storage"],
            v |-> [t |-> VectorType(U8), d |-> "Storage"],
            m |-> [t |-> MappingType(U8, U8), d |-> "Mapping"]]

\* fn main(a: u8, b: u8) -> Final { return final { body } }
Finalizing(helpers, body) ==
    [Program(<<>>, <<Main(<<Param("a", U8), Param("b", U8)>>, FutureType(<<>>),
                          <<Return(Async(body))>>)>> \o helpers \o <<NoUpgrade>>)
       EXCEPT !.globals = StorageGlobals]
\* The same with the body in a final fn.
Delegating(body) ==
    Finalizing(<<Function("work", "FinalFn", <<Param("a", U8), Param("b", U8)>>, UnitType, body)>>,
               <<ExprStmt(CallTo("work", <<Var("a"), Var("b")>>))>>)

Full == (<<"s__", Val(0)>> :> Val(7)) @@ (<<"v__", Val(0)>> :> Val(3)) @@
        (<<"v__", Val(1)>> :> Val(4)) @@ (<<"v__", Val(2)>> :> Val(5)) @@
        (<<"v__len__", Val(0)>> :> Val(2)) @@ (<<"m", Val(1)>> :> Val(6))
StoreInputs == <<<<1, 200, <<>>>>, <<1, 2, Full>>, <<0, 2, Full>>>>
OnStores(p) ==
    [p |-> p,
     inputs |-> [i \in DOMAIN StoreInputs |->
                   [fn |-> "main", vs |-> <<Val(StoreInputs[i][1]), Val(StoreInputs[i][2])>>,
                    store |-> StoreInputs[i][3]]]]

Reads == {Var("b"), Or(Var("s"), Var("b")), Unwrap(Var("s")),
          Or(OnVector("get", <<Nat32(1)>>), Byte(9)),
          Or(OnVector("pop", <<>>), Var("a")),
          OnVector("swap_remove", <<Nat32(0)>>),
          Unwrap(OnVector("get", <<Bin("Sub", OnVector("len", <<>>), Nat32(1))>>)),
          OnMapping("get_or_use", "m", <<Var("a"), Var("b")>>)}
Writes(e) == {Assign(Var("s"), e), ExprStmt(OnVector("push", <<e>>)),
              ExprStmt(OnVector("set", <<Nat32(0), e>>)),
              ExprStmt(OnMapping("set", "m", <<Var("a"), e>>))}
Others == {Assign(Var("s"), NoneLiteral), ExprStmt(OnVector("clear", <<>>)),
           ExprStmt(OnVector("pop", <<>>)), ExprStmt(OnMapping("remove", "m", <<Var("a")>>))}
IsOne == Bin("Eq", Var("a"), Byte(1))
Shallow == Others \cup UNION {Writes(e) : e \in {Var("b"), Or(Var("s"), Var("b")),
                                                 Unwrap(OnVector("get", <<Nat32(1)>>)),
                                                 OnVector("swap_remove", <<Nat32(0)>>)}}
Popped == {Assign(Var("s"), Or(OnVector("pop", <<>>), Var("a"))), Assign(Var("s"), Var("b")),
           ExprStmt(OnVector("push", <<Var("b")>>))}
StoreSequences == {<<l, r>> : l \in Others \cup Popped, r \in UNION {Writes(e) : e \in Reads}}
StoreBranches == {<<Conditional(IsOne, <<<<l>>, <<r>>>>)>> : l \in Others, r \in Shallow}
StoreConditions == {<<Conditional(Bin("Eq", r, Byte(2)), <<<<l>>, <<ExprStmt(OnVector("push", <<Byte(1)>>))>>>>)>> :
                 r \in Reads, l \in Others}

StoragePrograms == {OnStores(Finalizing(<<>>, <<l, r>>)) : l \in Others, r \in Shallow}
              \cup {OnStores(Delegating(ss)) : ss \in StoreSequences \cup StoreBranches \cup StoreConditions}

----------------------------------------------------------------------------
(* Programs that output a value twice, a record they were given or what an *)
(* operation with a neutral operand or a chain of casts yields.            *)
r_ == Var("r")
Bytes(n) == TupleType([i \in 1 .. n |-> U8])
Record == CompositeType("T")
NewRecord(owner, v) == New("T", <<"owner", "v">>, <<owner, v>>)
Outputs ==
    {<<Bytes(2), <<Return(Pair(<<x, e>>))>>>> : e \in {x, Plus(x, y), Member(r_, "v")}}
    \cup {<<Bytes(3), <<Let("c", Plus(x, y)), Return(Pair(<<c, e, c>>))>>>> : e \in {c, y, Plus(c, Byte(1))}}
    \cup {<<Record, <<Return(r_)>>>>, <<TupleType(<<U8, Record>>), <<Return(Pair(<<Member(r_, "v"), r_>>))>>>>,
          <<TupleType(<<Record, Record>>), <<Return(Pair(<<r_, NewRecord(Member(r_, "owner"), x)>>))>>>>,
          <<TupleType(<<Record, Record>>),
            <<Let("c", NewRecord(Member(r_, "owner"), y)), Return(Pair(<<c, c>>))>>>>,
          <<TupleType(<<ArrayType(U8, 2), ArrayType(U8, 2)>>),
            <<Let("c", List(<<x, y>>)), Return(Pair(<<c, c>>))>>>>}
    \cup {<<U8, <<Return(Bin(op, l, y))>>>> : op \in {"Add", "Sub", "Mul"}, l \in {Byte(0), Byte(1)}}
    \cup {<<U8, <<Return(Plus(Bin(op, x, l), y))>>>> : op \in {"Add", "Sub", "Mul"}, l \in {Byte(0), Byte(1)}}
    \cup {<<U8, <<Return(Cond(Bin(op, Bin("Lt", x, y), l), x, y))>>>> :
            op \in {"And", "Or", "Nand", "Nor", "Xor"}, l \in {Bool(0), Bool(1)}}
    \cup {<<t, <<Return(Cast(Cast(x, m), t))>>>> : m \in {I8, U16, Type("i64")}, t \in {U8, I8}}
OutputPrograms ==
    {[p |-> [Program([T |-> <<Param("owner", Address), Param("v", U8)>>],
                     <<Main(<<Param("r", Record), Param("x", U8), Param("y", U8)>>, o[1], o[2]), NoUpgrade>>)
               EXCEPT !.records = {"T"}],
      inputs |-> [i \in 1 .. 3 |->
                    [fn |-> "main", store |-> <<>>,
                     vs |-> <<Vals(<<Val(1), Val(7)>>), Val(<<0, 4, 200>>[i]), Val(<<1, 3, 5>>[i])>>]]] : o \in Outputs}

\* A program with a closure that adds zero to its input.
ClosurePrograms ==
    {OnBytes(Program(<<>>, <<Main(TwoBytes, U8, <<Return(CallTo("f", <<Plus(a, b)>>))>>),
                             Marked(Helper("f", <<Param("a", U8)>>, U8, <<Return(Bin("Add", a, Byte(0)))>>), FALSE),
                             NoUpgrade>>),
             <<<<0, 0>>, <<4, 9>>>>)}

----------------------------------------------------------------------------
(* All of them, and one whose else-if has a condition that changes a vector. *)
MCPrograms == FlowPrograms \cup DataPrograms \cup CallPrograms \cup FinalPrograms
              \cup ConstPrograms \cup StoragePrograms \cup OutputPrograms \cup ClosurePrograms

ElseIfPrograms ==
    {OnStores(Delegating(<<[Conditional(IsOne, <<<<Assign(Var("s"), NoneLiteral)>>,
         <<Conditional(Bin("Eq", OnVector("swap_remove", <<Nat32(0)>>), Byte(2)),
                       <<<<Assign(Var("s"), NoneLiteral)>>>>)>>>>) EXCEPT !.n = "elseif"]>>))}

=============================================================================
