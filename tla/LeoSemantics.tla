---------------------------- MODULE LeoSemantics ----------------------------
(***************************************************************************)
(* What a program means: a reference interpreter for the syntax of LeoAst. *)
(* It is no part of the compiler; the passes are judged against it.        *)
(*                                                                         *)
(* A value is a record: i is the number of a scalar, s the components of a *)
(* tuple, an array or a struct.  A machine m holds the variables (env),    *)
(* the mappings (store), the returned value (ret, empty before a return)   *)
(* and whether the execution failed (halt).                                *)
(*                                                                         *)
(* Code that is not run on chain becomes a circuit, in which both branches *)
(* of a conditional are computed and only the assertions of the branch     *)
(* taken count.  "live" says whether the current branch is the one taken,  *)
(* "eager" whether the branch not taken is computed at all.                *)
(***************************************************************************)
EXTENDS LeoArithmetic, SequencesExt

----------------------------------------------------------------------------
(* Machines. *)

Start(env, store) ==
    [env |-> env, store |-> store, ret |-> <<>>, halt |-> FALSE]
SetVar(m, x, v) == [m EXCEPT !.env = (x :> v) @@ @]
Halted(m) == [m EXCEPT !.halt = TRUE]
FailUnless(m, ok) == IF ok THEN m ELSE Halted(m)

\* The position of field f in the declaration of a struct.
FieldIndex(p, comp, f) ==
    CHOOSE i \in DOMAIN p.structs[comp] : p.structs[comp][i].n = f

\* The values that the variable of an iteration takes.
ValuesOf(s, lo, hi) ==
    LET n == hi - lo + (IF s.n = "inclusive" THEN 1 ELSE 0)
    IN  IF n <= 0 THEN <<>> ELSE [j \in 1 .. n |-> lo + j - 1]

\* The declaration of a global constant.
ConstantNamed(p, x) == p.consts[CHOOSE i \in DOMAIN p.consts : p.consts[i].n = x]

\* The entry of the store that an operation on mapping e.f[1] is about.
Key(e, vs) == <<e.f[1], vs[1]>>

\* An optional that holds nothing; one that holds v is v itself.
NoneVal == [i |-> -99999, s |-> <<>>]

\* What the store holds for a storage variable: its value, or the elements of
\* a vector.
Stored(m, x, default) ==
    IF <<x, Val(0)>> \in DOMAIN m.store THEN m.store[<<x, Val(0)>>] ELSE default
Put(m, x, v) == [m EXCEPT !.store = (<<x, Val(0)>> :> v) @@ @]
Removed(store, key) == [k \in DOMAIN store \ {key} |-> store[k]]
IsStorage(p, x) == x \in DOMAIN p.globals /\ p.globals[x].d = "Storage"

\* An operation on the elements es of a vector: whether it succeeds, its value
\* and the elements after it.
VectorOp(op, es, vs) ==
    LET n == Len(es)
        i == vs[1].i + 1
        Res(ok, v, new) == [ok |-> ok, v |-> v, es |-> new]
    IN  CASE op = "Vector::push" -> Res(TRUE, Vals(<<>>), Append(es, vs[1]))
          [] op = "Vector::len" -> Res(TRUE, Val(n), es)
          [] op = "Vector::pop" ->
               IF n = 0 THEN Res(TRUE, NoneVal, es)
               ELSE Res(TRUE, es[n], SubSeq(es, 1, n - 1))
          [] op = "Vector::get" -> Res(TRUE, IF i <= n THEN es[i] ELSE NoneVal, es)
          [] op = "Vector::set" ->
               IF i <= n THEN Res(TRUE, Vals(<<>>), [es EXCEPT ![i] = vs[2]])
               ELSE Res(FALSE, Val(0), es)
          [] op = "Vector::clear" -> Res(TRUE, Vals(<<>>), <<>>)
          [] op = "Vector::swap_remove" ->
               IF i <= n THEN Res(TRUE, es[i], SubSeq([es EXCEPT ![i] = es[n]], 1, n - 1))
               ELSE Res(FALSE, Val(0), es)

\* Is fn's body compiled to a circuit?
IsCircuit(fn) ==
    ~IsFinalizeContext(fn.variant) /\ fn.variant # "Constructor"

RECURSIVE Eval(_, _, _, _)
RECURSIVE Exec(_, _, _, _, _)
RECURSIVE Update(_, _, _, _)

\* The values of a sequence of expressions, left to right.
EvalAll(p, m, es, eager) ==
    Thread(LAMBDA acc, e : Feed(Eval(p, acc.m, e, eager), LAMBDA r :
                                  [m |-> r.m, vs |-> Append(acc.vs, r.v)]),
           [m |-> m, vs |-> <<>>], es)

\* A call, when its arguments are known.
Enter(p, fn, args, eager) ==
    LET prms == fn.consts \o fn.ins
        env == [x \in {prms[i].n : i \in DOMAIN prms} |->
                 args.vs[CHOOSE i \in DOMAIN prms : prms[i].n = x]]
    IN  Feed(Exec(p, Start(env, args.m.store), fn.body, TRUE, eager /\ IsCircuit(fn)), LAMBDA r :
          [m |-> [args.m EXCEPT !.store = r.store, !.halt = @ \/ r.halt],
           v |-> IF r.ret = <<>> THEN Vals(<<>>) ELSE r.ret[1]])

\* The value of e when those of its sub-expressions are known.
Apply(p, m, e, args, eager) ==
    LET vs == args.vs
        Is(v) == [m |-> args.m, v |-> v]
        Of(res) == [m |-> FailUnless(args.m, res.ok), v |-> res.v]
    IN  CASE e.k = "Literal" -> Is(IF e.n = "none" THEN NoneVal ELSE Val(e.v))
          [] e.k = "Path" /\ e.n \in DOMAIN m.env -> Is(m.env[e.n])
          [] e.k = "Path" /\ e.n \notin DOMAIN m.env ->
                CASE IsStorage(p, e.n) -> Is(Stored(m, e.n, NoneVal))
                  [] e.n \in DOMAIN p.globals /\ p.globals[e.n].d = "Const" ->
                       Is(Eval(p, Start(<<>>, <<>>), ConstantNamed(p, e.n).e, eager).v)
                  [] OTHER -> Of(Result(Val(0), FALSE))
          [] e.k = "Unit" -> Is(Vals(<<>>))
          [] e.k = "Binary" -> Of(ApplyBinary(e.n, e.s[1].t, vs[1], vs[2]))
          [] e.k = "Unary" -> Of(ApplyUnary(e.n, e.t, vs[1]))
          [] e.k = "Ternary" -> Is(IF vs[1].i = 1 THEN vs[2] ELSE vs[3])
          [] e.k = "Cast" -> Of(Checked(e.t, vs[1].i))
          [] e.k \in {"Tuple", "Array"} -> Is(Vals(vs))
          [] e.k = "Repeat" -> Is(Vals([i \in 1 .. vs[2].i |-> vs[1]]))
          [] e.k = "Composite" ->
                Is(Vals([i \in DOMAIN p.structs[e.n] |->
                     LET given == {j \in DOMAIN e.f : e.f[j] = p.structs[e.n][i].n}
                     IN  IF given = {} THEN Last(vs).s[i]
                         ELSE vs[e.v + (CHOOSE j \in given : TRUE)]]))
          [] e.k = "TupleAccess" -> Is(vs[1].s[e.v + 1])
          [] e.k = "ArrayAccess" ->
                IF vs[2].i < Len(vs[1].s) THEN Is(vs[1].s[vs[2].i + 1])
                ELSE Of(Result(Val(0), FALSE))
          [] e.k = "MemberAccess" ->
                Is(vs[1].s[FieldIndex(p, e.s[1].t.n, e.n)])
          [] e.k = "Call" -> Enter(p, FunctionNamed(p, e.n), args, eager)
          [] e.k = "Intrinsic" /\ e.n = "Mapping::get" ->
                IF Key(e, vs) \in DOMAIN args.m.store
                THEN Is(args.m.store[Key(e, vs)])
                ELSE Of(Result(Val(0), FALSE))
          [] e.k = "Intrinsic" /\ e.n = "Mapping::get_or_use" ->
                Is(IF Key(e, vs) \in DOMAIN args.m.store
                   THEN args.m.store[Key(e, vs)] ELSE vs[2])
          [] e.k = "Intrinsic" /\ e.n = "Mapping::contains" ->
                Is(Bit(Key(e, vs) \in DOMAIN args.m.store))
          [] e.k = "Intrinsic" /\ e.n = "Mapping::set" ->
                [m |-> [args.m EXCEPT !.store = (Key(e, vs) :> vs[2]) @@ @],
                 v |-> Vals(<<>>)]
          [] e.k = "Intrinsic" /\ e.n = "Mapping::remove" ->
                [m |-> [args.m EXCEPT !.store = Removed(@, Key(e, vs))],
                 v |-> Vals(<<>>)]
          [] e.k = "Intrinsic" /\ e.n = "Optional::unwrap" ->
                Of(Result(vs[1], vs[1] # NoneVal))
          [] e.k = "Intrinsic" /\ e.n = "Optional::unwrap_or" ->
                Is(IF vs[1] = NoneVal THEN vs[2] ELSE vs[1])
          [] e.k = "Async" ->
                \* On chain, with the values that the variables have now.
                Feed(Exec(p, m, e.b, TRUE, FALSE), LAMBDA r :
                  [m |-> [m EXCEPT !.store = r.store, !.halt = @ \/ r.halt],
                   v |-> Vals(<<>>)])
          [] OTHER ->
                Bind(VectorOp(e.n, Stored(args.m, e.f[1], Vals(<<>>)).s, vs), LAMBDA r :
                [m |-> FailUnless(Put(args.m, e.f[1], Vals(r.es)), r.ok), v |-> r.v])

\* The value of e, and the machine after it.
Eval(p, m, e, eager) ==
    Feed(EvalAll(p, m, e.s, eager), LAMBDA args : Apply(p, m, e, args, eager))

\* The machine in which the part that place selects has the value v.
Update(p, m, place, v) ==
    LET base == place.s[1]
        whole == Eval(p, m, base, FALSE).v
        at == CASE place.k = "TupleAccess" -> place.v + 1
                [] place.k = "ArrayAccess" ->
                        Eval(p, m, place.s[2], FALSE).v.i + 1
                [] place.k = "MemberAccess" ->
                        FieldIndex(p, base.t.n, place.n)
    IN  IF place.k = "Path" THEN SetVar(m, place.n, v)
        ELSE Update(p, m, base, [whole EXCEPT !.s[at] = v])

\* Runs one statement whose expressions have been evaluated.
Perform(p, m, s, args, live, eager) ==
    LET vs == args.vs
        on == live /\ m.ret = <<>>
        taken == vs[1].i = 1
        Branch(i, cond) == IF i <= Len(s.b)
                           THEN Exec(p, args.m, s.b[i], on /\ cond, eager)
                           ELSE args.m
    IN  CASE s.k \in {"Definition", "Const"} ->
               IF Len(s.ns) = 1 THEN SetVar(args.m, s.ns[1], vs[1])
               ELSE Thread(LAMBDA acc, i : SetVar(acc, s.ns[i], vs[1].s[i]),
                           args.m, [i \in DOMAIN s.ns |-> i])
          [] s.k = "Assign" ->
               LET r == [m |-> args.m, v |-> vs[2]]
                   x == s.e[1].n
               IN  CASE ~on -> r.m
                     [] on /\ IsPath(s.e[1]) /\ IsStorage(p, x) ->
                          IF r.v = NoneVal
                          THEN [r.m EXCEPT !.store = Removed(@, <<x, Val(0)>>)]
                          ELSE Put(r.m, x, r.v)
                     [] OTHER -> Update(p, r.m, s.e[1], r.v)
          [] s.k = "Conditional" ->
               IF ~eager THEN IF taken THEN Branch(1, TRUE)
                              ELSE Branch(2, TRUE)
               ELSE Bind(Branch(1, taken), LAMBDA a :
                    Bind(Branch(2, ~taken), LAMBDA b :
                    LET m2 == IF taken THEN a ELSE b
                        m3 == IF taken THEN b ELSE a
                    IN  [m2 EXCEPT !.halt = a.halt \/ b.halt,
                                   !.env = @ @@ m3.env]))
          [] s.k = "Block" ->
               Exec(p, IF s.ns = <<>> THEN m ELSE SetVar(m, s.ns[1], vs[1]), s.b[1],
                    live, eager)
          [] s.k = "Assert" ->
               FailUnless(args.m,
                  \/ ~on
                  \/ CASE s.n = "Assert" -> vs[1].i = 1
                       [] s.n = "AssertEq" -> vs[1] = vs[2]
                       [] s.n = "AssertNeq" -> vs[1] # vs[2])
          [] s.k = "Expression" -> args.m
          [] s.k = "Return" ->
               IF on THEN [args.m EXCEPT !.ret = <<vs[1]>>] ELSE args.m
          [] s.k = "Iteration" ->
               Thread(LAMBDA acc, i :
                          Exec(p, SetVar(acc, s.ns[1], Val(i)), s.b[1],
                               live, eager),
                      args.m,
                      ValuesOf(s, vs[1].i, vs[2].i))

\* Runs a sequence of statements.
Exec(p, m, ss, live, eager) ==
    Thread(LAMBDA acc, s :
             IF ~eager /\ (acc.halt \/ acc.ret # <<>>) THEN acc
             ELSE Feed(EvalAll(p, acc, s.e, eager), LAMBDA args :
                         Perform(p, acc, s, args, live, eager)),
           m, ss)

----------------------------------------------------------------------------
(* Observations.  A program whose storage has been lowered keeps it in     *)
(* mappings; what they stand for is compared.                              *)

IsLowered(p) == \A g \in DOMAIN p.globals : IsStorage(p, g) => (g \o "__") \in DOMAIN p.globals

\* The store that the mappings of the storage variables stand for.
StorageView(p, store) ==
    LET stored == {g \in DOMAIN p.globals : IsStorage(p, g)}
        vectors == {g \in stored : p.globals[g].t.k = "vector"}
        kept == {k \in DOMAIN store : \A g \in stored : k[1] \notin {g \o "__", g \o "__len__"}}
        single == {g \in stored \ vectors : <<g \o "__", Val(0)>> \in DOMAIN store}
        Length(g) == LET k == <<g \o "__len__", Val(0)>>
                     IN  IF k \in DOMAIN store THEN store[k].i ELSE 0
        Element(g, i) == LET k == <<g \o "__", Val(i)>>
                         IN  IF k \in DOMAIN store THEN store[k] ELSE NoneVal
        At(g) == <<g, Val(0)>>
    IN  [k \in kept |-> store[k]]
        @@ [k \in {At(g) : g \in single} |-> store[<<k[1] \o "__", Val(0)>>]]
        @@ [k \in {At(g) : g \in vectors} |->
              Vals([i \in 1 .. Length(k[1]) |-> Element(k[1], i - 1)])]

\* What the call of fn with arguments vs yields in a state of the mappings.
Run(p, fn, vs, store, eager) ==
    LET env == [x \in {fn.ins[i].n : i \in DOMAIN fn.ins} |->
                  vs[CHOOSE i \in DOMAIN fn.ins : fn.ins[i].n = x]]
        start == IF IsLowered(p) THEN store ELSE StorageView(p, store)
    IN  Bind(Exec(p, Start(env, start), fn.body, TRUE, eager /\ IsCircuit(fn)), LAMBDA m :
        IF m.halt THEN [halt |-> TRUE, ret |-> <<>>, store |-> StorageView(p, store)]
        ELSE [halt |-> FALSE, ret |-> IF fn.out.k = "unit" THEN <<>> ELSE m.ret,
              store |-> IF IsLowered(p) THEN StorageView(p, m.store) ELSE m.store])

----------------------------------------------------------------------------
(***************************************************************************)
(* The machine that runs the generated instructions.  It has no loops: a   *)
(* branch goes forward to a position.  regs are the registers written so   *)
(* far, outs the outputs, calls the arguments of the futures among them    *)
(* and skip the position that a branch leads to, if it was taken.          *)
(***************************************************************************)

Boot(vs, store) ==
    [regs |-> [r \in 0 .. Len(vs) - 1 |-> vs[r + 1]], store |-> store,
     outs |-> <<>>, calls |-> <<>>, skip |-> "", halt |-> FALSE]

\* A register that was not written holds nothing.
Unwritten == [i |-> -88888, s |-> <<>>]
RECURSIVE Operand(_, _, _)
Operand(p, m, o) ==
    CASE o.k = "Reg" -> IF o.v \in DOMAIN m.regs THEN m.regs[o.v] ELSE Unwritten
      [] o.k = "Literal" -> Val(o.v)
      [] o.k = "ArrayAccess" -> Operand(p, m, o.s[1]).s[o.s[2].v + 1]
      [] o.k = "MemberAccess" -> Operand(p, m, o.s[1]).s[FieldIndex(p, o.s[1].t.n, o.n)]
      [] OTHER -> Val(0)

\* The operands as they are written out, a tuple element by element.
WrittenOut(a) == Thread(LAMBDA acc, o : acc \o (IF o.k = "Tuple" THEN o.s ELSE <<o>>), <<>>, a)

\* Types without values are left out; the parts of types ts, of which vs are the others.
IsEmptyType(t) == t.k = "unit" \/ (t.k = "array" /\ t.l = 0)
Filled(ts, vs) ==
    [i \in DOMAIN ts |->
       LET before == Cardinality({j \in 1 .. i : ~IsEmptyType(ts[j])})
       IN  CASE IsEmptyType(ts[i]) -> Vals(<<>>)
             [] ~IsEmptyType(ts[i]) /\ before <= Len(vs) -> vs[before]
             [] OTHER -> Unwritten]

\* A struct from its members in the order of their declaration, a record's owner first.
Built(p, comp, vs) ==
    LET ms == p.structs[comp]
        first == IF comp \in p.records THEN SelectSeq(ms, LAMBDA x : x.n = "owner") ELSE <<>>
        order == first \o SelectSeq(ms, LAMBDA x : x \notin ToSet(first))
        parts == Filled([i \in DOMAIN order |-> order[i].t], vs)
    IN  Vals([i \in DOMAIN ms |-> parts[CHOOSE j \in DOMAIN order : order[j] = ms[i]]])

RECURSIVE RunCode(_, _, _, _)

\* One instruction s with the values vs of its operands.
Instruct(p, code, m, s, vs) ==
    LET Write(v) == [m EXCEPT !.regs = (s.d[1] :> v) @@ @]
        Of(res) == IF res.ok THEN Write(res.v) ELSE Halted(m)
        At(o, v) == <<o.n, v>>
        Callee == code.funcs[CHOOSE i \in DOMAIN code.funcs : code.funcs[i].n = s.n]
    IN  CASE s.op = "Position" -> m
          [] s.op = "BranchEq" -> IF vs[1] = vs[2] THEN [m EXCEPT !.skip = s.n] ELSE m
          [] s.op = "Output" ->
               IF s.t.k = "future" THEN [m EXCEPT !.outs = Append(@, Vals(<<>>)), !.calls = Append(@, vs[1].s)]
               ELSE [m EXCEPT !.outs = Append(@, vs[1])]
          [] s.op = "AssertEq" -> FailUnless(m, vs[1] = vs[2])
          [] s.op = "AssertNeq" -> FailUnless(m, vs[1] # vs[2])
          [] s.op = "Cast" /\ s.t.k = "array" -> Write(Vals(vs))
          [] s.op = "Cast" /\ s.t.k = "composite" -> Write(Built(p, s.t.n, vs))
          [] s.op = "Cast" /\ s.t.k \notin {"array", "composite"} -> Of(Checked(s.t, vs[1].i))
          [] s.op = "Ternary" -> Write(IF vs[1].i = 1 THEN vs[2] ELSE vs[3])
          [] s.op = "Async" -> Write(Vals(vs))
          [] s.op = "Call" ->
               Feed(RunCode(p, code, Boot(vs, m.store), Callee.ss), LAMBDA r :
                 [m EXCEPT !.halt = r.halt, !.store = r.store,
                           !.regs = [x \in ToSet(s.d) |->
                                       LET i == CHOOSE j \in DOMAIN s.d : s.d[j] = x
                                       IN  IF i \in DOMAIN r.outs THEN r.outs[i] ELSE Unwritten] @@ @])
          [] s.op = "Get" -> IF At(s.a[1], vs[2]) \in DOMAIN m.store
                             THEN Write(m.store[At(s.a[1], vs[2])]) ELSE Halted(m)
          [] s.op = "GetOrUse" -> Write(IF At(s.a[1], vs[2]) \in DOMAIN m.store
                                        THEN m.store[At(s.a[1], vs[2])] ELSE vs[3])
          [] s.op = "Contains" -> Write(Bit(At(s.a[1], vs[2]) \in DOMAIN m.store))
          [] s.op = "Set" -> [m EXCEPT !.store = (At(s.a[2], vs[3]) :> vs[1]) @@ @]
          [] s.op = "Remove" -> [m EXCEPT !.store = Removed(@, At(s.a[1], vs[2]))]
          [] OTHER -> Of(IF Len(vs) = 2 THEN ApplyBinary(s.op, s.a[1].t, vs[1], vs[2])
                         ELSE ApplyUnary(s.op, s.a[1].t, vs[1]))

RunCode(p, code, m, ss) ==
    Thread(LAMBDA acc, s :
             CASE acc.halt -> acc
               [] ~acc.halt /\ acc.skip # "" ->
                    IF s.op = "Position" /\ s.n = acc.skip THEN [acc EXCEPT !.skip = ""] ELSE acc
               [] OTHER ->
                    Feed([s EXCEPT !.a = WrittenOut(@)], LAMBDA flat :
                      Feed([i \in DOMAIN flat.a |-> Operand(p, acc, flat.a[i])], LAMBDA vs :
                        IF Unwritten \in ToSet(vs) THEN Halted(acc) ELSE Instruct(p, code, acc, flat, vs))),
           m, ss)

\* What the function of code that fn became yields, as Run has it.  A future that
\* it outputs is run on chain afterwards.
RunFunctional(p, code, fn, vs, store) ==
    LET f == code.funcs[CHOOSE i \in DOMAIN code.funcs : code.funcs[i].n = fn.n]
        given == SelectSeq([i \in DOMAIN vs |-> i], LAMBDA i : ~IsEmptyType(fn.ins[i].t))
        out == fn.out
    IN  Feed(RunCode(p, code, Boot([i \in DOMAIN given |-> vs[given[i]]], store), f.ss), LAMBDA m1 :
        Feed(IF m1.halt \/ m1.calls = <<>> THEN m1
             ELSE RunCode(p, code, [Boot(m1.calls[1], m1.store) EXCEPT !.outs = m1.outs], f.fin[1].ss), LAMBDA m :
          IF m.halt \/ m.skip # "" THEN [halt |-> TRUE, ret |-> <<>>, store |-> StorageView(p, store)]
          ELSE [halt |-> FALSE, store |-> StorageView(p, m.store),
                ret |-> CASE out.k = "unit" -> <<>>
                          [] out.k = "tuple" -> <<Vals(Filled(out.s, m.outs))>>
                          [] OTHER -> Filled(<<out>>, m.outs)]))
=============================================================================
