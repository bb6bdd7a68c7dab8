-------------------------- MODULE ConstPropagation --------------------------
(***************************************************************************)
(* passes/src/const_propagation: constants and literals are propagated and *)
(* folded, so that loop bounds, array lengths and const arguments become   *)
(* literals.                                                               *)
(*                                                                         *)
(* The visitor is [known, global, changed, fold, left, err, bad]: the local*)
(* and the global constants that have been evaluated, each with its        *)
(* expression and value; whether a constant was evaluated for the first    *)
(* time; whether the initializer of a constant is being visited; and what  *)
(* could not be evaluated.                                                 *)
(***************************************************************************)
EXTENDS ConstEval

Left(z, what) == [z EXCEPT !.left = @ \cup {what}]

\* The value of a numeral, as a u32.
IsU32(v) == v.t \in IntegerTypes /\ v.i >= 0

\* The entry of constant x; locals hide globals.
Entry(z, x) == IF x \in DOMAIN z.known THEN <<z.known[x]>>
               ELSE IF x \in DOMAIN z.global THEN <<z.global[x]>> ELSE <<>>

----------------------------------------------------------------------------
(* Types.  A length or a const argument that is no literal names a const.  *)

RECURSIVE CpType(_, _)
CpType(z0, t) ==
    LET known == Entry(z0, t.n)
        named == t.k \in {"array", "const"} /\ t.l = Unknown
        z == IF t.k = "array" /\ named /\ known = <<>> THEN Left(z0, "length") ELSE z0
        parts == Visited(LAMBDA z1, u : CpType(z1, u), z, t.s)
        t1 == [t EXCEPT !.s = [i \in DOMAIN t.s |-> parts.s[i].t]]
    IN  [z |-> parts.z,
         t |-> IF named /\ known # <<>>
               THEN [t1 EXCEPT !.n = "", !.l = known[1].v.i] ELSE t1]

----------------------------------------------------------------------------
(* Expressions. *)

\* The expression that a constant was defined by, with the type of its use.
CpPath(z, e) ==
    IF Entry(z, e.n) = <<>> THEN Yield(z, e, <<>>)
    ELSE Yield(z, [Entry(z, e.n)[1].e EXCEPT !.t = e.t], <<Entry(z, e.n)[1].v>>)

CpLiteral(z, e) == RcLiteral(z, e)

CpBinary(p, z, e, l, r) ==
    IF l.v = <<>> \/ r.v = <<>> THEN Yield(z, e, <<>>)
    ELSE FoldedOutcome(p, z, e, EvaluateBinary(e.n, l.v[1], r.v[1], e.t.k))

CpUnary(p, z, e, x) ==
    IF x.v = <<>> THEN Yield(z, e, <<>>)
    ELSE FoldedOutcome(p, z, e, EvaluateUnary(e.n, x.v[1], e.t.k))

\* Value::cast fails for a value that the type does not have.
CastValue(v, t) ==
    IF t.k \in IntegerTypes \cup {"bool", "field", "group", "scalar", "address"}
       /\ v.s = <<>> /\ InRange(t, v.i)
    THEN Ok(t.k, v.i) ELSE Err("cast")

CpCast(p, z, e, x) ==
    IF x.v = <<>> THEN Yield(z, e, <<>>)
    ELSE FoldedOutcome(p, z, e, CastValue(x.v[1], e.t))

\* An index has to be known, and in bounds when the length is.
CpArrayAccess(p, z, e, a, i) ==
    LET ty == a.e.t
        in == IsU32(i.v[1]) /\ i.v[1].i < ty.l
    IN  CASE i.v = <<>> -> Yield(Left(z, "index"), e, <<>>)
          [] i.v # <<>> /\ ty.k # "array" -> Yield(Panicked(z), e, <<>>)
          [] i.v # <<>> /\ ty.k = "array" /\ ty.l # Unknown /\ ~in ->
               Yield([z EXCEPT !.err = TRUE], e, <<>>)
          [] i.v # <<>> /\ ty.k = "array" /\ ty.l # Unknown /\ in /\ a.v # <<>> ->
               Folded(p, z, e, Component(a.v[1], i.v[1].i + 1))
          [] OTHER -> Yield(z, e, <<>>)

CpMemberAccess(p, z, e, x) ==
    LET ms == p.structs[e.s[1].t.n]
        at == CHOOSE i \in DOMAIN ms : ms[i].n = e.n
    IN  IF x.v = <<>> THEN Yield(z, e, <<>>)
        ELSE Folded(p, z, e, Component(x.v[1], at))

CpTupleAccess(p, z, e, x) ==
    IF x.v = <<>> THEN Yield(z, e, <<>>)
    ELSE Folded(p, z, e, Component(x.v[1], e.v + 1))

CpRepeat(z, e, x, count) ==
    LET z1 == IF count.v = <<>> THEN Left(z, "repeat") ELSE z
    IN  Yield(z1, e,
              IF x.v # <<>> /\ count.e.k = "Literal"
              THEN <<Aggregate("array", [i \in 1 .. count.e.v |-> x.v[1]])>>
              ELSE <<>>)

\* A struct has a value when all its members have one; the first e.v parts are
\* const arguments, and there is one part more than that when there is a base.
CpComposite(p, z, e, parts) ==
    LET ms == p.structs[e.n]
        At(i) == CHOOSE j \in DOMAIN e.f : e.f[j] = ms[i].n
        whole == /\ e.v = 0 /\ Len(e.s) = Len(e.f)
                 /\ \A i \in DOMAIN parts : parts[i].v # <<>>
    IN  Yield(z, e, IF whole
                    THEN <<Aggregate("struct", [i \in DOMAIN ms |-> parts[At(i)].v[1]])>>
                    ELSE <<>>)

\* The intrinsics that have a value here; the hash functions are left out.
EvaluateIntrinsic(name, vs) ==
    CASE name = "Group::to_x" -> EvaluateUnary("ToXCoordinate", vs[1], "none")
      [] name = "Group::to_y" -> EvaluateUnary("ToYCoordinate", vs[1], "none")
      [] name = "Group::gen" -> Ok("group", 1)
EvaluatedIntrinsics == {"Group::to_x", "Group::to_y", "Group::gen"}

CpIntrinsic(p, z, e, parts) ==
    IF e.n \in EvaluatedIntrinsics /\ \A i \in DOMAIN parts : parts[i].v # <<>>
    THEN FoldedOutcome(p, z, e,
           EvaluateIntrinsic(e.n, [i \in DOMAIN parts |-> parts[i].v[1]]))
    ELSE Yield(z, e, <<>>)

\* reconstruct_expression, reconstruct_block or reconstruct_const.
RECURSIVE Cp(_, _, _)
CpBlock(p, z, ss) == Cp(p, z, Block(ss))

\* In the initializer of a constant the arm not taken is not even visited;
\* elsewhere it is, and it is dropped only if it can be.
CpTernary(p, z0, e) ==
    LET c == Cp(p, z0, e.s[1])
        Cond(b) == c.v # <<>> /\ c.v[1] = Value("bool", b)
        a == Cp(p, c.z, e.s[2])
        b == Cp(p, a.z, e.s[3])
    IN  CASE z0.fold /\ Cond(1) -> Cp(p, c.z, e.s[2])
          [] z0.fold /\ Cond(0) -> Cp(p, c.z, e.s[3])
          [] ~z0.fold /\ Cond(1) /\ CanDiscard(b.e, {}) -> Yield(b.z, a.e, a.v)
          [] ~z0.fold /\ Cond(0) /\ CanDiscard(a.e, {}) -> Yield(b.z, b.e, b.v)
          [] OTHER -> Yield(b.z, [e EXCEPT !.s = <<c.e, a.e, b.e>>], <<>>)

----------------------------------------------------------------------------
(* Statements.  The n of a constant is "known" once it was evaluated.      *)

\* The constant of an optional type stays as it is.
CpConst(p, z, s) ==
    Bind(CpType(z, s.t), LAMBDA ty :
    LET r == Cp(p, [ty.z EXCEPT !.fold = TRUE], s.e[1])
        z1 == [r.z EXCEPT !.fold = z.fold]
        s1 == [s EXCEPT !.t = ty.t, !.e = <<r.e>>]
    IN  CASE s.t.k = "optional" -> [z |-> z, s |-> s]
          [] s.t.k # "optional" /\ r.v = <<>> -> [z |-> Left(z1, "const"), s |-> s1]
          [] OTHER -> [z |-> [z1 EXCEPT !.changed = @ \/ s.n # "known",
                                !.known = (s.ns[1] :> [e |-> r.e, v |-> r.v[1]]) @@ @],
                       s |-> [s1 EXCEPT !.n = "known"]])

\* Only a condition that was a literal before this visit selects a branch.
CpConditional(p, z, s) ==
    LET c == Cp(p, z, s.e[1])
        Branch(acc, b) == Feed(CpBlock(p, acc.z, b), LAMBDA r : [z |-> r.z, b |-> Append(acc.b, r.ss)])
        Only(b) == Feed(CpBlock(p, z, b), LAMBDA r : [z |-> r.z, s |-> Block(r.ss)])
        both == Thread(Branch, [z |-> c.z, b |-> <<>>], s.b)
        literal == s.e[1].k = "Literal" /\ s.e[1].t = Boolean
    IN  CASE literal /\ s.e[1].v = 1 -> Only(s.b[1])
          [] literal /\ s.e[1].v = 0 ->
               IF Len(s.b) = 2 THEN Only(s.b[2]) ELSE [z |-> z, s |-> Dummy]
          [] OTHER -> [z |-> both.z, s |-> [s EXCEPT !.e = <<c.e>>, !.b = both.b]]

\* The value of an assignment comes before its place.
CpAssign(p, z, s) ==
    LET value == Cp(p, z, s.e[2])
        place == Cp(p, value.z, s.e[1])
    IN  [z |-> place.z, s |-> [s EXCEPT !.e = <<place.e, value.e>>]]

\* A block that an unrolled iteration left binds the loop variable.
Bound(z, s) ==
    IF s.k = "Block" /\ s.ns # <<>>
    THEN [z EXCEPT !.known = (s.ns[1] :>
            [e |-> s.e[1], v |-> Value(s.e[1].t.k, s.e[1].v)]) @@ @]
    ELSE z

CpStatement(p, z, s) ==
    Bind(CpType(z, s.t), LAMBDA ty :
    Bind(Visited(LAMBDA z1, x : Cp(p, z1, x), ty.z, s.e), LAMBDA es :
    LET Parts(r) == [i \in DOMAIN r.s |-> r.s[i].e]
        body == CpBlock(p, IF s.k = "Block" THEN Bound(z, s) ELSE es.z, s.b[1])
    IN  CASE s.k = "Definition" ->
               [z |-> es.z, s |-> [s EXCEPT !.t = ty.t, !.e = Parts(es)]]
          [] s.k = "Const" -> CpConst(p, z, s)
          [] s.k = "Assign" -> CpAssign(p, z, s)
          [] s.k = "Conditional" -> CpConditional(p, z, s)
          [] s.k = "Block" -> [z |-> [body.z EXCEPT !.known = z.known],
                               s |-> [s EXCEPT !.b = <<body.ss>>]]
          [] s.k = "Iteration" ->
               [z |-> body.z,
                s |-> [s EXCEPT !.t = ty.t, !.e = Parts(es), !.b = <<body.ss>>]]
          [] s.k = "Expression" /\ es.s[1].e.k \in {"Unit", "Literal"} ->
               [z |-> es.z, s |-> Dummy]
          [] OTHER -> [z |-> es.z, s |-> [s EXCEPT !.e = Parts(es)]]))

CpStatements(p, z, ss) ==
    Bind(Thread(LAMBDA acc, s :
                  Feed(CpStatement(p, acc.z, s),
                       LAMBDA g : [z |-> g.z, ss |-> Append(acc.ss, g.s)]),
                [z |-> z, ss |-> <<>>], ss), LAMBDA r :
    [z |-> [r.z EXCEPT !.known = z.known],
     ss |-> SelectSeq(r.ss, LAMBDA s : ~IsRemovable(s))])

\* reconstruct_expression: the new expression keeps the recorded type.
CpExpression(p, z0, e0) ==
    Bind(Visited(LAMBDA z1, x : Cp(p, z1, x), z0, e0.s), LAMBDA visited :
    LET z == visited.z
        s == visited.s
        e == [e0 EXCEPT !.s = [i \in DOMAIN s |-> s[i].e]]
    IN  Bind(CpBlock(p, z0, e0.b), LAMBDA body :
        LET r == CASE e.k = "Path" -> CpPath(z, e)
                   [] e.k = "Literal" -> CpLiteral(z, e)
                   [] e.k = "Binary" -> CpBinary(p, z, e, s[1], s[2])
                   [] e.k = "Unary" -> CpUnary(p, z, e, s[1])
                   [] e.k = "Cast" -> CpCast(p, z, e, s[1])
                   [] e.k = "ArrayAccess" -> CpArrayAccess(p, z, e, s[1], s[2])
                   [] e.k = "MemberAccess" -> CpMemberAccess(p, z, e, s[1])
                   [] e.k = "TupleAccess" -> CpTupleAccess(p, z, e, s[1])
                   [] e.k = "Repeat" -> CpRepeat(z, e, s[1], s[2])
                   [] e.k \in {"Array", "Tuple"} -> RcSequence(z, e, s)
                   [] e.k = "Composite" -> CpComposite(p, z, e, s)
                   [] e.k = "Intrinsic" -> CpIntrinsic(p, z, e, s)
                   [] e.k = "Async" -> Yield(body.z, [e EXCEPT !.b = body.ss], <<>>)
                   [] OTHER -> Yield(z, e, <<>>)
            kept == IF e0.k = "Ternary" THEN CpTernary(p, z0, e0) ELSE r
        IN  [kept EXCEPT !.e.t = IF e0.t = NoType THEN @ ELSE e0.t]))

Cp(p, z, e) ==
    CASE e.k = "Block" -> CpStatements(p, z, e.b[1])
      [] e.k = "Const" -> CpConst(p, z, e)
      [] OTHER -> CpExpression(p, z, e)

----------------------------------------------------------------------------
(* Programs. *)

CpParams(z, prms) ==
    Bind(Visited(LAMBDA z1, prm : CpType(z1, prm.t), z, prms), LAMBDA r :
    [z |-> r.z, ps |-> [i \in DOMAIN prms |-> [prms[i] EXCEPT !.t = r.s[i].t]]])

CpFunction(p, z, fn) ==
    Bind(CpParams(z, fn.ins), LAMBDA ins :
    Bind(CpType(ins.z, fn.out), LAMBDA out :
    Bind(CpBlock(p, out.z, fn.body), LAMBDA body :
    [z |-> body.z,
     fn |-> [fn EXCEPT !.ins = ins.ps, !.out = out.t, !.body = body.ss]])))

\* A global constant: evaluated values are kept from round to round.
CpGlobalConst(p, z, k) ==
    Bind(Cp(p, [z EXCEPT !.known = <<>>],
                 [Const(k.n, k.t, k.e) EXCEPT
                    !.n = IF k.n \in DOMAIN z.global THEN "known" ELSE ""]), LAMBDA r :
    [z |-> [r.z EXCEPT !.known = z.known, !.global = r.z.known @@ @],
     k |-> [k EXCEPT !.t = r.s.t, !.e = r.s.e[1]]])

NewPropagation(u) ==
    [known |-> <<>>, global |-> u.consts, changed |-> FALSE, fold |-> FALSE,
     left |-> {}, err |-> FALSE, bad |-> u.bad]

\* do_pass: the unit, and what is left to evaluate.
ConstPropProgram(u) ==
    LET p == u.p
    IN  Bind(Visited(LAMBDA z, k : CpGlobalConst(p, z, k), NewPropagation(u), p.consts), LAMBDA ks :
        Bind(Visited(LAMBDA z, fn : CpFunction(p, z, fn), ks.z, p.funcs), LAMBDA fs :
        Bind([x \in DOMAIN p.structs |-> CpParams(fs.z, p.structs[x])], LAMBDA cs :
        [u |-> [u EXCEPT !.p.consts = [i \in DOMAIN @ |-> ks.s[i].k],
                         !.p.funcs = [i \in DOMAIN @ |-> fs.s[i].fn],
                         !.p.structs = [x \in DOMAIN @ |-> cs[x].ps],
                         !.consts = fs.z.global, !.err = @ \/ fs.z.err, !.bad = fs.z.bad],
         changed |-> fs.z.changed,
         left |-> fs.z.left \cup UNION {cs[x].z.left : x \in DOMAIN cs}])))
=============================================================================
