------------------------ MODULE SsaConstPropagation -------------------------
(***************************************************************************)
(* passes/src/ssa_const_propagation: constants are carried from the        *)
(* definition of a variable to its uses and operations on them are done,   *)
(* until nothing changes.  Every variable has one definition by now.       *)
(*                                                                         *)
(* The visitor is [consts, fields, changed, err, bad]: the variables with a*)
(* known value, the atoms that structs were built from, whether something  *)
(* changed, whether an error was reported and whether the pass panicked.   *)
(***************************************************************************)
EXTENDS ConstEval

CONSTANT MaxRounds    \* LARGE_LOOP_BOUND

Changed(z) == [z EXCEPT !.changed = TRUE]
Note(r) == IF r.v = <<>> THEN r ELSE [r EXCEPT !.z = Changed(@)]

IsAtom(e) == e.k \in {"Path", "Literal"}
HasIdentity(e, kinds) ==
    e.k = "Literal" /\ LiteralKind(e)
        \in IntegerTypes \cup {"bool", "field", "scalar", "unsuffixed"} \cup kinds
IsZeroLiteral(e) == HasIdentity(e, {"group"}) /\ e.v = 0
IsOneLiteral(e) == HasIdentity(e, {}) /\ e.v = 1
IsBoolLiteral(e, b) == e.k = "Literal" /\ e.t = Boolean /\ e.v = b
SameSsaAtom(a, b) == IsPath(a) /\ IsPath(b) /\ a.n = b.n

----------------------------------------------------------------------------
(* Expressions. *)

RcPath(p, z, e) ==
    IF e.n \in DOMAIN z.consts THEN Note(Folded(p, z, e, z.consts[e.n]))
    ELSE Yield(z, e, <<>>)

\* What the identities of arithmetic make of l op r: its left operand, its
\* right one, a boolean, or nothing.
Simplification(op, l, r, t) ==
    LET pick(left, right) == IF left THEN "l" ELSE IF right THEN "r" ELSE ""
        First(a, b) == IF a # "" THEN a ELSE b
    IN  CASE op \in {"Add", "AddWrapped", "Xor"} ->
               pick(IsZeroLiteral(r), IsZeroLiteral(l))
          [] op \in {"Sub", "SubWrapped"} -> pick(IsZeroLiteral(r), FALSE)
          [] op \in {"Mul", "MulWrapped"} ->
               First(pick(IsOneLiteral(r), IsOneLiteral(l)),
                     IF IsInteger(t) \/ t = Field
                     THEN IF IsZeroLiteral(r) THEN "r"
                          ELSE pick(IsZeroLiteral(l), FALSE)
                     ELSE "")
          [] op \in {"Div", "DivWrapped"} -> pick(IsOneLiteral(r), FALSE)
          [] op = "And" ->
               First(pick(IsBoolLiteral(r, 1), IsBoolLiteral(l, 1)),
                     pick(IsBoolLiteral(l, 0), IsBoolLiteral(r, 0)))
          [] op = "Or" ->
               First(pick(IsBoolLiteral(r, 0), IsBoolLiteral(l, 0)),
                     pick(IsBoolLiteral(l, 1), IsBoolLiteral(r, 1)))
          [] op = "BitwiseAnd" ->
               First(pick(IsZeroLiteral(l), IsZeroLiteral(r)),
                     pick(IsBoolLiteral(r, 1), IsBoolLiteral(l, 1)))
          [] op = "BitwiseOr" ->
               First(pick(IsZeroLiteral(r), IsZeroLiteral(l)),
                     pick(IsBoolLiteral(l, 1), IsBoolLiteral(r, 1)))
          [] op = "Eq" /\ SameSsaAtom(l, r) -> "true"
          [] op = "Neq" /\ SameSsaAtom(l, r) -> "false"
          [] OTHER -> ""

RcBinary(p, z, e, l, r) ==
    LET op2 == [e EXCEPT !.s = <<l.e, r.e>>]
    IN  Bind(Simplification(e.n, l.e, r.e, e.t), LAMBDA side :
        CASE l.v # <<>> /\ r.v # <<>> ->
               Note(FoldedOutcome(p, z, op2, EvaluateBinary(e.n, l.v[1], r.v[1], e.t.k)))
          [] (l.v = <<>> \/ r.v = <<>>) /\ side = "l" -> Yield(Changed(z), l.e, l.v)
          [] (l.v = <<>> \/ r.v = <<>>) /\ side = "r" -> Yield(Changed(z), r.e, r.v)
          [] side \in {"true", "false"} ->
               LET b == IF side = "true" THEN 1 ELSE 0
               IN  Yield(Changed(z), Literal(b, Boolean), <<Value("bool", b)>>)
          [] OTHER -> Yield(z, op2, <<>>))

\* A double negation disappears.
RcUnary(p, z, e, x) ==
    LET op1 == [e EXCEPT !.s = <<x.e>>]
    IN  Bind(IF x.v = <<>> THEN Yield(z, op1, <<>>)
             ELSE Note(FoldedOutcome(p, z, op1, EvaluateUnary(e.n, x.v[1], e.t.k))), LAMBDA folded :
        IF /\ folded.v = <<>> /\ e.n \in {"Not", "Negate"}
           /\ x.e.k = "Unary" /\ x.e.n = e.n
        THEN Yield(Changed(folded.z), x.e.s[1], <<>>)
        ELSE folded)

\* With a known condition the other arm is dropped only if it can be.
RcTernary(z, e, c, a, b) ==
    LET Known(x, i) == x.v # <<>> /\ x.v[1] = Value("bool", i)
        all == Yield(z, [e EXCEPT !.s = <<c.e, a.e, b.e>>], <<>>)
    IN  IF Known(c, 1) /\ CanDiscard(b.e, {}) THEN Yield(Changed(z), a.e, a.v)
        ELSE IF Known(c, 0) /\ CanDiscard(a.e, {}) THEN Yield(Changed(z), b.e, b.v)
        ELSE IF Known(a, 1) /\ Known(b, 0) THEN Yield(Changed(z), c.e, <<>>)
        ELSE IF Known(a, 0) /\ Known(b, 1)
             THEN Yield(Changed(z), Unary("Not", c.e, Boolean), <<>>)
        ELSE IF \E i \in {0, 1} : Known(a, i) /\ Known(b, i)
             THEN Yield(Changed(z), a.e, a.v)
        ELSE IF SameSsaAtom(a.e, b.e) THEN Yield(Changed(z), a.e, a.v)
        ELSE all

\* x.f where x was built from atoms is the atom.
RcMemberAccess(z, e, x) ==
    IF IsPath(x.e) /\ x.e.n \in DOMAIN z.fields
    THEN LET atom == z.fields[x.e.n][e.n]
             val == IF atom.k = "Literal"
                    THEN Bind(LiteralToValue(LiteralKind(atom), atom.v, atom.t.k), LAMBDA res :
                         IF res.res = "ok" THEN <<res.val>> ELSE <<>>)
                    ELSE IF atom.n \in DOMAIN z.consts THEN <<z.consts[atom.n]>>
                    ELSE <<>>
         IN  Yield(Changed(z), atom, val)
    ELSE Yield(z, [e EXCEPT !.s = <<x.e>>], <<>>)

\* An index that is out of bounds panics.
RcArrayAccess(p, z, e, a, i) ==
    LET op2 == [e EXCEPT !.s = <<a.e, i.e>>]
    IN  IF a.v = <<>> \/ i.v = <<>> THEN Yield(z, op2, <<>>)
        ELSE IF i.v[1].i \notin 0 .. Len(a.v[1].s) - 1
             THEN Yield(Panicked(z), op2, <<>>)
        ELSE Note(Folded(p, z, op2, Component(a.v[1], i.v[1].i + 1)))

\* reconstruct_expression; every other kind only has its parts rewritten.
RECURSIVE Rc(_, _, _)
Rc(p, z0, e) ==
    Bind(Visited(LAMBDA z1, x : Rc(p, z1, x), z0, e.s), LAMBDA visited :
    LET z == visited.z
        s == visited.s
    IN  CASE e.k = "Path" -> RcPath(p, z, e)
          [] e.k = "Literal" -> RcLiteral(z, e)
          [] e.k = "Binary" -> RcBinary(p, z, e, s[1], s[2])
          [] e.k = "Unary" -> RcUnary(p, z, e, s[1])
          [] e.k = "Ternary" -> RcTernary(z, e, s[1], s[2], s[3])
          [] e.k = "MemberAccess" -> RcMemberAccess(z, e, s[1])
          [] e.k = "ArrayAccess" -> RcArrayAccess(p, z, e, s[1], s[2])
          [] e.k \in {"Array", "Tuple"} -> RcSequence(z, e, s)
          [] OTHER -> Yield(z, [e EXCEPT !.s = [i \in DOMAIN s |-> s[i].e]], <<>>))

----------------------------------------------------------------------------
(* Statements. *)

RcDefinition(z, s, r) ==
    LET known == IF Len(s.ns) = 1 THEN s.ns[1] :> r.v[1]
                 ELSE [x \in {s.ns[i] : i \in DOMAIN s.ns} |->
                         r.v[1].s[CHOOSE i \in DOMAIN s.ns : s.ns[i] = x]]
        atoms == /\ Len(s.ns) = 1 /\ r.e.k = "Composite"
                 /\ \A i \in DOMAIN r.e.s : IsAtom(r.e.s[i])
        fields == [f \in {r.e.f[i] : i \in DOMAIN r.e.f} |->
                     r.e.s[CHOOSE i \in DOMAIN r.e.f : r.e.f[i] = f]]
    IN  CASE r.v # <<>> -> [z EXCEPT !.consts = known @@ @]
          [] r.v = <<>> /\ atoms -> [z EXCEPT !.fields = (s.ns[1] :> fields) @@ @]
          [] OTHER -> z

RECURSIVE RcBlock(_, _, _)

\* A conditional whose condition is known becomes the branch taken.
RcConditional(p, z, s, c) ==
    LET Branch(acc, b) == Bind(RcBlock(p, acc.z, b), LAMBDA r :
                          [z |-> r.z, b |-> Append(acc.b, r.ss)])
        Only(b) == Bind(RcBlock(p, Changed(z), b), LAMBDA r :
                   [z |-> r.z, s |-> Block(r.ss)])
    IN  Bind(Thread(Branch, [z |-> z, b |-> <<>>], s.b), LAMBDA both :
        CASE c.v # <<>> /\ c.v[1].i = 1 -> Only(s.b[1])
          [] c.v # <<>> /\ c.v[1].i = 0 ->
               IF Len(s.b) = 2 THEN Only(s.b[2]) ELSE [z |-> Changed(z), s |-> Dummy]
          [] OTHER -> [z |-> both.z, s |-> [s EXCEPT !.e = <<c.e>>, !.b = both.b]])

RcStatement(p, z0, s) ==
    Bind(Visited(LAMBDA z1, x : Rc(p, z1, x), z0, s.e), LAMBDA r :
    LET plain == [s EXCEPT !.e = [i \in DOMAIN r.s |-> r.s[i].e]]
    IN  CASE s.k = "Definition" -> [z |-> RcDefinition(r.z, s, r.s[1]), s |-> plain]
          [] s.k = "Conditional" -> RcConditional(p, r.z, s, r.s[1])
          [] s.k = "Block" -> Bind(RcBlock(p, z0, s.b[1]), LAMBDA b :
                              [z |-> b.z, s |-> Block(b.ss)])
          [] s.k = "Assign" -> [z |-> Panicked(z0), s |-> s]
          [] OTHER -> [z |-> r.z, s |-> plain])

RcBlock(p, z, ss) ==
    Thread(LAMBDA acc, s :
             Bind(RcStatement(p, acc.z, s), LAMBDA r :
             [z |-> r.z, ss |-> Append(acc.ss, r.s)]),
           [z |-> z, ss |-> <<>>], ss)

\* reconstruct_function: what is known is forgotten between functions.
RcFunction(p, z, fn) ==
    Bind(RcBlock(p, [z EXCEPT !.consts = <<>>, !.fields = <<>>], fn.body), LAMBDA r :
    [z |-> r.z, fn |-> [fn EXCEPT !.body = r.ss]])

\* One traversal of the program.
RcProgram(u) ==
    LET z == [consts |-> <<>>, fields |-> <<>>, changed |-> FALSE,
              err |-> FALSE, bad |-> u.bad]
    IN  Bind(Thread(LAMBDA acc, fn :
                      Bind(RcFunction(u.p, acc.z, fn), LAMBDA g :
                      [z |-> g.z, fs |-> Append(acc.fs, g.fn)]),
                    [z |-> z, fs |-> <<>>], u.p.funcs), LAMBDA r :
        [z |-> r.z, u |-> [u EXCEPT !.p.funcs = r.fs, !.bad = r.z.bad,
                                    !.err = @ \/ r.z.err]])

\* do_pass: traversals until one changes nothing or reports an error; the
\* pass panics when it runs out of rounds.
SsaConstProgram(u0) ==
    LET more(r) == r.z.changed /\ ~r.u.err /\ ~r.u.bad
    IN  Bind(Thread(LAMBDA r, i : IF more(r) THEN RcProgram(r.u) ELSE r,
                    RcProgram(u0), [i \in 1 .. MaxRounds - 1 |-> i]), LAMBDA last :
        IF more(last) THEN [last.u EXCEPT !.bad = TRUE] ELSE last.u)
=============================================================================
