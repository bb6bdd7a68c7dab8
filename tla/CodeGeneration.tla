--------------------------- MODULE CodeGeneration ---------------------------
(***************************************************************************)
(* passes/src/code_generation: a program in single-assignment form becomes *)
(* instructions over registers.                                            *)
(*                                                                         *)
(* An operand is an expression of LeoAst whose leaves are literals,        *)
(* registers (kind "Reg", number v) and names of the machine (kind         *)
(* "Name"); a tuple of operands is written out element by element.  An     *)
(* instruction is [op, a, d, n, t]: its operation, operands, destination   *)
(* registers, label or callee, and type.  A visit takes and yields the     *)
(* visitor z = [p, types, fn, reg, label, depth, vars, inner, bad]:       *)
(* types are the structs declared so far, vars maps a local variable to    *)
(* its operand, inner are the registers that hold record inputs of this    *)
(* program.                                                                *)
(***************************************************************************)
EXTENDS LeoAst, DiGraph

CONSTANT MaxWrites   \* Network::LATEST_MAX_WRITES

Reg(i, t) == [Expr("Reg", "", <<>>, t) EXCEPT !.v = i]
Name(x, t) == Expr("Name", x, <<>>, t)
Truth(b) == Literal(IF b THEN 1 ELSE 0, Boolean)
Instr(op, a, d) == [op |-> op, a |-> a, d |-> d, n |-> "", t |-> NoType]
Labelled(op, a, label) == [Instr(op, a, <<>>) EXCEPT !.n = label]
CastTo(a, d, t) == [Instr("Cast", a, d) EXCEPT !.t = t]
Output(o, t) == [Instr("Output", <<o>>, <<>>) EXCEPT !.t = t]

\* What a visit yields: the operand o, if there is one, after the instructions ss.
Code(z, o, ss) == [z |-> z, o |-> o, ss |-> ss]

NextRegister(z) == [z EXCEPT !.reg = @ + 1]
Bad(z, isBad) == [z EXCEPT !.bad = @ \/ isBad]

\* An instruction with one new register for its result.
Emit(z, ss, op, a, t) == Code(NextRegister(z), <<Reg(z.reg, t)>>, Append(ss, Instr(op, a, <<z.reg>>)))
EmitCast(z, ss, a, t) == Code(NextRegister(z), <<Reg(z.reg, t)>>, Append(ss, CastTo(a, <<z.reg>>, t)))

----------------------------------------------------------------------------
(* Types. *)

\* Type::is_empty.
EmptyType(t) == t.k = "unit" \/ (t.k = "array" /\ t.l = 0)

\* visit_type panics on these.
NoAleoType == {"future", "optional", "mapping", "tuple", "vector", "numeric", "err", "unit"}
RECURSIVE HasAleoType(_)
HasAleoType(t) == /\ t.k \notin NoAleoType
                  /\ t.k = "array" => t.l # Unknown /\ HasAleoType(t.s[1])

\* The members of a record, its owner first; those of a struct as declared.
InOrder(p, comp) ==
    IF comp \notin p.records THEN p.structs[comp]
    ELSE SelectSeq(p.structs[comp], LAMBDA m : m.n = "owner")
         \o SelectSeq(p.structs[comp], LAMBDA m : m.n # "owner")
VisibleMembers(p, comp) == SelectSeq(InOrder(p, comp), LAMBDA m : ~EmptyType(m.t))

----------------------------------------------------------------------------
(* Expressions. *)

RECURSIVE VisitExpression(_, _)

\* The operands of a sequence of expressions; those without a value are left out.
VisitAll(z, es) ==
    Thread(LAMBDA acc, e : Feed(VisitExpression(acc.z, e), LAMBDA r :
                             Code(r.z, acc.o \o r.o, acc.ss \o r.ss)),
           Code(z, <<>>, <<>>), es)

Opcode(op) == CASE op = "BitwiseAnd" -> "And" [] op = "BitwiseOr" -> "Or" [] OTHER -> op

VisitBinary(e, r) ==
    CASE Len(r.o) = 2 -> Emit(r.z, r.ss, Opcode(e.n), r.o, e.t)
      [] Len(r.o) = 0 -> Code(Bad(r.z, e.n \notin {"Eq", "Neq"}), <<Truth(e.n = "Eq")>>, r.ss)
      [] OTHER -> Code(Bad(r.z, TRUE), <<Truth(FALSE)>>, r.ss)

VisitUnary(e, r) ==
    CASE e.n = "ToXCoordinate" -> EmitCast(r.z, r.ss, r.o, Type("group.x"))
      [] e.n = "ToYCoordinate" -> EmitCast(r.z, r.ss, r.o, Type("group.y"))
      [] OTHER -> Emit(r.z, r.ss, e.n, r.o, e.t)

\* A cast that changes nothing leaves no instruction.
VisitCast(e, r) == IF e.s[1].t = e.t THEN r ELSE EmitCast(r.z, r.ss, r.o, e.t)

Aggregate(z, ss, os, t) == EmitCast(Bad(z, ~HasAleoType(t)), ss, <<Tuple(os, NoType)>>, t)

VisitRepeat(e, r) ==
    LET count == e.s[2]
    IN  Aggregate(Bad(r.z, count.k # "Literal"), r.ss, [i \in 1 .. count.v |-> r.o[1]], e.t)

\* The instructions of the array operand are dropped; it is a variable or a part of one.
VisitArrayAccess(z, e) ==
    Bind(VisitExpression(z, e.s[1]), LAMBDA r :
    LET index == e.s[2]
    IN  IF r.o = <<>> \/ index.k # "Literal" \/ ~IsInteger(index.t) THEN Code(Bad(z, TRUE), <<Truth(FALSE)>>, <<>>)
        ELSE Code(r.z, <<ArrayAccess(r.o[1], Literal(index.v, U32), e.t)>>, <<>>))

VisitMemberAccess(e, r) ==
    IF e.s[1].t = DynRecord /\ e.n # "owner"
    THEN Emit(r.z, r.ss, "GetRecordDynamic", Append(r.o, Name(e.n, NoType)), e.t)
    ELSE Code(r.z, <<MemberAccess(r.o[1], e.n, e.t)>>, r.ss)

\* The function that a call is of becomes an instruction with a register per output.
VisitCall(e, r) ==
    LET z == r.z
        fn == FunctionNamed(z.p, e.n)
        outs == CASE EmptyType(fn.out) -> <<>> [] IsTuple(fn.out) -> fn.out.s [] OTHER -> <<fn.out>>
        all == IF fn.variant = "Finalize" THEN Append(outs, FutureType(<<>>)) ELSE outs
        regs == [i \in DOMAIN all |-> z.reg + i - 1]
        call == IF fn.variant = "Finalize" THEN [Instr("Async", r.o, regs) EXCEPT !.n = z.fn.n]
                ELSE [Instr("Call", r.o, regs) EXCEPT !.n = e.n]
    IN  Code([z EXCEPT !.reg = @ + Len(all)],
             <<Tuple([i \in DOMAIN all |-> Reg(regs[i], all[i])], NoType)>>, Append(r.ss, call))

\* generate_intrinsic: what is a name of the machine, what has no result, and the rest.
MachineNames ==
    {"self.address", "self.id", "self.checksum", "self.edition", "self.owner", "self.caller",
     "self.signer", "block.height", "block.timestamp", "network.id", "Group::gen",
     "Aleo::generator", "Aleo::generator_powers", "Program::checksum", "Program::edition",
     "Program::owner", "Function::checksum"}
GenerateIntrinsic(e, r) ==
    LET mapping == Name(e.f[1], NoType)
    IN  CASE e.n \in MachineNames -> Code(r.z, <<Name(e.n, e.t)>>, r.ss)
          [] e.n = "Mapping::set" ->
               Code(r.z, <<>>, Append(r.ss, Instr("Set", <<r.o[2], mapping, r.o[1]>>, <<>>)))
          [] e.n = "Mapping::remove" ->
               Code(r.z, <<>>, Append(r.ss, Instr("Remove", <<mapping, r.o[1]>>, <<>>)))
          [] e.n = "Mapping::get" -> Emit(r.z, r.ss, "Get", <<mapping>> \o r.o, e.t)
          [] e.n = "Mapping::get_or_use" -> Emit(r.z, r.ss, "GetOrUse", <<mapping>> \o r.o, e.t)
          [] e.n = "Mapping::contains" -> Emit(r.z, r.ss, "Contains", <<mapping>> \o r.o, e.t)
          [] e.n = "Group::to_x" -> EmitCast(r.z, r.ss, r.o, Type("group.x"))
          [] e.n = "Group::to_y" -> EmitCast(r.z, r.ss, r.o, Type("group.y"))
          [] e.n = "Final::run" -> Code(r.z, <<>>, Append(r.ss, Instr("Await", r.o, <<>>)))
          [] SubSeq(e.n, 1, 7) = "Vector:" \/ SubSeq(e.n, 1, 7) = "Optiona" -> Code(Bad(r.z, TRUE), <<>>, r.ss)
          [] OTHER -> Emit(r.z, r.ss, e.n, r.o, e.t)

\* Expression::is_pure asks for the type of these.
Untyped(e) == \/ e.k = "Binary" /\ e.n \in {"Add", "Mul", "Pow", "Sub"} /\ e.t = NoType
              \/ e.k = "Unary" /\ e.n = "Negate" /\ e.t = NoType
              \/ e.k = "MemberAccess" /\ e.s[1].t = NoType
\* A pure expression of an empty type has no value and needs no instruction.
VisitExpression(z, e) ==
    IF EmptyType(e.t) /\ IsPure(e) THEN Code(z, <<>>, <<>>)
    ELSE Bind(Bad(z, Untyped(e)), LAMBDA z1 :
         LET operands == IF e.k = "Repeat" THEN <<e.s[1]>> ELSE e.s
             Checked(r) == [r EXCEPT !.z = Bad(@, r.o = <<>>)]
         IN  CASE e.k = "ArrayAccess" -> VisitArrayAccess(z1, e)
               [] e.k = "Path" -> IF e.n \in DOMAIN z.vars THEN Code(z1, <<z.vars[e.n]>>, <<>>)
                                  ELSE Code(Bad(z1, TRUE), <<Truth(FALSE)>>, <<>>)
               [] e.k = "Literal" -> Code(Bad(z1, e.n = "none" \/ e.t.k \in {"none", "numeric"}),
                                          <<[e EXCEPT !.n = ""]>>, <<>>)
               [] e.k \in {"Async", "TupleAccess", "Unit"} -> Code(Bad(z1, TRUE), <<>>, <<>>)
               [] OTHER ->
                  Feed(VisitAll(z1, operands), LAMBDA r :
                    CASE e.k = "Binary" -> VisitBinary(e, r)
                      [] e.k = "Unary" -> VisitUnary(e, Checked(r))
                      [] e.k = "Cast" -> VisitCast(e, Checked(r))
                      [] e.k = "Repeat" -> VisitRepeat(e, Checked(r))
                      [] e.k = "Array" -> Aggregate(r.z, r.ss, r.o, e.t)
                      [] e.k = "Composite" ->
                           Aggregate(Bad(r.z, e.n \notin r.z.types), r.ss, r.o, CompositeType(e.n))
                      [] e.k = "Ternary" -> Emit(Bad(r.z, Len(r.o) # 3), r.ss, "Ternary", r.o, e.t)
                      [] e.k = "MemberAccess" -> VisitMemberAccess(e, Checked(r))
                      [] e.k = "Call" -> VisitCall(e, r)
                      [] e.k = "Intrinsic" -> GenerateIntrinsic(e, r)
                      [] e.k = "Tuple" -> Code(r.z, <<Tuple(r.o, NoType)>>, r.ss)))

\* clone_register.
CloneRegister(z, o, t) ==
    LET parts == CASE t.k = "array" -> [i \in 1 .. t.l |-> ArrayAccess(o, Literal(i - 1, U32), t.s[1])]
                   [] t.k = "composite" ->
                        LET ms == VisibleMembers(z.p, t.n)
                        IN  [i \in DOMAIN ms |-> MemberAccess(o, ms[i].n, ms[i].t)]
                   [] OTHER -> <<>>
    IN  IF t.k \in {"array", "composite"} THEN EmitCast(z, <<>>, <<Tuple(parts, NoType)>>, t)
        ELSE EmitCast(Bad(z, ~HasAleoType(t)), <<>>, <<o>>, t)

----------------------------------------------------------------------------
(* Statements.  A visit of these yields no operand. *)

RECURSIVE VisitBlock(_, _)

VisitAssert(z, s) ==
    Feed(VisitAll(z, s.e), LAMBDA r :
      CASE s.n = "Assert" ->
             Code(Bad(r.z, r.o = <<>>), <<>>, Append(r.ss, Instr("AssertEq", Append(r.o, Truth(TRUE)), <<>>)))
        [] s.n # "Assert" /\ Len(r.o) = 2 -> Code(r.z, <<>>, Append(r.ss, Instr(s.n, r.o, <<>>)))
        [] s.n = "AssertEq" /\ r.o = <<>> -> Code(r.z, <<>>, r.ss)
        [] s.n = "AssertNeq" /\ r.o = <<>> ->
             Code(r.z, <<>>, Append(r.ss, Instr("AssertEq", <<Truth(FALSE), Truth(TRUE)>>, <<>>)))
        [] OTHER -> Code(Bad(r.z, TRUE), <<>>, r.ss))

(* Mutant: a value is output again as it is. *)
ReturnedOnce(acc, r, t) == [acc EXCEPT !.z = r.z, !.ss = @ \o r.ss, !.o = @ \o r.o]

\* One output: a value that was output already, or a record that came in as an
\* input, is copied first.
Returned(acc, r, t) ==
    LET again == r.o # <<>> /\ (r.o[1] \in ToSet(acc.o) \/ r.o[1] \in r.z.inner)
    IN  IF again THEN Feed(CloneRegister(r.z, r.o[1], t), LAMBDA c :
                        Code(c.z, acc.o \o c.o, acc.ss \o r.ss \o c.ss))
        ELSE Code(r.z, acc.o \o r.o, acc.ss \o r.ss)

\* The values are computed in order and output at the end.
VisitReturn(z, s) ==
    LET whole == s.e[1].k = "Tuple"
        es == IF whole THEN s.e[1].s ELSE s.e
        ts == IF whole THEN z.fn.out.s ELSE <<z.fn.out>>
        pairs == [i \in DOMAIN es |-> <<es[i], ts[i]>>]
    IN  IF Len(es) # Len(ts) THEN Code(Bad(z, TRUE), <<>>, <<>>)
        ELSE Feed(Thread(LAMBDA acc, x : Feed(VisitExpression(acc.z, x[1]), LAMBDA r : Returned(acc, r, x[2])),
                         Code(z, <<>>, <<>>), pairs),
                  LAMBDA r : LET kept == SelectSeq(ts, LAMBDA t : ~EmptyType(t))
                             IN  IF ~whole /\ r.o = <<>> THEN Code(r.z, <<>>, <<>>)
                                 ELSE Code(r.z, <<>>, r.ss \o [i \in DOMAIN r.o |-> Output(r.o[i], kept[i])]))

\* A definition names an operand; only the instructions of its value are emitted.
VisitDefinition(z, s) ==
    Feed(VisitExpression(z, s.e[1]), LAMBDA r :
      LET many == Len(s.ns) # 1
          os == CASE ~many -> r.o
                  [] many /\ r.o # <<>> /\ r.o[1].k = "Tuple" -> r.o[1].s
                  [] OTHER -> <<>>
          named == {i \in DOMAIN s.ns : i \in DOMAIN os}
      IN  Code([r.z EXCEPT
                  !.vars = [x \in {s.ns[i] : i \in named} |-> os[CHOOSE i \in named : s.ns[i] = x]] @@ @,
                  !.bad = @ \/ (many /\ (s.e[1].k \notin {"Call", "Intrinsic"} \/ Len(os) # Len(s.ns)))],
               <<>>, r.ss))

\* A conditional jumps over the branch that is not taken.
VisitConditional(z, s) ==
    LET LabelOf(kind, n) == kind \o ToString(z.depth) \o "_" \o ToString(n)
        endThen == LabelOf("end_then_", z.label)
        endOtherwise == LabelOf("end_otherwise_", z.label + 1)
        two == Len(s.b) = 2
        z1 == [z EXCEPT !.label = @ + (IF two THEN 2 ELSE 1), !.depth = @ + 1,
                        !.bad = @ \/ z.fn.variant \notin {"Finalize", "Constructor"}]
    IN  Feed(VisitExpression(z1, s.e[1]), LAMBDA c :
          Feed(VisitBlock(c.z, s.b[1]), LAMBDA a :
            Feed(IF two THEN VisitBlock(a.z, s.b[2]) ELSE Code(a.z, <<>>, <<>>), LAMBDA b :
              Code([b.z EXCEPT !.depth = @ - 1, !.bad = @ \/ c.o = <<>>], <<>>,
                   c.ss \o <<Labelled("BranchEq", c.o \o <<Truth(FALSE)>>, endThen)>> \o a.ss
                   \o (IF two THEN <<Labelled("BranchEq", <<Truth(TRUE), Truth(TRUE)>>, endOtherwise)>> ELSE <<>>)
                   \o <<Labelled("Position", <<>>, endThen)>> \o b.ss
                   \o (IF two THEN <<Labelled("Position", <<>>, endOtherwise)>> ELSE <<>>)))))

VisitStatement(z, s) ==
    CASE s.k = "Assert" -> VisitAssert(z, s)
      [] s.k = "Block" -> VisitBlock(z, s.b[1])
      [] s.k = "Conditional" -> VisitConditional(z, s)
      [] s.k = "Definition" -> VisitDefinition(z, s)
      [] s.k = "Expression" -> Feed(VisitExpression(z, s.e[1]), LAMBDA r : [r EXCEPT !.o = <<>>])
      [] s.k = "Return" -> VisitReturn(z, s)
      [] OTHER -> Code(Bad(z, TRUE), <<>>, <<>>)

VisitBlock(z, ss) ==
    Thread(LAMBDA acc, s : Feed(VisitStatement(acc.z, s), LAMBDA r : Code(r.z, <<>>, acc.ss \o r.ss)),
           Code(z, <<>>, <<>>), ss)

----------------------------------------------------------------------------
(* Programs.  A functional is [n, kind, ins, ss, fin]: the types of its    *)
(* inputs, which are the first registers, its instructions and, for an     *)
(* entry point, what is run on chain.                                      *)

\* add_composite_dependencies and retain_nodes: which struct holds which.
RECURSIVE CompositesOf(_)
CompositesOf(t) ==
    (IF t.k = "composite" THEN <<t.n>> ELSE <<>>)
    \o Thread(LAMBDA acc, part : acc \o CompositesOf(part), <<>>, IF t.k = "composite" THEN <<>> ELSE t.s)
CompositeGraph(p, used) ==
    LET Depend(g, c) == Thread(LAMBDA acc, m : Thread(LAMBDA a, d : AddEdge(a, c, d), acc, CompositesOf(m.t)),
                               AddNode(g, c), p.structs[c])
    IN  RetainNodes(Thread(Depend, EmptyGraph, SetToSeq(DOMAIN p.structs)), used)

\* A struct or record follows those that it is made of.
DataTypes(p, used) ==
    Thread(LAMBDA acc, c : IF c \in p.external THEN acc ELSE Append(acc, [n |-> c, ms |-> VisibleMembers(p, c)]),
           <<>>, PostOrder(CompositeGraph(p, used)).order)

NewVisitor(p, types, fn) ==
    [p |-> p, types |-> types, fn |-> fn, reg |-> 0, label |-> 0, depth |-> 0,
     vars |-> <<>>, inner |-> {}, bad |-> FALSE]

\* The inputs take the first registers.
Receive(z, prm) ==
    IF EmptyType(prm.t) THEN z
    ELSE [NextRegister(z) EXCEPT
            !.vars = (prm.n :> Reg(z.reg, prm.t)) @@ @,
            !.inner = IF prm.t.k = "composite" /\ prm.t.n \in z.p.records \ z.p.external
                      THEN @ \cup {Reg(z.reg, prm.t)} ELSE @,
            !.bad = @ \/ (prm.t.k # "future" /\ ~HasAleoType(prm.t))]

WriteCount(ss) == Len(SelectSeq(ss, LAMBDA s : s.op \in {"Set", "Remove"}))

Trivial == Instr("AssertEq", <<Truth(TRUE), Truth(TRUE)>>, <<>>)

\* A closure or finalize block must do something besides outputting.
NonEmpty(fn, ss) ==
    IF fn.variant \in {"Fn", "Finalize"} /\ \A i \in DOMAIN ss : ss[i].op = "Output"
    THEN <<Trivial>> \o ss ELSE ss

VisitFunctionWith(p, types, fn) ==
    LET z == Thread(Receive, NewVisitor(p, types, fn), fn.ins)
    IN  Feed(VisitBlock(z, fn.body), LAMBDA r :
          LET ss == NonEmpty(fn, r.ss)
          IN  [bad |-> r.z.bad, err |-> fn.variant = "Finalize" /\ WriteCount(ss) > MaxWrites,
               f |-> [n |-> fn.n, kind |-> fn.variant, ss |-> ss, fin |-> <<>>,
                      ins |-> SelectSeq([i \in DOMAIN fn.ins |-> fn.ins[i].t], LAMBDA t : ~EmptyType(t))]])

\* The constructor does what its annotation says, or what is written in it.
VisitConstructor(p, types, fn) ==
    LET edition == Name("self.edition", U16)
        zero == Literal(0, U16)
        owner == Name("self.owner", Address)
        r == VisitBlock(NewVisitor(p, types, fn), fn.body)
        custom == "custom" \in fn.marks
    IN  Bind(CASE custom -> r.ss
               [] "admin" \in fn.marks -> <<Instr("AssertEq", <<owner, Name("admin", Address)>>, <<>>)>>
               [] "checksum" \in fn.marks ->
                    <<Labelled("BranchEq", <<edition, zero>>, "end"),
                      Instr("Get", <<Name(p.ctor.mapping, NoType), Name("key", p.ctor.key)>>, <<0>>),
                      Instr("AssertEq", <<Name("self.checksum", NoType), Reg(0, NoType)>>, <<>>),
                      Labelled("Position", <<>>, "end")>>
               [] OTHER -> <<Instr("AssertEq", <<edition, zero>>, <<>>)>>, LAMBDA ss :
        [bad |-> custom /\ r.z.bad, err |-> WriteCount(ss) > MaxWrites,
         f |-> [n |-> fn.n, kind |-> fn.variant, ins |-> <<>>, ss |-> ss, fin |-> <<>>]])

\* The finalize block of an entry point is the one that it calls.
FinalizersOf(u, fn) == {i \in DOMAIN u.p.funcs : /\ u.p.funcs[i].variant = "Finalize"
                                                 /\ <<fn.n, u.p.funcs[i].n>> \in u.calls}
VisitFunction(u, types, fn) ==
    Bind(IF fn.variant = "Constructor" THEN VisitConstructor(u.p, types, fn)
         ELSE VisitFunctionWith(u.p, types, fn), LAMBDA r :
    IF FinalizersOf(u, fn) = {} THEN r
    ELSE Feed(VisitFunctionWith(u.p, types, u.p.funcs[CHOOSE i \in FinalizersOf(u, fn) : TRUE]), LAMBDA q :
           [r EXCEPT !.bad = @ \/ q.bad, !.err = @ \/ q.err, !.f.fin = <<q.f>>]))

\* visit_mapping: the types of a mapping's keys and values.
MappingIsValid(t) == HasAleoType(t.s[1]) /\ HasAleoType(t.s[2])

\* CodeGenerating::do_pass.
GenerateProgram(u) ==
    Bind(DataTypes(u.p, u.used), LAMBDA data :
    LET types == {data[i].n : i \in DOMAIN data} \cup u.p.external
        mappings == {g \in DOMAIN u.p.globals : u.p.globals[g].d = "Mapping"}
        funcs == SelectSeq(u.p.funcs, LAMBDA fn : ~IsFinalizeContext(fn.variant))
        empty == [bad |-> \/ ~PostOrder(CompositeGraph(u.p, u.used)).ok
                          \/ \E g \in mappings : ~MappingIsValid(u.p.globals[g].t)
                          \/ \E i \in DOMAIN data : \E j \in DOMAIN data[i].ms : ~HasAleoType(data[i].ms[j].t),
                  err |-> FALSE, fs |-> <<>>]
    IN  Feed(Thread(LAMBDA acc, fn : Feed(VisitFunction(u, types, fn), LAMBDA r :
                      [bad |-> acc.bad \/ r.bad, err |-> acc.err \/ r.err, fs |-> Append(acc.fs, r.f)]),
                    empty, funcs),
             LAMBDA r : [u EXCEPT !.bad = @ \/ r.bad, !.err = @ \/ r.err,
                                  !.code = [data |-> data, mappings |-> mappings, funcs |-> r.fs]]))
=============================================================================
