------------------------------ MODULE Peephole ------------------------------
(***************************************************************************)
(* passes/src/peephole_optimization: five rewritings of the instructions   *)
(* that CodeGeneration made, one statement list after the other.           *)
(***************************************************************************)
EXTENDS LeoAst, SequencesExt

NumberTypes == {"u8", "u16", "u32", "u64", "u128", "i8", "i16", "i32", "i64", "i128", "field", "scalar"}
IsLiteral(o) == o.k = "Literal"
IsZero(o) == IsLiteral(o) /\ o.v = 0 /\ o.t.k \in NumberTypes \cup {"group"}
IsOne(o) == IsLiteral(o) /\ o.v = 1 /\ o.t.k \in NumberTypes
IsFalse(o) == IsLiteral(o) /\ o.v = 0 /\ o.t.k = "bool"
IsTrue(o) == IsLiteral(o) /\ o.v = 1 /\ o.t.k = "bool"

----------------------------------------------------------------------------
(* fold_identity_operations *)

\* The operands that s equals, the one to use first; none if it is no identity.
EitherWhen(s, Neutral(_)) ==
    CASE Neutral(s.a[2]) -> <<s.a[1]>> [] Neutral(s.a[1]) -> <<s.a[2]>> [] OTHER -> <<>>

TryIdentity(s) ==
    CASE s.op \in {"Add", "AddWrapped"} -> EitherWhen(s, IsZero)
      [] s.op \in {"Sub", "SubWrapped"} -> IF IsZero(s.a[2]) THEN <<s.a[1]>> ELSE <<>>
      [] s.op \in {"Mul", "MulWrapped"} -> EitherWhen(s, IsOne)
      [] s.op \in {"Or", "Xor"} -> EitherWhen(s, IsFalse)
      [] s.op = "And" -> EitherWhen(s, IsTrue)
      [] OTHER -> <<>>

TryStrengthReduce(s) ==
    LET kept == CASE s.op = "Nand" -> EitherWhen(s, IsTrue)
                  [] s.op = "Nor" -> EitherWhen(s, IsFalse)
                  [] OTHER -> <<>>
    IN  IF kept = <<>> THEN s ELSE [s EXCEPT !.op = "Not", !.a = kept]

RECURSIVE ResolveAlias(_, _)
ResolveAlias(o, aliases) ==
    IF o.k = "Reg" THEN IF o.v \in DOMAIN aliases THEN ResolveAlias(aliases[o.v], aliases) ELSE o
    ELSE [o EXCEPT !.s = [i \in DOMAIN o.s |-> ResolveAlias(o.s[i], aliases)]]

Substituted(s, aliases) == [s EXCEPT !.a = [i \in DOMAIN s.a |-> ResolveAlias(s.a[i], aliases)]]

\* An identity is dropped, its register standing for the operand from there on.
FoldIdentityOperations(ss) ==
    LET reduced == [i \in DOMAIN ss |-> TryStrengthReduce(ss[i])]
        aliases == Thread(LAMBDA acc, s : LET value == TryIdentity(s)
                                          IN  IF value = <<>> THEN acc
                                              ELSE (s.d[1] :> ResolveAlias(value[1], acc)) @@ acc,
                          <<>>, reduced)
        kept == SelectSeq(reduced, LAMBDA s : TryIdentity(s) = <<>>)
    IN  [i \in DOMAIN kept |-> Substituted(kept[i], aliases)]

----------------------------------------------------------------------------
(* eliminate_trivial_asserts *)

IsTrivialAssert(s) == s.op = "AssertEq" /\ IsLiteral(s.a[1]) /\ s.a[1] = s.a[2]

\* One is kept where nothing else would be left besides the outputs.
EliminateTrivialAsserts(ss) ==
    LET trivial == {i \in DOMAIN ss : IsTrivialAssert(ss[i])}
        bare == \A i \in DOMAIN ss \ trivial : ss[i].op = "Output"
        Kept(i) == i \notin trivial \/ (bare /\ \A j \in trivial : i <= j)
    IN  Thread(LAMBDA acc, i : IF Kept(i) THEN Append(acc, ss[i]) ELSE acc,
               <<>>, [i \in DOMAIN ss |-> i])

----------------------------------------------------------------------------
(* eliminate_dead_registers *)

RECURSIVE RegistersIn(_)
RegistersIn(o) == (IF o.k = "Reg" THEN {o.v} ELSE {}) \cup UNION {RegistersIn(o.s[i]) : i \in DOMAIN o.s}

\* collect_read_registers.
CollectReadRegisters(s) == UNION {RegistersIn(s.a[i]) : i \in DOMAIN s.a}

\* dest_register_if_pure: the instructions that never fail.
PureOps == {"AbsWrapped", "Double", "Not", "Square", "Ternary", "PowWrapped", "AddWrapped",
            "SubWrapped", "MulWrapped", "ShlWrapped", "ShrWrapped", "And", "Or", "Xor",
            "Nand", "Nor", "Eq", "Neq", "Gt", "Gte", "Lt", "Lte"}

EliminateDeadRegisters(ss) ==
    LET used == UNION {CollectReadRegisters(ss[i]) : i \in DOMAIN ss}
    IN  SelectSeq(ss, LAMBDA s : s.op \in PureOps => s.d[1] \in used)

----------------------------------------------------------------------------
(* fold_consecutive_casts *)

Widths == [u8 |-> 8, u16 |-> 16, u32 |-> 32, u64 |-> 64, u128 |-> 128]
SignedWidths == [i8 |-> 8, i16 |-> 16, i32 |-> 32, i64 |-> 64, i128 |-> 128]

\* Every value of the final type is one of the intermediate type.
IntermediateAcceptsAllFinalValues(mid, final) ==
    \/ mid \in DOMAIN SignedWidths /\ final \in DOMAIN SignedWidths /\ SignedWidths[mid] >= SignedWidths[final]
    \/ mid \in DOMAIN SignedWidths /\ final \in DOMAIN Widths /\ SignedWidths[mid] > Widths[final]
    \/ mid \in DOMAIN Widths /\ final \in DOMAIN Widths /\ Widths[mid] >= Widths[final]

\* The first of two casts, when the second alone does the same.
CanFold(uses, first, second) ==
    /\ first.op = "Cast" /\ second.op = "Cast"
    /\ first.a[1].k # "Tuple"
    /\ second.a[1].k = "Reg" /\ second.a[1].v = first.d[1]
    /\ uses[first.d[1]] = 1
    /\ IntermediateAcceptsAllFinalValues(first.t.k, second.t.k)

FoldConsecutiveCasts(ss) ==
    LET uses == [r \in UNION {CollectReadRegisters(ss[i]) : i \in DOMAIN ss} |->
                   Cardinality({i \in DOMAIN ss : r \in CollectReadRegisters(ss[i])})]
        Merge(acc, s) == IF acc # <<>> /\ CanFold(uses, Last(acc), s)
                         THEN Append(Front(acc), [s EXCEPT !.a = Last(acc).a])
                         ELSE Append(acc, s)
    IN  Thread(Merge, <<>>, ss)

----------------------------------------------------------------------------
(* renumber_registers *)

RECURSIVE RemapExpr(_, _)
RemapExpr(o, mapping) ==
    IF o.k = "Reg" THEN [o EXCEPT !.v = IF o.v \in DOMAIN mapping THEN mapping[o.v] ELSE o.v]
    ELSE [o EXCEPT !.s = [i \in DOMAIN o.s |-> RemapExpr(o.s[i], mapping)]]

\* The registers that are left are numbered in the order in which they are written.
RenumberRegisters(ss, inputs) ==
    LET dests == Thread(LAMBDA acc, s : acc \o SelectSeq(s.d, LAMBDA d : d >= inputs), <<>>, ss)
        first == Thread(LAMBDA acc, d : IF d \in ToSet(acc) THEN acc ELSE Append(acc, d), <<>>, dests)
    IN  Bind([d \in ToSet(first) |-> inputs - 1 + (CHOOSE i \in DOMAIN first : first[i] = d)], LAMBDA mapping :
        [i \in DOMAIN ss |->
           [ss[i] EXCEPT !.a = [j \in DOMAIN @ |-> RemapExpr(@[j], mapping)],
                         !.d = [j \in DOMAIN @ |-> IF @[j] \in DOMAIN mapping THEN mapping[@[j]] ELSE @[j]]]])

----------------------------------------------------------------------------
\* PeepholeOptimizing::do_pass, for one statement list.
Optimize(ss, inputs) ==
    Feed(FoldIdentityOperations(ss), LAMBDA a :
      Feed(EliminateTrivialAsserts(a), LAMBDA b :
        Feed(EliminateDeadRegisters(b), LAMBDA c :
          Feed(FoldConsecutiveCasts(c), LAMBDA d : RenumberRegisters(d, inputs)))))

\* for_each_statement_list.
ForEachStatementList(f) ==
    [f EXCEPT !.ss = Optimize(f.ss, Len(f.ins)),
              !.fin = [i \in DOMAIN f.fin |-> [f.fin[i] EXCEPT !.ss = Optimize(@, Len(f.fin[i].ins))]]]

PeepholeProgram(u) ==
    [u EXCEPT !.code.funcs = [i \in DOMAIN u.code.funcs |-> ForEachStatementList(u.code.funcs[i])]]
=============================================================================
