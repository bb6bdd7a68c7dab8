-------------------------- MODULE CompilerPipeline --------------------------
(***************************************************************************)
(* Compiler::intermediate_passes and Compiler::compile: the order in which *)
(* the passes rewrite a program, one action per pass.  A pass that reports *)
(* an error or panics ends the compilation.                                *)
(***************************************************************************)
EXTENDS LeoSemantics

CONSTANTS
    Programs,    \* the programs, as they are parsed
    MaxArrayElements, MaxInputs, MaxOutputs, MaxMappings, MaxFunctions, MaxWrites,
    MaxRounds    \* stands for the limits on repeated rounds

T == INSTANCE TypeChecking
A == INSTANCE ProcessingAsync
U == INSTANCE Unrolling
P == INSTANCE ConstPropagation
M == INSTANCE Monomorphization
G == INSTANCE StorageLowering
O == INSTANCE OptionLowering
S == INSTANCE SsaForming
D == INSTANCE Destructuring
W == INSTANCE WriteTransforming
F == INSTANCE Flattening
I == INSTANCE FunctionInlining
K == INSTANCE SsaConstPropagation
C == INSTANCE Optimizations
X == INSTANCE CodeGeneration
Y == INSTANCE Peephole

VARIABLES
    source,   \* the program being compiled, the inputs to judge it on and, once its
              \* types are known, what it yields on them when only the branches that
              \* are taken are computed (promised) and when all are (computed)
    unit,     \* what the passes have made of it, and the compiler's state
    agenda,   \* the passes that are still to come
    round     \* of const propagation, unrolling and monomorphization: its
              \* number, whether it changed something, what it left open

vars == <<source, unit, agenda, round>>

NoRound == [n |-> 0, changed |-> FALSE, left |-> {}]

\* A round of ConstPropUnrollAndMorphing, and all that compile does after parsing.
Round == <<"Unrolling", "ConstPropagation", "RemoveUnreachable", "Monomorphization",
           "TypeChecking", "RoundOver">>
Passes ==
    <<"TypeChecking", "ProcessingAsync">> \o Round \o
    <<"StorageLowering", "OptionLowering", "SsaForming1", "Destructuring", "SsaForming2",
      "WriteTransforming", "SsaForming3", "Flattening", "FunctionInlining", "SsaForming4",
      "SsaConstPropagation", "SsaForming5", "CommonSubexpressionEliminating",
      "DeadCodeEliminating", "CodeGenerating", "PeepholeOptimizing">>

Init ==
    /\ \E s \in Programs : source = [p |-> s.p, inputs |-> s.inputs, promised |-> <<>>, computed |-> <<>>]
    /\ unit = [p |-> source.p, c |-> 0, bad |-> FALSE, err |-> FALSE,
               counts |-> <<>>, consts |-> <<>>, used |-> {}, calls |-> {}, code |-> <<>>]
    /\ agenda = Passes
    /\ round = NoRound

IsNext(passes) == agenda # <<>> /\ Head(agenda) \in passes
Past(pass) == pass \notin ToSet(agenda)

\* do_pass of the next pass; the passes that it asks for itself come right after it.
DoPass(pass, more, result) ==
    /\ IsNext({pass})
    /\ ~unit.bad /\ ~unit.err
    /\ unit' = result
    /\ agenda' = more \o Tail(agenda)

\* What the entry points of p yield on the inputs of the source.
Meaning(p, eager) ==
    [i \in DOMAIN source.inputs |->
       LET in == source.inputs[i]
       IN  Run(p, FunctionNamed(p, in.fn), in.vs, in.store, eager)]

----------------------------------------------------------------------------
(* The frontend. *)

\* What the type checker leaves in the compiler's state.
TypesChecked(u, r) == [u EXCEPT !.p = r.p, !.err = @ \/ ~r.ok, !.counts = r.counts,
                                !.used = r.used, !.calls = r.calls]

\* The first type check, and those that other passes end with.
TypeChecking ==
    Bind(T!TypeCheck(unit.p), LAMBDA r :
      /\ DoPass("TypeChecking", <<>>, TypesChecked(unit, r))
      /\ source' = IF Past("ProcessingAsync") \/ ~r.ok THEN source
                   ELSE Bind([eager \in BOOLEAN |-> Meaning(r.p, eager)], LAMBDA m :
                             [source EXCEPT !.promised = m[FALSE], !.computed = m[TRUE]])
      /\ UNCHANGED round)

Recheck == <<"TypeChecking">>

ProcessingAsync ==
    Bind(A!AsyncProgram(unit), LAMBDA r :
      /\ DoPass("ProcessingAsync", IF r.changed THEN Recheck ELSE <<>>, r.u)
      /\ UNCHANGED <<source, round>>)

----------------------------------------------------------------------------
(* ConstPropUnrollAndMorphing::do_pass, a loop of five passes. *)

\* A pass with its outcome r, which the round takes note of.
RoundPass(pass, r) ==
    /\ DoPass(pass, <<>>, r.u)
    /\ round' = [round EXCEPT !.changed = @ \/ r.changed, !.left = @ \cup r.left]
    /\ UNCHANGED source

Unrolling == RoundPass("Unrolling", U!UnrollProgram(unit))
ConstPropagation == RoundPass("ConstPropagation", P!ConstPropProgram(unit))
RemoveUnreachable ==
    /\ DoPass("RemoveUnreachable", <<>>, C!RemoveUnreachableProgram(unit))
    /\ UNCHANGED <<source, round>>
Monomorphization == RoundPass("Monomorphization", M!MonoProgram(unit))

\* A round that changed nothing is the last one.
RoundOver ==
    LET open == ~round.changed /\ round.left # {}
        over == round.changed /\ round.n + 1 = MaxRounds
    IN  /\ DoPass("RoundOver", IF round.changed THEN Round ELSE <<>>,
                  [unit EXCEPT !.err = open \/ over])
        /\ round' = [NoRound EXCEPT !.n = round.n + 1]
        /\ UNCHANGED source

----------------------------------------------------------------------------
(* The lowering passes and the optimizations. *)

Lower(pass, result) == DoPass(pass, <<>>, result) /\ UNCHANGED <<source, round>>

StorageLowering ==
    /\ DoPass("StorageLowering", Recheck, G!LowerStorageProgram(unit))
    /\ UNCHANGED <<source, round>>
OptionLowering ==
    /\ DoPass("OptionLowering", Recheck, O!LowerOptionProgram(unit))
    /\ UNCHANGED <<source, round>>

\* Only the first time are the names that a definition gives made unique.
SsaForming ==
    /\ IsNext({"SsaForming1", "SsaForming2", "SsaForming3", "SsaForming4", "SsaForming5"})
    /\ Lower(Head(agenda), S!SsaProgram(unit, Head(agenda) = "SsaForming1"))

Destructuring == Lower("Destructuring", D!DestructureProgram(unit))
WriteTransforming == Lower("WriteTransforming", W!WriteTransformProgram(unit))
Flattening == Lower("Flattening", F!FlattenProgram(unit))
FunctionInlining == Lower("FunctionInlining", I!InlineProgram(unit))
SsaConstPropagation == Lower("SsaConstPropagation", K!SsaConstProgram(unit))
CommonSubexpressionEliminating ==
    Lower("CommonSubexpressionEliminating", C!CseProgram(unit))
DeadCodeEliminating == Lower("DeadCodeEliminating", C!DceProgram(unit))

----------------------------------------------------------------------------
(* Compiler::compile, after the intermediate passes. *)

CodeGenerating == Lower("CodeGenerating", X!GenerateProgram(unit))
PeepholeOptimizing == Lower("PeepholeOptimizing", Y!PeepholeProgram(unit))

Next ==
    \/ TypeChecking \/ ProcessingAsync
    \/ Unrolling \/ ConstPropagation \/ RemoveUnreachable \/ Monomorphization \/ RoundOver
    \/ StorageLowering \/ OptionLowering \/ SsaForming \/ Destructuring \/ WriteTransforming
    \/ Flattening \/ FunctionInlining \/ SsaConstPropagation
    \/ CommonSubexpressionEliminating \/ DeadCodeEliminating
    \/ CodeGenerating \/ PeepholeOptimizing

Spec == Init /\ [][Next]_vars

----------------------------------------------------------------------------
\* The same of the generated instructions.
CodeMeaning ==
    [i \in DOMAIN source.inputs |->
       LET in == source.inputs[i]
       IN  RunFunctional(unit.p, unit.code, FunctionNamed(unit.p, in.fn), in.vs, in.store)]

\* No pass of Compiler::intermediate_passes meets a case that its code declares
\* impossible (panic!, unreachable!, expect): what each pass leaves behind, and the
\* types it records, are what every later pass relies on.
NoPanic == ~unit.bad

\* After every pass the program means what its source means: on the same inputs and
\* stored values, the same outputs and the same stored values, or the same refusal.
\* A refusal is also allowed where the source reaches a failing operation in a branch
\* that is not taken, because circuits evaluate both branches.  (Before a type check
\* that is due, the recorded types may not be those of the program.)
MeaningPreserved ==
    ~unit.bad /\ ~unit.err /\ ~IsNext({"TypeChecking", "RoundOver"}) =>
      Bind(IF unit.code = <<>> THEN Meaning(unit.p, TRUE) ELSE CodeMeaning, LAMBDA now :
      \A i \in DOMAIN now :
         now[i] = source.promised[i] \/ (now[i].halt /\ source.computed[i].halt))

\* What a functional runs on chain.
OnChain(f) == CASE f.kind = "Constructor" -> f.ss [] f.fin # <<>> -> f.fin[1].ss [] OTHER -> <<>>

\* A program without compile-time constants that the first type check accepted is later
\* rejected only if an operation in it fails when it is run, or if what is run on chain
\* writes to mappings more often than the machine allows: constant folding reports
\* no other error, and the passes that check again what they made (ProcessingAsync,
\* ConstPropUnrollAndMorphing, StorageLowering and OptionLowering) make well-typed
\* programs.
AcceptedStaysAccepted ==
    /\ unit.err
    /\ Past("ProcessingAsync")
    /\ source.p.consts = <<>>
    => \/ \E i \in DOMAIN source.computed : source.computed[i].halt
       \/ IsNext({"PeepholeOptimizing"}) /\ \E i \in DOMAIN unit.code.funcs : X!WriteCount(OnChain(unit.code.funcs[i])) > MaxWrites

----------------------------------------------------------------------------
(* The form of the program between the passes. *)

\* The names that a block defines, as often as it does.
RECURSIVE DefinedIn(_)
DefinedIn(ss) ==
    Thread(LAMBDA acc, s :
             acc \o (CASE s.k = "Definition" -> s.ns
                       [] s.k = "Assign" -> IF IsPath(s.e[1]) THEN <<s.e[1].n>> ELSE <<>>
                       [] OTHER -> Thread(LAMBDA a, b : a \o DefinedIn(b), <<>>, s.b)),
           <<>>, ss)

\* Where SsaForming, or a pass that keeps its form, has just run, every name is
\* given its value by one statement of the function: renaming in branches, phi
\* functions, the copies made by inlining and the variables that the passes
\* introduce never reuse a name.
SingleAssignment ==
    IsNext({"Destructuring", "WriteTransforming", "Flattening", "FunctionInlining",
            "SsaConstPropagation", "CommonSubexpressionEliminating", "DeadCodeEliminating",
            "CodeGenerating"}) =>
      \A i \in DOMAIN unit.p.funcs :
         LET fn == unit.p.funcs[i]
             names == [j \in DOMAIN fn.ins |-> fn.ins[j].n] \o DefinedIn(fn.body)
         IN  Cardinality(ToSet(names)) = Len(names)

\* The kinds of expression and statement in a block, an intrinsic by its module, and
\* the types that only the surface language has.
RECURSIVE ExprForms(_)
RECURSIVE Forms(_)
ExprForms(e) ==
    {e.k, e.t.k} \cup (IF e.k = "Intrinsic" THEN {SubSeq(e.n, 1, 6)} ELSE {})
    \cup UNION {ExprForms(e.s[i]) : i \in DOMAIN e.s} \cup Forms(e.b)
Forms(ss) ==
    UNION {LET s == ss[i]
               whole == s.k = "Return" /\ s.e[1].k = "Tuple"
               parts == IF whole THEN s.e[1].s ELSE s.e
           IN  {s.k} \cup (IF s.k = "Assign" /\ ~IsPath(s.e[1]) THEN {"part"} ELSE {})
               \cup UNION {ExprForms(parts[j]) : j \in DOMAIN parts}
               \cup UNION {Forms(s.b[j]) : j \in DOMAIN s.b} : i \in DOMAIN ss}

\* A form that a pass removes is gone after it and no later pass brings it back: final
\* blocks (ProcessingAsync), loops and generic functions (the const-propagation rounds),
\* storage vectors and optionals (the lowerings), tuples other than returned ones
\* (Destructuring), writes to parts (WriteTransforming), constants and assignments
\* (SsaForming) and, in circuits, conditionals (Flattening).
FormsRemoved ==
    ~unit.bad /\ ~unit.err /\ ~IsNext({"TypeChecking"}) =>
      \A i \in DOMAIN unit.p.funcs :
        LET fn == unit.p.funcs[i]
            forms == Forms(fn.body)
            Gone(pass, removed) == Past(pass) => forms \cap removed = {}
        IN  /\ Gone("ProcessingAsync", {"Async"})
            /\ Gone("RoundOver", {"Iteration"})
            /\ Past("RoundOver") => fn.consts = <<>>
            /\ Gone("StorageLowering", {"Vector", "vector"})
            /\ Gone("OptionLowering", {"optional", "Option"})
            /\ Gone("SsaForming1", {"Const"})
            /\ Gone("Destructuring", {"Tuple", "TupleAccess"})
            /\ Gone("WriteTransforming", {"part"})
            /\ Gone("SsaForming3", {"Assign"})
            /\ IsCircuit(fn) => Gone("Flattening", {"Conditional"})

----------------------------------------------------------------------------
(* The form of the generated code. *)

\* The functionals of the code, with what an entry point runs on chain.
Functionals == LET fs == unit.code.funcs IN  UNION {{fs[i]} \cup ToSet(fs[i].fin) : i \in DOMAIN fs}

DestinationsOf(ss) == Thread(LAMBDA acc, s : acc \o s.d, <<>>, ss)

\* The code is what the machine accepts as a program.  Every register is written by one
\* instruction, after the inputs and, once PeepholeOptimizing has renumbered them, without
\* gaps and in order; it is written before it is read, whatever branch is taken to get
\* there.  A branch leads to the one position of its name, further down.  No
\* register is output twice and no record goes out as it came in.  A
\* closure or finalize block has an instruction besides its outputs.  A
\* struct is declared after those that it is made of.
WellFormedCode ==
    ~unit.bad /\ ~unit.err /\ unit.code # <<>> =>
      /\ \A f \in Functionals :
           LET ss == f.ss
               inputs == Len(f.ins)
               dests == DestinationsOf(ss)
               outs == SelectSeq(ss, LAMBDA s : s.op = "Output")
               Jumps(i) == ss[i].op = "BranchEq"
               TargetOf(i) == {j \in DOMAIN ss : ss[j].op = "Position" /\ ss[j].n = ss[i].n}
               Certain(i) == {j \in 1 .. i - 1 : \A k \in DOMAIN ss : Jumps(k) =>
                                \A t \in TargetOf(k) : k < j /\ j < t => i < t}
           IN  /\ Cardinality(ToSet(dests)) = Len(dests)
               /\ agenda = <<>> => dests = [k \in DOMAIN dests |-> inputs + k - 1]
               /\ \A i \in DOMAIN ss : Y!CollectReadRegisters(ss[i]) \subseteq
                    (0 .. inputs - 1) \cup UNION {ToSet(ss[j].d) : j \in Certain(i)}
               /\ \A i \in DOMAIN ss : Jumps(i) => \E j \in DOMAIN ss : TargetOf(i) = {j} /\ i < j
               /\ \A i, j \in DOMAIN outs :
                    outs[i].a = outs[j].a /\ outs[i].a[1].k = "Reg" => i = j
               /\ \A i \in DOMAIN outs : LET o == outs[i].a[1] IN
                    o.k = "Reg" /\ o.v < inputs => o.t.n \notin unit.p.records \ unit.p.external
               /\ f.kind \in {"Fn", "Finalize"} => Len(outs) < Len(ss)
      /\ LET data == unit.code.data
         IN  \A i \in DOMAIN data : \A m \in ToSet(data[i].ms) :
               ToSet(X!CompositesOf(m.t)) \subseteq {data[j].n : j \in 1 .. i - 1} \cup unit.p.external
=============================================================================
