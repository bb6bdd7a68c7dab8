----------------------------- MODULE TypeCalls -----------------------------
(***************************************************************************)
(* How the type checker treats intrinsics: where in a program they may     *)
(* stand, the types of their arguments and of their result                 *)
(* (type_checking/visitor.rs).                                             *)
(*                                                                         *)
(* The mapping or the storage vector that an intrinsic is applied to is    *)
(* named in e.f; when it is not given by name it is the first argument.    *)
(* The t of an intrinsic that is not visited yet is the type its name or   *)
(* its type parameter asks for (_bhp256_hash_to_u8, from_bits::[u8]).      *)
(***************************************************************************)
EXTENDS TypeRules

----------------------------------------------------------------------------
(* Where an operation may stand.  AccessScope has three values.            *)

CheckAccessAllowed(c, scope) ==
    LET onChain == IsFinalizeContext(c.variant) \/ c.final
        error == CASE scope = "FinalizeRead" /\ c.onchain -> ""
                   [] c.variant = "View" ->
                        CASE scope = "FinalizeRead" -> ""
                          [] scope = "FinalizeWrite" -> "view_cannot_write_state"
                          [] OTHER -> "offchain_op_in_view"
                   [] scope # "OffchainCaller" /\ ~onChain ->
                        "invalid_operation_outside_finalize"
                   [] scope = "OffchainCaller" /\ onChain ->
                        "invalid_operation_inside_finalize"
                   [] OTHER -> ""
    IN  EmitIf(c, error # "", error)

MappingOps == {"Mapping::get", "Mapping::set", "Mapping::get_or_use",
               "Mapping::remove", "Mapping::contains"}
VectorOps == {"Vector::get", "Vector::set", "Vector::push", "Vector::len",
              "Vector::pop", "Vector::swap_remove", "Vector::clear"}
StorageWrites == {"Mapping::set", "Mapping::remove", "Vector::set", "Vector::push",
                  "Vector::pop", "Vector::swap_remove", "Vector::clear"}
DynamicReads == {"Dynamic::contains", "Dynamic::get", "Dynamic::get_or_use"}

\* Intrinsic::is_finalize_command.
IsFinalizeCommand(n) ==
    \/ n \in MappingOps \cup VectorOps \cup DynamicReads
    \/ n \in {"Final::run", "ChaCha::rand", "ECDSA::digest", "ECDSA::digest_eth",
              "ECDSA::keccak", "ECDSA::keccak_eth", "Program::checksum",
              "Program::edition", "Program::owner", "Function::checksum",
              "Snark::verify", "Snark::verify_batch"}

NumArgs(n) ==
    CASE n \in {"Snark::verify", "Snark::verify_batch"} -> 4
      [] n \in {"Mapping::set", "Mapping::get_or_use", "Vector::set",
                "Signature::verify", "ECDSA::digest", "ECDSA::digest_eth",
                "ECDSA::keccak", "ECDSA::keccak_eth"} -> 3
      [] n \in {"Mapping::get", "Mapping::remove", "Mapping::contains",
                "Vector::get", "Vector::push", "Vector::swap_remove",
                "Optional::unwrap_or", "Commit::bhp", "Commit::ped64",
                "Commit::ped128", "Function::checksum"} -> 2
      [] n \in {"self.address", "self.caller", "self.signer", "self.checksum",
                "self.edition", "self.id", "self.owner", "block.height",
                "block.timestamp", "network.id", "Group::gen", "ChaCha::rand",
                "Aleo::generator", "Aleo::generator_powers"} -> 0
      [] OTHER -> 1

----------------------------------------------------------------------------
(* Mappings and vectors. *)

Receiver(e) == IF e.f = <<>> THEN e.s[1] ELSE Path(e.f[1], NoType)
Arguments(e) == IF e.f = <<>> THEN Tail(e.s) ELSE e.s

\* The container must be one, named, and of this program when it is written.
ContainerOp(c, e, box, kind, t) ==
    LET write == e.n \in StorageWrites
        foreign == e.f # <<>> /\ e.f[1] \in c.p.external
        fine == box.k = kind /\ e.f # <<>> /\ ~(write /\ foreign)
        c1 == CheckAccessAllowed(c, IF write THEN "FinalizeWrite" ELSE "FinalizeRead")
    IN  [c |-> Report(c1, {<<box.k \notin {kind, "err"}, "type_should_be">>,
                           <<e.f = <<>>, "storage_op_requires_path_receiver">>,
                           <<write /\ foreign, "cannot_modify_external_container">>}),
         t |-> IF fine THEN t ELSE ErrType]

CheckMappingOp(c, e, box) ==
    ContainerOp(c, e, box, "mapping",
                CASE box.k # "mapping" -> ErrType
                  [] e.n \in {"Mapping::get", "Mapping::get_or_use"} -> box.s[2]
                  [] e.n = "Mapping::contains" -> Boolean
                  [] OTHER -> UnitType)

\* pop yields an optional, as get does; swap_remove yields the element.
CheckVectorOp(c, e, box, ts) ==
    LET pushed == IF e.n = "Vector::push" /\ box.k = "vector"
                  THEN AssertType(c, ts[1], box.s[1]) ELSE c
    IN  ContainerOp(pushed, e, box, "vector",
                    CASE box.k # "vector" -> ErrType
                      [] e.n \in {"Vector::get", "Vector::pop"} -> OptionalType(box.s[1])
                      [] e.n = "Vector::swap_remove" -> box.s[1]
                      [] e.n = "Vector::len" -> U32
                      [] OTHER -> UnitType)

----------------------------------------------------------------------------
(* Optionals. *)

CheckOptionalOp(c, e, ts) ==
    LET fine == ts[1].k = "optional"
        c1 == AssertKind(c, ts[1], {"optional"})
    IN  [c |-> IF fine /\ e.n = "Optional::unwrap_or"
               THEN AssertType(c1, ts[2], ts[1].s[1]) ELSE c1,
         t |-> IF fine THEN ts[1].s[1] ELSE ErrType]

----------------------------------------------------------------------------
(* Cryptography. *)

NotContainer(c, t) == EmitIf(c, t.k \in {"mapping", "tuple", "unit"}, "type_should_be")
Pedersen64(c, t) == AssertKind(c, t, (IntegerTypes \ {"i64"}) \cup {"bool"})
Pedersen128(c, t) == AssertKind(c, t, IntegerTypes \cup {"bool"})

\* The number of bits of a value, -1 when the type has no fixed one.  What is
\* not raw has a header that gives the type.
LiteralBits(t) ==
    CASE t.k = "bool" -> 1 [] t.k \in {"u8", "i8"} -> 8 [] t.k = "u16" -> 16
      [] t.k = "u32" -> 32 [] t.k = "i64" -> 64
      [] t.k \in {"field", "group", "address"} -> 253 [] t.k = "scalar" -> 251
      [] OTHER -> Unknown
HeaderBits == 26
RECURSIVE SizeInBits(_, _)
SizeInBits(t, raw) ==
    LET el == SizeInBits(t.s[1], raw)
        header == IF raw THEN 0 ELSE HeaderBits
    IN  CASE t.k = "array" /\ (t.l = Unknown \/ el = Unknown) -> Unknown
          [] t.k = "array" /\ t.l # Unknown /\ el # Unknown -> header + t.l * el
          [] OTHER -> IF LiteralBits(t) = Unknown THEN Unknown
                      ELSE header + LiteralBits(t)

Misaligned(t, raw) == LET n == SizeInBits(t, raw) IN n # Unknown /\ n % 8 # 0
BadAlignment(c) == [c |-> Emit(c, "type_should_be"), t |-> ErrType]

CheckCommit(c, e, ts) ==
    LET c1 == CASE e.n = "Commit::ped64" -> Pedersen64(c, ts[1])
                [] e.n = "Commit::ped128" -> Pedersen128(c, ts[1])
                [] OTHER -> NotContainer(c, ts[1])
    IN  [c |-> AssertType(c1, ts[2], Scalar), t |-> e.t]

\* Keccak and SHA3 work on bytes.
CheckHash(c, e, ts) ==
    IF e.n \in {"Hash::keccak", "Hash::keccak_raw"} /\ Misaligned(ts[1], e.n = "Hash::keccak_raw")
    THEN BadAlignment(c)
    ELSE [c |-> CASE e.n = "Hash::ped64" -> Pedersen64(c, ts[1])
                  [] e.n = "Hash::ped128" -> Pedersen128(c, ts[1])
                  [] OTHER -> NotContainer(c, ts[1]),
          t |-> e.t]

\* An array of len bytes; a length that is not known yet will do.
IsByteArray(t, len) == t.k = "array" /\ t.l \in {len, Unknown}
Bytes(c, t) == IF t.k = "array" THEN AssertType(c, t.s[1], U8) ELSE c
EcdsaSignatureSize == 65
EcdsaKeySize == 33
EthAddressSize == 20
PrehashSize == 32

CheckECDSA(c, e, ts) ==
    LET digest == e.n \in {"ECDSA::digest", "ECDSA::digest_eth"}
        eth == e.n \in {"ECDSA::digest_eth", "ECDSA::keccak_eth"}
        shape == /\ IsByteArray(ts[1], EcdsaSignatureSize)
                 /\ IsByteArray(ts[2], IF eth THEN EthAddressSize ELSE EcdsaKeySize)
                 /\ digest => IsByteArray(ts[3], PrehashSize)
    IN  Bind(Bytes(Bytes(c, ts[1]), ts[2]), LAMBDA c1 :
        LET c2 == NotContainer(IF digest THEN Bytes(c1, ts[3]) ELSE c1, ts[3])
        IN  IF ~shape \/ (~digest /\ Misaligned(ts[3], FALSE)) THEN BadAlignment(c2)
            ELSE [c |-> c2, t |-> Boolean])

\* Arrays of depth d with elements of type el.
RECURSIVE HasShape(_, _)
HasShape(t, d) == IF d = 0 THEN t.k # "array" ELSE t.k = "array" /\ HasShape(t.s[1], d - 1)
RECURSIVE BaseElement(_)
BaseElement(t) == IF t.k = "array" THEN BaseElement(t.s[1]) ELSE t
MaxCircuits == 8
MaxInstances == 32

CheckSnark(c, e, ts) ==
    LET batch == e.n = "Snark::verify_batch"
        shape == /\ HasShape(ts[1], IF batch THEN 2 ELSE 1)
                 /\ HasShape(ts[3], IF batch THEN 3 ELSE 1)
                 /\ HasShape(ts[4], 1)
        c1 == CheckAccessAllowed(c, "FinalizeRead")
    IN  Bind(AssertType(AssertType(c1, BaseElement(ts[1]), U8), ts[2], U8), LAMBDA c2 :
        Bind(AssertType(AssertType(c2, BaseElement(ts[3]), Field), BaseElement(ts[4]), U8), LAMBDA c3 :
        LET keys == ts[1].l
            circuits == ts[3].l
            each == ts[3].s[1].l
            c4 == CASE ~batch -> c3
                    [] batch /\ Unknown \in {keys, circuits} -> Emit(c3, "statically_known")
                    [] OTHER ->
                         EmitIf(EmitIf(c3, keys # circuits, "keys_and_circuits"),
                                \/ circuits > MaxCircuits
                                \/ each # Unknown /\ circuits * each > MaxInstances,
                                "array_too_large")
        IN  IF ~shape THEN [c |-> Emit(c2, "type_should_be"), t |-> ErrType]
            ELSE [c |-> c4, t |-> Boolean]))

\* Serialize yields, and Deserialize takes, an array of exactly the value's bits.
CheckSerialize(c, e, ts) ==
    LET from == e.n \in {"Deserialize::from_bits", "Deserialize::from_bits_raw"}
        subject == IF from THEN e.t ELSE ts[1]
    IN  Bind(SizeInBits(subject, e.n \in {"Serialize::to_bits_raw", "Deserialize::from_bits_raw"}), LAMBDA n :
        LET bitArray == ArrayType(Boolean, n)
            literal == BaseElement(subject).k \in IntegerTypes \cup
                         {"bool", "field", "group", "scalar", "signature", "address", "numeric"}
        IN  Bind(CASE ~from /\ ~literal -> TRUE
                   [] n = Unknown -> FALSE
                   [] OTHER -> \/ n > MaxArrayElements
                               \/ n = 0
                               \/ from /\ ~TypesEquivalent(ts[1], bitArray), LAMBDA bad :
            [c |-> EmitIf(c, bad, "type_should_be"),
             t |-> CASE bad -> ErrType
                     [] ~bad /\ from -> subject
                     [] OTHER -> IF n = Unknown THEN ErrType ELSE bitArray]))

----------------------------------------------------------------------------
(* The environment. *)

\* self.caller and self.signer make a function one that only runs off chain.
CheckCaller(c) ==
    LET c1 == CheckAccessAllowed(c, "OffchainCaller")
    IN  [c |-> IF c.function = "" THEN c1 ELSE [c1 EXCEPT !.users = @ \cup {c.function}],
         t |-> Address]

CheckContext(c, e) ==
    [c |-> IF e.n \in {"block.height", "block.timestamp", "network.id", "self.owner"}
           THEN CheckAccessAllowed(c, "FinalizeRead") ELSE c,
     t |-> CASE e.n = "block.height" -> U32
             [] e.n = "block.timestamp" -> I64
             [] e.n \in {"network.id", "self.edition"} -> U16
             [] e.n = "self.checksum" -> ArrayType(U8, 32)
             [] OTHER -> Address]

\* The program is named by a literal, except in a wrapper of the standard
\* library, whose const parameter becomes one.
CheckProgramIdArg(c, arg) ==
    EmitIf(c, arg.k # "Literal" /\ ~c.programIdArg, "must_be_program_id")

CheckProgramMetadata(c, e, es, ts) ==
    LET c1 == CheckProgramIdArg(AssertType(c, ts[1], Address), es[1])
        callee == es[2].f[1]
        callable == \E fn \in Range(c.p.stubs \o c.p.funcs) :
                       fn.n = callee /\ fn.variant \in {"EntryPoint", "View"}
        c2 == IF e.n # "Function::checksum" THEN c1
              ELSE EmitIf(AssertType(c1, ts[2], Identifier),
                          /\ es[1].k = "Literal" /\ es[2].k = "Literal"
                          /\ ~callable, "must_be_entry_or_view")
    IN  [c |-> c2,
         t |-> CASE e.n = "Program::edition" -> U16
                 [] e.n = "Program::owner" -> Address
                 [] OTHER -> ArrayType(U8, 32)]

----------------------------------------------------------------------------
(* visit_intrinsic. *)

\* The checks of check_intrinsic once the arguments are visited.
CheckIntrinsic(c, e, box, es, ts) ==
    CASE e.n \in MappingOps -> CheckMappingOp(c, e, box)
      [] e.n \in VectorOps -> CheckVectorOp(c, e, box, ts)
      [] e.n \in {"Optional::unwrap", "Optional::unwrap_or"} -> CheckOptionalOp(c, e, ts)
      [] e.n \in {"Commit::bhp", "Commit::ped64", "Commit::ped128"} -> CheckCommit(c, e, ts)
      [] e.n \in {"Hash::bhp", "Hash::keccak", "Hash::keccak_raw", "Hash::ped64",
                  "Hash::ped128"} -> CheckHash(c, e, ts)
      [] e.n \in {"ECDSA::digest", "ECDSA::digest_eth", "ECDSA::keccak",
                  "ECDSA::keccak_eth"} -> CheckECDSA(c, e, ts)
      [] e.n \in {"Snark::verify", "Snark::verify_batch"} -> CheckSnark(c, e, ts)
      [] e.n \in {"Serialize::to_bits", "Serialize::to_bits_raw",
                  "Deserialize::from_bits", "Deserialize::from_bits_raw"} ->
            CheckSerialize(c, e, ts)
      [] e.n \in {"self.caller", "self.signer"} -> CheckCaller(c)
      [] e.n \in {"Program::checksum", "Program::edition", "Program::owner",
                  "Function::checksum"} -> CheckProgramMetadata(c, e, es, ts)
      [] e.n \in {"Group::to_x", "Group::to_y"} ->
            [c |-> AssertType(c, ts[1], Group), t |-> Field]
      [] e.n = "Signature::verify" ->
            [c |-> AssertType(AssertType(NotContainer(c, ts[3]), ts[1], Signature),
                              ts[2], Address),
             t |-> Boolean]
      [] e.n = "ChaCha::rand" -> [c |-> c, t |-> e.t]
      [] e.n = "Final::run" -> [c |-> c, t |-> UnitType]
      [] e.n \in {"Group::gen", "Aleo::generator"} -> [c |-> c, t |-> Group]
      [] e.n = "Aleo::generator_powers" -> [c |-> c, t |-> ArrayType(Group, 251)]
      [] OTHER -> CheckContext(c, e)

\* validate_dynamic_call_scope: in an entry point, outside a final block and
\* not in a branch.
ValidateDynamicCallScope(c) ==
    LET c1 == EmitIf(c, c.variant # "EntryPoint" \/ c.final, "dynamic_call_not_allowed_here")
    IN  EmitIf(c1, c.cond, "dynamic_call_in_conditional")

RequireFinalScope(c) ==
    EmitIf(c, ~IsFinalizeContext(c.variant) /\ ~c.final,
           "operation_must_be_in_final_block_or_function")

----------------------------------------------------------------------------
(***************************************************************************)
(* How the type checker treats calls, casts and the construction of        *)
(* structs and records (type_checking/ast.rs): who may call whom, the      *)
(* arguments, and the bookkeeping of calls, futures and finalizers that    *)
(* later passes rely on.                                                   *)
(*                                                                         *)
(* The first e.v sub-expressions of a call or of a composite are its const *)
(* arguments; a composite with a base (..base) has it as the last one.     *)
(***************************************************************************)

AllFunctions(p) == p.stubs \o p.funcs
IsDeclared(p, name) == \E fn \in Range(AllFunctions(p)) : fn.n = name
Declared(p, name) == CHOOSE fn \in Range(AllFunctions(p)) : fn.n = name
IsLocal(p, name) == \E fn \in Range(p.funcs) : fn.n = name

HasFuture(t) == t.k = "future" \/ (IsTuple(t) /\ \E u \in Range(t.s) : u.k = "future")

\* The function's output type with what its future captures filled in.
WithFuture(t, future) ==
    CASE t.k = "future" -> future
      [] IsTuple(t) -> [t EXCEPT !.s = [i \in DOMAIN t.s |->
                           IF t.s[i].k = "future" THEN future ELSE t.s[i]]]
      [] OTHER -> t

----------------------------------------------------------------------------
(* Who may call whom. *)

OnChain(c) == IsFinalizeContext(c.variant) \/ c.final
OutsideFinal(c) == c.variant \notin {"FinalFn", "View"} /\ ~OnChain(c)

MayCall(c, fn) ==
    CASE c.variant = "Finalize" /\ c.ctor -> fn.variant \in {"Fn", "FinalFn"}
      [] c.variant = "Finalize" /\ ~c.ctor -> fn.variant \in {"Fn", "FinalFn", "View"}
      [] c.variant \in {"Fn", "View"} -> fn.variant = "Fn"
      [] c.variant = "FinalFn" -> fn.variant \in {"Fn", "FinalFn", "View"}
      [] OTHER -> /\ ~(fn.variant = "EntryPoint" /\ IsLocal(c.p, fn.n))
                  /\ fn.variant \in {"View", "FinalFn"} => c.final

\* What is called on chain must not need the caller of a transition.  That is
\* known only when every function was visited.
CallRules(c, fn) ==
    LET c1 == EmitIf(c, ~MayCall(c, fn), "can_only_call_inline_function")
        c2 == IF fn.variant = "Fn" /\ (OnChain(c) \/ c.variant = "View")
              THEN [c1 EXCEPT !.pending = @ \cup {fn.n}] ELSE c1
    IN  EmitIf(c2, /\ "_onchain_context" \in fn.marks
                   /\ ~OnChain(c) /\ c.variant # "View",
               "invalid_operation_outside_onchain")

\* Wrappers of the standard library that are given a program.
CheckProgramArgs(c, fn, e) ==
    LET consts == SubSeq(e.s, 1, e.v)
        named == /\ "_program_id_arg" \in fn.marks /\ consts # <<>>
                 /\ consts[1].k = "Literal"
        component == consts[2].f[1]
        callable == /\ IsDeclared(c.p, component)
                    /\ Declared(c.p, component).variant \in {"EntryPoint", "View"}
        c1 == EmitIf(c, named /\ consts[1].t # Address, "must_be_called_on_program_id")
    IN  EmitIf(c1, /\ named /\ consts[1].t = Address
                   /\ "_callable_function_arg" \in fn.marks
                   /\ Len(consts) >= 2 /\ consts[2].k = "Literal" /\ ~callable,
               "must_be_entry_or_view")

----------------------------------------------------------------------------
(* Arguments.  A finalizer consumes the futures it is given. *)

FutureNamed(e) ==
    CASE IsPath(e) -> e.n
      [] e.k = "TupleAccess" /\ IsPath(e.s[1]) -> e.s[1].n
      [] OTHER -> ""

ConsumeFuture(acc, arg, t) ==
    LET name == FutureNamed(arg)
        left == acc.c.futures
        c2 == CASE name = "" -> acc.c
                [] name \in DOMAIN left ->
                     [acc.c EXCEPT !.callLoc = left[name],
                                   !.futures = [f \in DOMAIN left \ {name} |-> left[f]]]
                [] OTHER -> Emit(acc.c, "unknown_final_consumed")
        fits == arg.k \in {"Path", "Call", "TupleAccess"} /\ c2.callLoc # ""
    IN  IF fits THEN [acc EXCEPT !.c = c2, !.inferred = Append(@, t)]
        ELSE [acc EXCEPT !.c = Emit(c2, "unknown_final_consumed")]

CallerName(c) == IF c.ctor THEN "constructor" ELSE c.function

\* The call count and the call graph.
CountCall(c, fn) ==
    [c EXCEPT !.counts[fn.n] = @ + 1,
              !.calls = @ \cup {<<CallerName(c), fn.n>>}]

\* Calls of other programs' transitions come before what is finalized.
CheckEntryCall(c, fn) ==
    IF fn.variant = "EntryPoint" /\ c.variant = "EntryPoint"
    THEN EmitIf(EmitIf(c, c.calledFinalize, "PANIC"),
                c.seenFinal, "external_call_after_final")
    ELSE c

\* The call of the finalizer that a final block has become.
CheckFinalizeCall(c, fn, inferred) ==
    LET misplaced == c.cond \/ c.variant # "EntryPoint" \/ c.calledFinalize \/ c.seenFinal
        c1 == EmitIf(EmitIf(c, misplaced, "PANIC"), DOMAIN c.futures # {},
                     "not_all_finals_consumed")
    IN  IF fn.variant # "Finalize" THEN c
        ELSE [c1 EXCEPT !.finalizers = (c.function :> inferred) @@ @,
                        !.callers = (fn.n :> ((IF fn.n \in DOMAIN @ THEN @[fn.n] ELSE {})
                                              \cup {c.function})) @@ @,
                        !.calledFinalize = TRUE,
                        !.finals = (c.function :> inferred) @@ @]

ReturnOf(c, fn) ==
    CASE fn.variant = "Finalize" -> FutureType(<<>>)
      [] fn.variant = "EntryPoint" /\ HasFuture(fn.out) ->
           WithFuture(fn.out, FutureType(c.finals[fn.n]))
      [] OTHER -> fn.out

\* The checks before the arguments are visited, and those after.
BeforeArguments(c, fn, e, x) ==
    Bind(CheckProgramArgs(CallRules(c, fn), fn, e), LAMBDA c1 :
    LET c2 == IF fn.variant = "Finalize" THEN c1 ELSE AssertAndReturnType(c1, ReturnOf(c, fn), x)
    IN  Report(c2, {<<Len(e.s) - e.v # Len(fn.ins), "incorrect_num_args_to_call">>,
                    <<e.v # Len(fn.consts), "incorrect_num_const_args">>}))

AfterArguments(c, args, fn, e, es, x) ==
    LET c1 == CheckFinalizeCall(CheckEntryCall(CountCall(args.c, fn), fn), fn, args.inferred)
        t == IF fn.variant = "Finalize" THEN FutureType(args.inferred) ELSE ReturnOf(c, fn)
        c2 == IF fn.variant = "Finalize" THEN AssertAndReturnType(c1, t, x) ELSE c1
    IN  IF args.err THEN Typed(args.c, e, es, ErrType)
        ELSE Typed([c2 EXCEPT !.callLoc = fn.n], e, es, t)

----------------------------------------------------------------------------
(* visit_cast. *)

Castable == IntegerTypes \cup {"bool", "field", "group", "scalar", "address", "identifier"}

----------------------------------------------------------------------------
(* visit_composite_init. *)

\* Records are made by transitions of their own program.
CheckRecordInit(c, name) ==
    LET c1 == EmitIf(c, name \in c.p.external, "cannot_instantiate_external_record")
    IN  EmitIf(c1, OnChain(c), "records_not_allowed_inside_final")

\* A const argument, as a part of a type: a number or the name of a constant.
ConstArg(e) == IF e.k = "Literal" THEN [Type("const") EXCEPT !.l = e.v]
               ELSE [Type("const") EXCEPT !.l = Unknown, !.n = e.n]
=============================================================================
