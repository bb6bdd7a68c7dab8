--------------------------- MODULE ProcessingAsync ---------------------------
(***************************************************************************)
(* passes/src/processing_async: a final block becomes a finalize function  *)
(* of what it captures, and a call of it                                   *)
(* (common/block_to_function_rewriter.rs, symbol_access_collector.rs).     *)
(***************************************************************************)
EXTENDS LeoAst, SequencesExt

CONSTANT MaxInputs    \* the network's limit on the inputs of a function

\* The whole of a variable is captured, not one element of a tuple.
Whole == -1
Access(x, i, t) == [n |-> x, i |-> i, t |-> t]

----------------------------------------------------------------------------
(* SymbolAccessCollector: the variables that a block mentions, in order.   *)

Joined(seqs) == FlattenSeq(seqs)

RECURSIVE AccessesIn(_)
AccessesIn(e) ==
    LET x == e.s[1]
    IN  CASE e.k = "Path" -> <<Access(e.n, Whole, e.t)>>
          [] e.k = "TupleAccess" /\ x.k = "Path" ->
               <<Access(x.n, IF x.t.k = "future" THEN Whole ELSE e.v, x.t)>>
          [] OTHER -> Joined([i \in DOMAIN e.s |-> AccessesIn(e.s[i])])

RECURSIVE BlockAccesses(_)
BlockAccesses(ss) ==
    Joined([i \in DOMAIN ss |->
              Joined([j \in DOMAIN ss[i].e |-> AccessesIn(ss[i].e[j])])
              \o Joined([j \in DOMAIN ss[i].b |-> BlockAccesses(ss[i].b[j])])])

\* The names that a block and its inner blocks define.
RECURSIVE LocalTo(_)
LocalTo(ss) ==
    UNION {Range(ss[i].ns) \cup UNION {LocalTo(ss[i].b[j]) : j \in DOMAIN ss[i].b} :
             i \in DOMAIN ss}

----------------------------------------------------------------------------
(* BlockToFunctionRewriter. *)

\* The inputs that one access needs: a tuple is captured element by element.
Needed(a) ==
    CASE a.i # Whole /\ IsTuple(a.t) /\ a.i < Len(a.t.s) -> <<a>>
      [] a.i = Whole /\ IsTuple(a.t) ->
           [k \in DOMAIN a.t.s |-> Access(a.n, k - 1, a.t)]
      [] a.i = Whole /\ ~IsTuple(a.t) -> <<a>>
      [] OTHER -> <<>>

\* make_inputs_and_arguments for all accesses: each input once.
Captures(p, body) ==
    LET own == LocalTo(body)
        outer == SelectSeq(BlockAccesses(body),
                           LAMBDA a : a.n \notin own /\ a.n \notin DOMAIN p.globals)
    IN  Thread(LAMBDA acc, a : acc \o SelectSeq(Needed(a), LAMBDA b : b \notin ToSet(acc)),
               <<>>, outer)

InputName(a) == IF a.i = Whole THEN a.n ELSE a.n \o "." \o ToString(a.i)
InputType(a) == IF a.i = Whole THEN a.t ELSE a.t.s[a.i + 1]
InputPath(a) == Path(InputName(a), InputType(a))
Argument(a) ==
    IF a.i = Whole THEN Path(a.n, a.t)
    ELSE TupleAccess(Path(a.n, a.t), a.i, InputType(a))

\* replace_expr.
RECURSIVE Replaced(_, _)
Replaced(names, e) ==
    LET x == e.s[1]
    IN  CASE e.k = "Path" /\ e.n \in names /\ IsTuple(e.t) ->
               Tuple([k \in DOMAIN e.t.s |-> InputPath(Access(e.n, k - 1, e.t))], e.t)
          [] e.k = "TupleAccess" /\ x.k = "Path" /\ x.n \in names /\ IsTuple(x.t) ->
               [InputPath(Access(x.n, e.v, x.t)) EXCEPT !.t = e.t]
          [] OTHER -> [e EXCEPT !.s = [i \in DOMAIN @ |-> Replaced(names, @[i])]]

RECURSIVE ReplacedBlock(_, _)
ReplacedBlock(names, ss) ==
    [i \in DOMAIN ss |->
       [ss[i] EXCEPT !.e = [j \in DOMAIN @ |-> Replaced(names, @[j])],
                     !.b = [j \in DOMAIN @ |-> ReplacedBlock(names, @[j])]]]

\* rewrite_block: the function and the call of it.
RewriteBlock(p, body, name) ==
    Bind(Captures(p, body), LAMBDA inputs :
    LET names == {inputs[i].n : i \in DOMAIN inputs}
    IN  [fn |-> Function(name, "Finalize",
                  [i \in DOMAIN inputs |-> Param(InputName(inputs[i]), InputType(inputs[i]))],
                  UnitType, ReplacedBlock(names, body)),
         call |-> Call(name, [i \in DOMAIN inputs |-> Argument(inputs[i])], FutureType(<<>>))])

----------------------------------------------------------------------------
(* The visitor, [p, fn, c, new, err]: the current function, the counter of *)
(* the assigner and the functions made so far.                             *)

ReconstructAsync(z, e) ==
    Bind(RewriteBlock(z.p, e.b, UniqueSymbol(z.fn, "$", z.c)), LAMBDA r :
    [z |-> [z EXCEPT !.c = @ + 1, !.new = Append(@, r.fn),
                     !.err = @ \/ Len(r.fn.ins) > MaxInputs],
     e |-> r.call])

RECURSIVE AsyncExpr(_, _)
AsyncExprs(z, es) ==
    Thread(LAMBDA acc, e : Bind(AsyncExpr(acc.z, e), LAMBDA r :
                           [z |-> r.z, e |-> Append(acc.e, r.e)]),
           [z |-> z, e |-> <<>>], es)
AsyncExpr(z, e) ==
    Bind(AsyncExprs(z, e.s), LAMBDA r :
    IF e.k = "Async" THEN ReconstructAsync(z, e)
    ELSE [z |-> r.z, e |-> [e EXCEPT !.s = r.e]])

RECURSIVE AsyncBlock(_, _)
AsyncBlock(z, ss) ==
    LET Inner(acc, b) == Bind(AsyncBlock(acc.z, b), LAMBDA r :
                         [z |-> r.z, b |-> Append(acc.b, r.b)])
        One(acc, s) == Bind(AsyncExprs(acc.z, s.e), LAMBDA es :
                       Bind(Thread(Inner, [z |-> es.z, b |-> <<>>], s.b), LAMBDA bs :
                       [z |-> bs.z, b |-> Append(acc.b, [s EXCEPT !.e = es.e, !.b = bs.b])]))
    IN  Thread(One, [z |-> z, b |-> <<>>], ss)

\* reconstruct_program_scope and do_pass: the new functions come after the
\* others, the constructor is not visited.
AsyncProgram(u) ==
    LET One(acc, fn) == Bind(AsyncBlock([acc.z EXCEPT !.fn = fn.n], fn.body), LAMBDA r :
                        IF fn.variant = "Constructor" THEN acc
                        ELSE [z |-> r.z, fs |-> Append(acc.fs, [fn EXCEPT !.body = r.b])])
    IN  Bind(Thread(One, [z |-> [p |-> u.p, fn |-> "", c |-> u.c, new |-> <<>>, err |-> FALSE],
                          fs |-> <<>>], u.p.funcs), LAMBDA r :
        [u |-> [u EXCEPT !.p.funcs = r.fs \o r.z.new \o SelectSeq(@,
                            LAMBDA fn : fn.variant = "Constructor"),
                         !.c = r.z.c, !.err = @ \/ r.z.err],
         changed |-> r.z.new # <<>>])
=============================================================================
