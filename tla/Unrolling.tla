----------------------------- MODULE Unrolling ------------------------------
(***************************************************************************)
(* passes/src/loop_unrolling: an iteration whose bounds are literals       *)
(* becomes a block with one copy of its body per value.  The visitor is    *)
(* [unrolled, left, bad]: whether a loop was unrolled, whether one was not *)
(* and whether the pass panicked.                                          *)
(***************************************************************************)
EXTENDS LeoArithmetic

RECURSIVE UnrollBlock(_, _)

\* unroll_single_iteration: the block binds the loop variable to a literal.
UnrollSingleIteration(z, s, i) ==
    Bind(UnrollBlock(z, s.b[1]), LAMBDA body :
    [z |-> body.z,
     s |-> [Block(<<Block(body.ss)>>) EXCEPT
              !.ns = s.ns, !.e = <<Literal(i, s.e[1].t)>>]])

\* unroll_iteration_statement, for the values from lo to hi.
UnrollIterationStatement(z, s, lo, hi) ==
    Bind(Thread(LAMBDA acc, k :
                  Bind(UnrollSingleIteration(acc.z, s, lo + k - 1), LAMBDA g :
                  [z |-> g.z, ss |-> Append(acc.ss, g.s)]),
                [z |-> z, ss |-> <<>>], [k \in 1 .. hi - lo + 1 |-> k]), LAMBDA r :
    [z |-> r.z, s |-> Block(r.ss)])

\* reconstruct_iteration.
UnrollIteration(z, s) ==
    LET lo == s.e[1].v
        hi == IF s.n = "inclusive" THEN s.e[2].v ELSE s.e[2].v - 1
    IN  IF s.e[1].k # "Literal" \/ s.e[2].k # "Literal"
        THEN [z |-> [z EXCEPT !.left = TRUE], s |-> s]
        ELSE IF ~IsInteger(s.e[1].t) \/ s.e[1].t # s.e[2].t
        THEN [z |-> [z EXCEPT !.bad = TRUE], s |-> s]
        ELSE IF lo > hi THEN [z |-> [z EXCEPT !.unrolled = TRUE], s |-> Block(<<>>)]
        ELSE UnrollIterationStatement([z EXCEPT !.unrolled = TRUE], s, lo, hi)

UnrollStatement(z, s) ==
    Bind(Thread(LAMBDA acc, b :
                  Bind(UnrollBlock(acc.z, b), LAMBDA r :
                  [z |-> r.z, b |-> Append(acc.b, r.ss)]),
                [z |-> z, b |-> <<>>], s.b), LAMBDA bs :
    IF s.k = "Iteration" THEN UnrollIteration(z, s)
    ELSE [z |-> bs.z, s |-> [s EXCEPT !.b = bs.b]])

UnrollBlock(z, ss) ==
    Thread(LAMBDA acc, s :
             Bind(UnrollStatement(acc.z, s), LAMBDA r :
             [z |-> r.z, ss |-> Append(acc.ss, r.s)]),
           [z |-> z, ss |-> <<>>], ss)

\* do_pass.
UnrollProgram(u) ==
    Bind(Thread(LAMBDA acc, fn :
                  Bind(UnrollBlock(acc.z, fn.body), LAMBDA b :
                  [z |-> b.z, fs |-> Append(acc.fs, [fn EXCEPT !.body = b.ss])]),
                [z |-> [unrolled |-> FALSE, left |-> FALSE, bad |-> u.bad],
                 fs |-> <<>>], u.p.funcs), LAMBDA r :
    [u |-> [u EXCEPT !.p.funcs = r.fs, !.bad = r.z.bad],
     changed |-> r.z.unrolled, left |-> IF r.z.left THEN {"loop"} ELSE {}])
=============================================================================
