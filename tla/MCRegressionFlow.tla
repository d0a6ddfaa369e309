--------------------------- MODULE MCRegressionFlow ---------------------------
(***************************************************************************)
(* Instances of RegressionFlow for TLC.                                    *)
(***************************************************************************)
EXTENDS RegressionFlow

Leaves(lines) ==
    [log |-> [lines |-> lines, trace |-> <<"instr", "ecall">>], written |-> TRUE, killed |-> FALSE]

\* A simulation passes; reports an error before its result; runs into the timeout of
\* the test; fails without a word; ends without a result, or is killed; reports success
\* without having run an instruction; or is never started.
SomeOutcomes ==
    {Leaves(<<"text", "passed">>), Leaves(<<"error", "passed">>), Leaves(<<"wall", "failed">>),
     Leaves(<<"failed">>), Leaves(<<"text">>), [Leaves(<<"text">>) EXCEPT !.killed = TRUE],
     [Leaves(<<"text", "passed">>) EXCEPT !.log.trace = <<"ecall", "instr">>],
     [log |-> NoLog, written |-> FALSE, killed |-> FALSE]}

\* "make" and "make GOAL=..." for one test.
SomeGoals == {Regr} \cup {Trr(t) : t \in Riscvdv}
=============================================================================
