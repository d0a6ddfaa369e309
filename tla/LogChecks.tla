------------------------------ MODULE LogChecks ------------------------------
(***************************************************************************)
(* The two checks of the log files of one simulation: the UVM log          *)
(* (check_ibex_uvm_log) and, before it, the trace of the core              *)
(* (process_ibex_sim_log).  A log is a sequence of lines, told apart by the *)
(* words the check looks for.                                              *)
(***************************************************************************)
EXTENDS Naturals, Sequences, SequencesExt

\* "wall" is an error line that reports the wall-clock timeout; "passed" and
\* "failed" are the result lines of the test.
Line      == {"text", "error", "wall", "passed", "failed"}
ErrorLine == {"error", "wall"}

\* The variables of the loop of check_ibex_uvm_log; over is its break.
Reader == [seen: BOOLEAN, passed: BOOLEAN, failed: BOOLEAN, over: BOOLEAN,
           error_line: ErrorLine \cup {"None"}]

\* Mutant: errors after the result count as well.
ReadLine_NoResult(r, line) ==
    CASE r.over -> r
      [] ~r.over /\ line \in ErrorLine -> [r EXCEPT !.failed = TRUE, !.error_line = line]
      [] ~r.over /\ line = "passed" -> [r EXCEPT !.seen = TRUE, !.passed = TRUE]
      [] ~r.over /\ line = "failed" ->
            [r EXCEPT !.seen = TRUE, !.failed = TRUE, !.over = TRUE]
      [] OTHER -> r

ReadLine(r, line) ==
    CASE r.over -> r
      [] ~r.over /\ line \in ErrorLine /\ ~r.seen ->
            [r EXCEPT !.failed = TRUE, !.error_line = line]
      [] ~r.over /\ line = "passed" -> [r EXCEPT !.seen = TRUE, !.passed = TRUE]
      [] ~r.over /\ line = "failed" ->
            [r EXCEPT !.seen = TRUE, !.failed = TRUE, !.over = TRUE]
      [] OTHER -> r

StartReading == [seen |-> FALSE, passed |-> FALSE, failed |-> FALSE, over |-> FALSE,
                 error_line |-> "None"]

\* The searched line is the last error line before the result.  After a FAILED line
\* without one there is none to search: TypeError, and the script ends with no verdict.
check_ibex_uvm_log(lines) ==
    LET r == FoldLeft(ReadLine, StartReading, lines) IN
    [passed  |-> r.passed /\ ~r.failed,
     mode    |-> CASE ~r.failed -> "NONE"
                   [] r.failed /\ r.error_line = "wall" -> "TIMEOUT"
                   [] OTHER -> "LOG_ERROR",
     crashed |-> r.failed /\ r.error_line = "None"]

\* The trace of the core, a sequence of "instr", "ecall" and other lines, is read up
\* to the first ecall; without an instruction before it the check raises RuntimeError.
process_ibex_sim_log(trace) ==
    \E i \in DOMAIN trace : trace[i] = "instr" /\ \A j \in 1..(i - 1) : trace[j] # "ecall"

\* Mutant: a log that names no failure passes, also without a result.
compare_test_run_ByMode(trr, log) ==
    LET uvm == check_ibex_uvm_log(log.lines) IN
    CASE trr.mode = "TIMEOUT" -> [trr EXCEPT !.passed = "False"]
      [] trr.mode # "TIMEOUT" /\ ~process_ibex_sim_log(log.trace) ->
            [trr EXCEPT !.passed = "False", !.mode = "FILE_ERROR"]
      [] trr.mode # "TIMEOUT" /\ process_ibex_sim_log(log.trace) /\ uvm.mode # "NONE" ->
            [trr EXCEPT !.mode = uvm.mode]
      [] OTHER -> [trr EXCEPT !.passed = "True"]

(***************************************************************************)
(* compare_test_run: what check_logs does to the result of a test, given   *)
(* the log, a record of the lines of rtl_sim.log and of the trace.  The    *)
(* result keeps a verdict that nothing overwrites.                         *)
(***************************************************************************)
compare_test_run(trr, log) ==
    LET uvm == check_ibex_uvm_log(log.lines) IN
    CASE trr.mode = "TIMEOUT" -> [trr EXCEPT !.passed = "False"]
      [] trr.mode # "TIMEOUT" /\ ~process_ibex_sim_log(log.trace) ->
            [trr EXCEPT !.passed = "False", !.mode = "FILE_ERROR"]
      [] trr.mode # "TIMEOUT" /\ process_ibex_sim_log(log.trace) /\ ~uvm.passed ->
            [trr EXCEPT !.mode = uvm.mode]
      [] OTHER -> [trr EXCEPT !.passed = "True"]

check_crashes(trr, log) ==
    trr.mode # "TIMEOUT" /\ process_ibex_sim_log(log.trace) /\ check_ibex_uvm_log(log.lines).crashed

-----------------------------------------------------------------------------
(* What the docstring of check_ibex_uvm_log says, without the loop.        *)
Results(lines) == {i \in DOMAIN lines : lines[i] \in {"passed", "failed"}}
EarlyErrors(lines) ==
    {i \in DOMAIN lines : lines[i] \in ErrorLine /\ \A j \in Results(lines) : i < j}
Fails(lines)  == {i \in DOMAIN lines : lines[i] = "failed"}
Passes(lines) == {i \in DOMAIN lines : lines[i] = "passed"}

\* check_ibex_uvm_log, when it returns: a log passes iff it says so, names no error
\* before its result and never says FAILED, not even after PASSED; a timeout is
\* reported iff the last error is one.  It returns unless the log says FAILED with no
\* error before its result.  There the docstring ("reports failure if an explicit
\* error or failure is seen in the log") is not kept: FailuresGathered of RegressionFlow
\* is what it means for a regression.
VerdictOf(lines) ==
    LET v == check_ibex_uvm_log(lines) IN
    /\ ~v.crashed =>
          /\ v.passed <=> Passes(lines) # {} /\ Fails(lines) = {} /\ EarlyErrors(lines) = {}
          /\ v.mode = "TIMEOUT" <=>
                \E i \in EarlyErrors(lines) :
                    lines[i] = "wall" /\ \A j \in EarlyErrors(lines) : j <= i
    /\ Fails(lines) = {} \/ EarlyErrors(lines) # {} => ~v.crashed
=============================================================================
