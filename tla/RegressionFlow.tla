--------------------------- MODULE RegressionFlow ---------------------------
(***************************************************************************)
(* A regression in one output directory: make runs the scripts in the      *)
(* order of their prerequisites, as many at a time as it likes, and stops  *)
(* when one fails.  The developer interrupts it, edits sources, and runs   *)
(* it again: the metadata and the results of the tests stay.               *)
(*                                                                         *)
(* make compares times of files.  Here newer holds the pairs <<p, x>> in   *)
(* which p is a prerequisite of x and was written after x.                 *)
(***************************************************************************)
EXTENDS LogChecks, FiniteSets

CONSTANTS
    Riscvdv, Directed,  \* the tests (TEST.SEED) of the two kinds
    Goals,              \* the targets make is asked for
    Outcomes,           \* what a simulation may leave: see run_rtl_end
    MaxMakes, MaxEdits  \* bounds on the calls of make and on the edits

Test == Riscvdv \cup Directed

Rtl     == <<"rtl">>        \* sources of the design and the testbench, and of the
Gen     == <<"gen">>        \* program generator
Tb      == <<"tb">>         \* tb.compile.stamp
Ig      == <<"ig">>         \* instr.gen.build.stamp
Asm(t)  == <<"asm", t>>     \* test.S
Bin(t)  == <<"bin", t>>     \* test.bin
Log(t)  == <<"log", t>>     \* rtl_sim.log
Trr(t)  == <<"trr", t>>     \* trr.yaml
Cov     == <<"cov">>        \* fcov.stamp and merge.cov.stamp
Regr    == <<"regr">>       \* regr.log.stamp

Asms == {Asm(t) : t \in Riscvdv}
Bins == {Bin(t) : t \in Test}
Logs == {Log(t) : t \in Test}
Trrs == {Trr(t) : t \in Test}
Target == {Tb, Ig, Cov, Regr} \cup Asms \cup Bins \cup Logs \cup Trrs

\* Mutant: a log does not depend on the testbench.
PrereqsOf_NoTb(x) ==
    CASE x = Tb      -> {Rtl}
      [] x = Ig      -> {Gen}
      [] x \in Asms  -> {Ig}
      [] x \in Bins  -> {Asm(x[2])} \cap Asms
      [] x \in Logs  -> {Bin(x[2])}
      [] x \in Trrs  -> {Log(x[2])}
      [] x = Cov     -> Trrs
      [] x = Regr    -> Trrs \cup {Cov}

PrereqsOf(x) ==
    CASE x = Tb      -> {Rtl}
      [] x = Ig      -> {Gen}
      [] x \in Asms  -> {Ig}
      [] x \in Bins  -> {Asm(x[2])} \cap Asms
      [] x \in Logs  -> {Tb, Bin(x[2])}
      [] x \in Trrs  -> {Log(x[2])}
      [] x = Cov     -> Trrs
      [] x = Regr    -> Trrs \cup {Cov}

Prereqs == [x \in Target |-> PrereqsOf(x)]

\* Everything a target is made from, directly or not: at most six steps away.
WithPrereqs(S) == S \cup UNION {Prereqs[y] : y \in S \cap Target}
Ancestors == [x \in Target |->
    WithPrereqs(WithPrereqs(WithPrereqs(WithPrereqs(WithPrereqs(WithPrereqs({x})))))) \ {x}]

VARIABLES
    exists, newer,      \* the files of the output directory and their times
    make,               \* "off", "on", or "stopping": a recipe failed
    goal, outdated,     \* the target asked for; what was out of date at the start
    recipes, ran,       \* recipes running and run in this call of make
    remade,             \* targets whose file they changed
    trr,                \* the pickled result of each test
    log,                \* what rtl_sim.log and the trace of a test contain
    sources, tb,         \* the version of the sources, and the one in the testbench
    logtb,              \* the version a log is of
    sims,               \* how many simulations of a test began
    unwritten,          \* tests whose last simulation left no log
    summary,            \* the results in regr.log
    makes

file_vars == <<exists, newer>>
make_vars == <<make, goal, outdated, recipes, ran, remade>>
flow_vars == <<file_vars, make_vars, trr, log, sources, tb, logtb, sims, unwritten, summary, makes>>

NoLog == [lines |-> <<>>, trace |-> <<>>]

\* The state create_metadata leaves: every result is exported, then the metadata.
\* A later "make run" finds the metadata and keeps all of it.
FlowInit ==
    /\ exists = Trrs /\ newer = {}
    /\ make = "off" /\ goal = Regr /\ outdated = {}
    /\ recipes = {} /\ ran = {} /\ remade = {}
    /\ trr = [t \in Test |-> [passed |-> "None", mode |-> "NONE"]]
    /\ log = [t \in Test |-> NoLog]
    /\ sources = 0 /\ tb = 0
    /\ logtb = [t \in Test |-> 0] /\ sims = [t \in Test |-> 0]
    /\ unwritten = {} /\ summary = <<>> /\ makes = 0

\* Files are written one after the other: each is newer than those before it.
AfterWrite(n, x) ==
    {e \in n : e[2] # x} \cup {<<x, y>> : y \in {z \in Target : x \in Prereqs[z]}}
Write(x) ==
    /\ exists' = exists \cup {x}
    /\ newer' = AfterWrite(newer, x)

-----------------------------------------------------------------------------
(* make                                                                    *)
Needed    == (Ancestors[goal] \cup {goal}) \cap Target
MustMake(x) == x \in outdated \/ Prereqs[x] \cap remade # {}
Pending   == {x \in Needed \ ran : MustMake(x)}
Startable == {x \in Pending \ recipes : Ancestors[x] \cap Pending = {}}

\* make has nothing left to do: it reports success.
Finished  == make = "on" /\ Pending = {}

Make(g) ==
    /\ make = "off" /\ makes < MaxMakes
    /\ make' = "on" /\ goal' = g /\ makes' = makes + 1
    /\ outdated' = {x \in Target : x \notin exists \/ \E p \in Prereqs[x] : <<p, x>> \in newer}
    /\ recipes' = {} /\ ran' = {} /\ remade' = {}
    /\ UNCHANGED <<file_vars, trr, log, sources, tb, logtb, sims, unwritten, summary>>

\* Nothing is left to make, or the running recipes of a failed call have ended.
MakeEnds ==
    /\ Finished \/ (make = "stopping" /\ recipes = {})
    /\ make' = "off" /\ recipes' = {} /\ ran' = {} /\ remade' = {} /\ outdated' = {}
    /\ UNCHANGED <<file_vars, goal, trr, log, sources, tb, logtb, sims, unwritten, summary, makes>>

Starts(x) ==
    /\ make = "on" /\ x \in Startable
    /\ recipes' = recipes \cup {x}
    /\ UNCHANGED <<make, goal, outdated, ran, remade, makes>>
Ends(x, changed) ==
    /\ x \in recipes
    /\ recipes' = recipes \ {x} /\ ran' = ran \cup {x}
    /\ remade' = IF changed THEN remade \cup {x} ELSE remade
    /\ UNCHANGED <<make, goal, outdated, makes>>
\* A recipe that ends with an error stops make; its target is as it was.
Stops(x) ==
    /\ x \in recipes
    /\ recipes' = recipes \ {x} /\ make' = "stopping"
    /\ UNCHANGED <<file_vars, goal, outdated, ran, remade, log, sources, tb, logtb, sims,
                   unwritten, makes>>

-----------------------------------------------------------------------------
(* The scripts                                                             *)
compile_tb ==
    \/ /\ Starts(Tb)
       /\ UNCHANGED <<file_vars, trr, log, sources, tb, logtb, sims, unwritten, summary>>
    \/ /\ Ends(Tb, TRUE) /\ Write(Tb) /\ tb' = sources
       /\ UNCHANGED <<trr, log, sources, logtb, sims, unwritten, summary>>
    \/ Stops(Tb) /\ UNCHANGED <<trr, summary>>

\* render_config_template and build_instr_gen, and the coverage scripts.
BuildStep(x) ==
    \/ /\ Starts(x)
       /\ UNCHANGED <<file_vars, trr, log, sources, tb, logtb, sims, unwritten, summary>>
    \/ /\ Ends(x, TRUE) /\ Write(x)
       /\ UNCHANGED <<trr, log, sources, tb, logtb, sims, unwritten, summary>>
    \/ Stops(x) /\ UNCHANGED <<trr, summary>>

\* Returns 0 also when the generator failed; then no test.S is copied.
run_instr_gen(t) ==
    \/ /\ Starts(Asm(t))
       /\ UNCHANGED <<file_vars, trr, log, sources, tb, logtb, sims, unwritten, summary>>
    \/ \E generated \in BOOLEAN :
       /\ Ends(Asm(t), generated \/ Asm(t) \notin exists)
       /\ exists' = IF generated THEN exists \cup {Asm(t)} ELSE exists
       /\ newer' = AfterWrite(IF generated THEN AfterWrite(newer, Asm(t)) ELSE newer, Trr(t))
       /\ UNCHANGED <<trr, log, sources, tb, logtb, sims, unwritten, summary>>
    \/ Stops(Asm(t)) /\ UNCHANGED <<trr, summary>>

\* Exports the result before it runs the compiler.
compile_test(t) ==
    \/ /\ Starts(Bin(t)) /\ Write(Trr(t))
       /\ UNCHANGED <<trr, log, sources, tb, logtb, sims, unwritten, summary>>
    \/ /\ t \in Riscvdv => Asm(t) \in exists
       /\ Ends(Bin(t), TRUE) /\ Write(Bin(t))
       /\ UNCHANGED <<trr, log, sources, tb, logtb, sims, unwritten, summary>>
    \/ Stops(Bin(t)) /\ UNCHANGED <<trr, summary>>

\* Exports the result, runs the simulator, and exports the result again.
run_rtl_begin(t) ==
    /\ Starts(Log(t)) /\ Write(Trr(t))
    /\ sims' = [sims EXCEPT ![t] = @ + 1]
    /\ UNCHANGED <<trr, log, sources, tb, logtb, unwritten, summary>>

\* written: the simulator was started and wrote rtl_sim.log; killed: it did not end
\* within run_rtl_timeout_s + 60 seconds.  The return code is not looked at.
run_rtl_end(t, o) ==
    /\ Ends(Log(t), o.written \/ Log(t) \notin exists)
    /\ exists' = IF o.written THEN exists \cup {Log(t)} ELSE exists
    /\ newer' = AfterWrite(IF o.written THEN AfterWrite(newer, Log(t)) ELSE newer, Trr(t))
    /\ trr' = [trr EXCEPT ![t].mode = IF o.killed THEN "TIMEOUT" ELSE @]
    /\ log' = [log EXCEPT ![t] = IF o.written THEN o.log ELSE @]
    /\ logtb' = [logtb EXCEPT ![t] = IF o.written THEN tb ELSE @]
    /\ unwritten' = IF o.written THEN unwritten \ {t} ELSE unwritten \cup {t}
    /\ UNCHANGED <<sources, tb, sims, summary>>

check_logs(t) ==
    \/ /\ Starts(Trr(t))
       /\ UNCHANGED <<file_vars, trr, log, sources, tb, logtb, sims, unwritten, summary>>
    \/ /\ ~check_crashes(trr[t], log[t])
       /\ Ends(Trr(t), TRUE) /\ Write(Trr(t))
       /\ trr' = [trr EXCEPT ![t] = compare_test_run(@, log[t])]
       /\ UNCHANGED <<log, sources, tb, logtb, sims, unwritten, summary>>
    \/ /\ check_crashes(trr[t], log[t])
       /\ Stops(Trr(t)) /\ UNCHANGED <<trr, summary>>

Collected == [t \in Test |-> IF trr[t].passed = "True" THEN "PASS"
                             ELSE IF trr[t].mode = "TIMEOUT" THEN "FAILED {T}" ELSE "FAILED"]
\* Mutant: the summary is complete although a test failed.
collect_results_Always ==
    \/ /\ Starts(Regr)
       /\ UNCHANGED <<file_vars, trr, log, sources, tb, logtb, sims, unwritten, summary>>
    \/ /\ Ends(Regr, TRUE) /\ Write(Regr) /\ summary' = Collected
       /\ UNCHANGED <<trr, log, sources, tb, logtb, sims, unwritten>>

collect_results ==
    \/ /\ Starts(Regr)
       /\ UNCHANGED <<file_vars, trr, log, sources, tb, logtb, sims, unwritten, summary>>
    \/ /\ \A t \in Test : Collected[t] = "PASS"
       /\ Ends(Regr, TRUE) /\ Write(Regr) /\ summary' = Collected
       /\ UNCHANGED <<trr, log, sources, tb, logtb, sims, unwritten>>
    \/ /\ \E t \in Test : Collected[t] # "PASS"
       /\ Stops(Regr) /\ summary' = Collected /\ UNCHANGED trr

-----------------------------------------------------------------------------
\* The developer interrupts make: the running recipes stop where they are, and make
\* deletes those of their targets that had changed.
Interrupt ==
    /\ make # "off" /\ recipes # {}
    /\ \E half \in SUBSET (recipes \cap Logs) :
        /\ exists' = exists \ half
        /\ newer' = {e \in newer : e[1] \notin half /\ e[2] \notin half}
        /\ log' = [t \in Test |-> IF Log(t) \in half THEN NoLog ELSE log[t]]
        /\ unwritten' = {t \in unwritten : Log(t) \notin half}
    /\ make' = "off" /\ recipes' = {} /\ ran' = {} /\ remade' = {} /\ outdated' = {}
    /\ UNCHANGED <<goal, trr, sources, tb, logtb, sims, summary, makes>>

\* The developer changes a source of the design or of the testbench.
Edit ==
    /\ make = "off" /\ sources < MaxEdits
    /\ sources' = sources + 1
    /\ newer' = AfterWrite(newer, Rtl)
    /\ UNCHANGED <<exists, make_vars, trr, log, tb, logtb, sims, unwritten, summary, makes>>

FlowNext ==
    \/ \E g \in Goals : Make(g)
    \/ MakeEnds \/ Interrupt \/ Edit
    \/ compile_tb \/ BuildStep(Ig) \/ BuildStep(Cov) \/ collect_results
    \/ \E t \in Test :
        \/ t \in Riscvdv /\ run_instr_gen(t)
        \/ compile_test(t) \/ run_rtl_begin(t) \/ check_logs(t)
        \/ \E o \in Outcomes : run_rtl_end(t, o)

FlowSpec == FlowInit /\ [][FlowNext]_flow_vars

-----------------------------------------------------------------------------
LogPasses(t) ==
    process_ibex_sim_log(log[t].trace) /\ check_ibex_uvm_log(log[t].lines).passed

\* The verdict of a test that was simulated once is the verdict of its log: PASS is
\* recorded for no other, whatever was interrupted or failed around it.
FirstVerdict == \A t \in Test : sims[t] <= 1 /\ trr[t].passed = "True" => LogPasses(t)

\* While make holds regr.log.stamp for up to date, every test has passed: no result
\* changes after the summary without make noticing, over any number of calls.
StampHonest ==
    Regr \in exists /\ (\A p \in Prereqs[Regr] : <<p, Regr>> \notin newer)
        => \A t \in Test : trr[t].passed = "True"

\* A regression that succeeds has simulated every test on the present sources, also
\* when an earlier call was interrupted half way; a simulator that could not be
\* started is the exception.
CurrentBuild ==
    Finished /\ goal = Regr => \A t \in Test \ unwritten : logtb[t] = sources

\* "Something was found in the logfile that means we mark this test as failed"
\* (check_logs.py): a regression succeeds only if the logs of all tests pass.
SuccessIsEarned ==
    Finished /\ goal = Regr => \A t \in Test \ unwritten : LogPasses(t)

\* "Always return 0 (success), even if the test failed. [...] we don't want to stop Make
\* from gathering them all up for us" (check_logs.py): the check of a log that was
\* written, whatever it says, never is what stops make.
FailuresGathered ==
    [][\A t \in Test : Trr(t) \in recipes \ recipes' /\ make = "on" => make' # "stopping"]_flow_vars
=============================================================================
