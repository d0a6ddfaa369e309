----------------------------- MODULE MCScripts -----------------------------
(***************************************************************************)
(* The modules about the scripts for TLC: the proof conductor, and the     *)
(* scripts of a regression.  A behaviour is about one part: the commands   *)
(* of the conductor, its sessions, make and the scripts it runs, the       *)
(* metadata that scripts share, sv2v_in_place.py, or one call of a script  *)
(* that only computes something, whose input is in the variable input.     *)
(***************************************************************************)
EXTENDS MCConductor, ProcessRunner, MCRegressionFlow, MetadataStore, Sv2vInPlace,
        RegressionScripts

CONSTANTS c1, c2, c3    \* commands of the conductor

\* 12 of 13 GB: c1 and c2 together leave less than the buffer, each alone does not.
FitNeeds     == [x \in Procs |-> IF x = c3 THEN 0 ELSE 6]
NoneExpected == [x \in Procs |-> 0]

NoInput == [none |-> TRUE]

\* The files for sv2v: a package, two modules and a header.
SomeSvPaths  == <<"a_pkg", "b", "c">>
SomeSvhPaths == <<"h">>

-----------------------------------------------------------------------------
(* The inputs.                                                             *)

\* Any log of at most four lines.
LogInputs == UNION {[1..n -> Line] : n \in 0..4}

\* Two entries of each list, with the key rtl_params and at most two parameters there,
\* except r2, which does not have the key.
Param(n, vs) == [name |-> n, values |-> vs]
Given(name, i, ps) == [test |-> name, iterations |-> i, has_params |-> TRUE, rtl_params |-> ps]
ParamLists == {<<>>, <<Param("x", {0})>>, <<Param("x", {1, 2})>>, <<Param("z", {0})>>,
               <<Param("x", {0}), Param("y", {0})>>, <<Param("x", {0}), Param("y", {1})>>,
               <<Param("x", {0}), Param("z", {0})>>}
SelectionInputs ==
    {[cfg |-> [x |-> x, y |-> 0], test |-> words, iterations |-> n,
      riscvdv  |-> <<Given("r1", i, ps),
                     [test |-> "r2", iterations |-> 1, has_params |-> FALSE, rtl_params |-> <<>>]>>,
      directed |-> <<Given("d1", j, qs), Given("d2", 1, <<Param("y", {0})>>)>>] :
        x \in 0..1, n \in {0, 2}, i \in 0..2, j \in 1..2, ps \in ParamLists, qs \in ParamLists,
        words \in {{"all"}, {"all_riscvdv"}, {"all_directed"}, {"r1", "d1"}, {"all", "d2"}, {"t"}}}

\* Fields, and configurations with values in and out of their types, and one field too few.
SomeFields == [RV32E |-> "bool", RV32M |-> "str", PMPNumRegions |-> "int"]
Values == [type : {"bool"}, v : {"0", "1"}] \cup [type : {"int"}, v : {"0", "1", "2"}]
          \cup [type : {"str"}, v : {"RV32MNone", "RV32MFast"}]
ConfigInputs == [DOMAIN SomeFields -> Values] \cup [{"RV32E", "RV32M"} -> Values]

\* Commands of at most two words; an option may use the caller's values or the
\* environment, and "out" is a name that more than one dictionary may have.
Word2 == {Text("sim"), Hole("cov_opts"), Hole("out"), Hole("HOME")}
CommandInputs ==
    [cmd : UNION {[1..n -> Word2] : n \in 0..2},
     opts : {<<[k |-> "cov_opts", v |-> <<Text("-cov"), w>>]>> :
                 w \in {Text("x"), Hole("out"), Hole("HOME")}},
     enables : SUBSET {"cov_opts"},
     user : {<<>>, <<[k |-> "out", v |-> <<Text("dir")>>]>>,
             <<[k |-> "out", v |-> <<Text("dir")>>],
               [k |-> "cov_opts", v |-> <<Text("never")>>]>>},
     env_var : {<<>>, <<"HOME">>, <<"out">>},
     environ : {[HOME |-> <<Text("/home")>>],
                [HOME |-> <<Text("/home")>>, out |-> <<Text("env")>>]}]

\* VCS versions <<year, month, service pack, patch>>, and plain ones.
VcsVersions == {<<2020, 3, 0, 0>>, <<2020, 3, 0, 2>>, <<2020, 3, 1, 0>>, <<2020, 3, 1, 1>>,
                <<2020, 3, 2, 0>>, <<2020, 12, 0, 0>>, <<2021, 9, 0, 0>>}
VivadoVersions == {<<2019, 2>>, <<2020, 1>>, <<2020, 1, 1>>}
ToolInputs ==
    [reqs : [vcs : [min_version : VcsVersions, as_needed : BOOLEAN],
             vivado : [min_version : VivadoVersions, as_needed : {TRUE}]],
     args : SUBSET {"vcs", "vivado", "unknown"},
     installed : [vcs : VcsVersions \cup {Absent, Unreadable},
                  vivado : VivadoVersions \cup {Absent}]]

IsaInputs == [rv32e : BOOLEAN, rv32m : {"RV32MNone", "RV32MSlow", "RV32MFast"},
              rv32b : DOMAIN bitmanip_mapping]

Inputs == [log |-> LogInputs, selection |-> SelectionInputs, config |-> ConfigInputs,
           command |-> CommandInputs, isa |-> IsaInputs]

\* What ToolsAreChecked proves of all versions, on these.
ASSUME ToolsAssumption ==
    \A i \in ToolInputs :
        AreTools(i.reqs, i.installed) /\ ToolsChecked(i.reqs, i.args, i.installed)

-----------------------------------------------------------------------------
conductor_vars  == <<runner_vars, vars>>
regression_vars == <<flow_vars, store_vars, sv2v_vars>>
MCVars == <<conductor_vars, regression_vars, script_vars>>

\* The parts a behaviour is not about stay in one state.
MCInit ==
    /\ RunnerInit /\ Init
    /\ FlowInit /\ StoreInit /\ Sv2vInit
    /\ \/ part \in {"commands", "sessions", "flow", "store", "sv2v"} /\ input = NoInput
       \/ ScriptInit
    /\ part # "sessions" => args = Plain /\ design = FirstDesign /\ store = NoFiles

Of(p, A) == part = p /\ A /\ UNCHANGED script_vars
Commands(A) == Of("commands", A) /\ UNCHANGED <<vars, regression_vars>>
MCNext ==
    \/ Commands(RunnerNext)
    \/ Of("sessions", Next) /\ UNCHANGED <<runner_vars, regression_vars>>
    \/ Of("flow", FlowNext) /\ UNCHANGED <<conductor_vars, store_vars, sv2v_vars>>
    \/ Of("store", StoreNext) /\ UNCHANGED <<conductor_vars, flow_vars, sv2v_vars>>
    \/ Of("sv2v", Sv2vNext) /\ UNCHANGED <<conductor_vars, flow_vars, store_vars>>

\* The fairness of RunnerFairSpec.
MCSpec ==
    /\ MCInit /\ [][MCNext]_MCVars
    /\ WF_MCVars(Commands(Poll))
    /\ \A x \in Procs \ Timed : WF_MCVars(Commands(Exit(x)))
    /\ \A x \in Timed : WF_MCVars(Commands(Overrun(x)))
=============================================================================
