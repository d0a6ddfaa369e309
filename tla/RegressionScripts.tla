-------------------------- MODULE RegressionScripts --------------------------
(***************************************************************************)
(* The calls of scripts that only compute something: the verdict on a log, *)
(* the tests of a regression, the options of a configuration, a command    *)
(* of the simulator.  A behaviour is one call.  The check of the tools,    *)
(* right for some versions only, has no part in it.                        *)
(***************************************************************************)
EXTENDS LogChecks, TestSelection, ConfigOptions, CommandTemplate, ToolRequirements

CONSTANT ScriptInputs       \* for each script, the inputs it may be called with

VARIABLES part, input       \* the script, and its input
script_vars == <<part, input>>

IsSeq(s) == s \in Seq(Range(s))

\* Entries of the test lists, whose names are distinct, in both lists together.  An entry
\* of the directed list has rtl_params and at least one iteration (DConfig, DTest).
IsEntry(e) ==
    /\ e \in [test : {e.test}, iterations : Nat, has_params : BOOLEAN,
              rtl_params : Seq(Range(e.rtl_params))]
    /\ ~e.has_params => e.rtl_params = <<>>
AreTestLists(riscvdv, directed) ==
    /\ IsSeq(riscvdv) /\ IsSeq(directed)
    /\ \A e \in Entries(riscvdv) \cup Entries(directed) : IsEntry(e)
    /\ \A e \in Entries(directed) : e.has_params /\ e.iterations > 0
    /\ \A i, j \in DOMAIN riscvdv : riscvdv[i].test = riscvdv[j].test => i = j
    /\ \A i, j \in DOMAIN directed : directed[i].test = directed[j].test => i = j
    /\ \A i \in DOMAIN riscvdv : \A j \in DOMAIN directed : riscvdv[i].test # directed[j].test

\* Text with or without holes, and dictionaries, whose keys are distinct.
IsText(ws) == IsSeq(ws) /\ \A w \in Range(ws) : w \in {Hole(w[2]), Text(w[2])}
IsDict(dict) ==
    /\ IsSeq(dict)
    /\ \A i \in DOMAIN dict :
          IsText(dict[i].v) /\ dict[i] \in [k : {dict[i].k}, v : {dict[i].v}]
    /\ \A i, j \in DOMAIN dict : dict[i].k = dict[j].k => i = j

\* An option may use the values of the caller and of the environment, which have no
\* holes, and no other option.
IsCommand(i) ==
    /\ IsText(i.cmd) /\ IsDict(i.opts) /\ IsDict(i.user) /\ IsSeq(i.env_var)
    /\ \A n \in DOMAIN i.opts : \A key \in Keys(i.opts) : Hole(key) \notin Range(i.opts[n].v)
    /\ \A n \in DOMAIN i.user : Holes(i.user[n].v) = {}
    /\ \A n \in DOMAIN i.environ : IsText(i.environ[n]) /\ Holes(i.environ[n]) = {}

\* The numbers a format finds in the text of a version: the year, month, service pack
\* and patch of VCS, and up to three numbers otherwise.  A patch is not "greater than
\* 99" (the comment in VcsToolReq), nor is a service pack.
VersionsOf(tool) ==
    CASE tool = "vcs" -> {v \in [1..4 -> Nat] : v[3] \in 0..99 /\ v[4] \in 0..99}
      [] tool = "vivado" -> [1..2 -> Nat] \cup [1..3 -> Nat]
      [] OTHER -> UNION {[1..n -> Nat] : n \in 1..3}
AreTools(reqs, installed) ==
    \A t \in DOMAIN reqs :
        /\ reqs[t].min_version \in VersionsOf(t) \cup {Unreadable}
        /\ reqs[t].as_needed \in BOOLEAN
        /\ installed[t] \in VersionsOf(t) \cup {Unreadable, Absent}

ASSUME ScriptInputsAssumption ==
    /\ \A log \in ScriptInputs["log"] : log \in Seq(Line)
    /\ \A i \in ScriptInputs["selection"] :
          i.iterations \in Nat /\ AreTestLists(i.riscvdv, i.directed)
    /\ \A yml \in ScriptInputs["config"] : \A fld \in DOMAIN yml :
          yml[fld].type = "bool" => yml[fld].v \in {"0", "1"}
    /\ \A i \in ScriptInputs["isa"] :
          i.rv32e \in BOOLEAN /\ i.rv32b \in DOMAIN bitmanip_mapping
    /\ \A i \in ScriptInputs["command"] : IsCommand(i)

ScriptInit == part \in DOMAIN ScriptInputs /\ input \in ScriptInputs[part]
ScriptSpec == ScriptInit /\ [][FALSE]_script_vars

-----------------------------------------------------------------------------
\* The verdict on a log, when the check gives one, is that of the docstring of
\* check_ibex_uvm_log, and it gives one unless the log says FAILED without an error
\* line before it.
VerdictsRight == part = "log" => VerdictOf(input)

\* Test lists like those of the repository, in which an entry has at most one parameter,
\* and none that is empty: the regression has every iteration of every requested and
\* supported test once, and no other.  With other lists, it leaves out no supported test
\* but those whose rtl_params is empty.
TestsRight ==
    part = "selection" =>
        EachTestOnce(input.cfg, input.riscvdv, input.directed, input.test, input.iterations, 1)

\* The design, the compiler and the simulator it is compared with are given the
\* configuration that was named.
BuiltAsConfigured ==
    /\ part = "config" => OptionsMatchConfig(input)
    /\ part = "isa" => IsaInSync(input.rv32e, input.rv32m, input.rv32b)

\* A command is given out only when it is filled in completely, and each hole from the
\* first place that has a value.
CommandsRight ==
    part = "command" =>
        FilledIn(input.cmd, input.opts, input.enables, input.user, input.env_var,
                 input.environ)
=============================================================================
