---------------------------- MODULE ConfigOptions ----------------------------
(***************************************************************************)
(* From a configuration in ibex_configs.yaml to the options of a simulator *)
(* (ibex_config.py, and ibex_cmd.py, which picks the outputter for a stage *)
(* of the build).  A value of the YAML is [type, v], with v as the options *)
(* show it: a bool as "0" or "1".                                          *)
(***************************************************************************)
EXTENDS Integers, Sequences, FiniteSets

CONSTANT known_fields       \* the fields of a configuration, each with its type
ASSUME KnownFieldsAssumption ==
    \A fld \in DOMAIN known_fields : known_fields[fld] \in {"bool", "int", "str"}

\* isinstance(val, int) also holds of a bool; int(val) maps it to 0 or 1.
IsInt(val) == val.type \in {"bool", "int"}

read(type, val) ==
    CASE type = "bool" -> val.type = "bool" \/ (val.type = "int" /\ val.v \in {"0", "1"})
      [] type = "int"  -> IsInt(val)
      [] type = "str"  -> val.type = "str"

\* Config(yml) raises ValueError for any other dictionary.
Config(yml) ==
    /\ DOMAIN yml = DOMAIN known_fields
    /\ \A fld \in DOMAIN known_fields : read(known_fields[fld], yml[fld])

\* The outputters of main that set parameters, and string defines, by the words that
\* "_" joins to their names.
outputters ==
    [param  |-> {<<s, "opts">> : s \in {"vcs", "xlm", "dsim"}}
                \cup {<<s, "sim", "opts">> : s \in {"riviera", "questa"}},
     define |-> {<<s, "opts">> : s \in {"vcs", "xlm", "dsim"}}
                \cup {<<s, "compile", "opts">> : s \in {"riviera", "questa"}}]

\* SimOpts.output: one option per field, if the outputter has one for its type.
Setter(fld) == IF known_fields[fld] = "str" THEN "define" ELSE "param"
output(name, yml) ==
    {[fld |-> fld, how |-> Setter(fld), v |-> yml[fld].v] :
        fld \in {f \in DOMAIN known_fields : name \in outputters[Setter(f)]}}

\* Which stages of a simulator take options.
SIM_CFGS == [riviera |-> {"compile", "sim"}, questa |-> {"compile", "sim"},
             vcs |-> {"compile"}, xlm |-> {"compile"}, dsim |-> {"compile"}]

\* Mutant: the outputter is named without the stage.
output_type_NoStage(simulator, stage) ==
    IF SIM_CFGS[simulator] = {"compile", "sim"} THEN <<simulator, "sim", "opts">>
    ELSE <<simulator, "opts">>

output_type(simulator, stage) ==
    IF SIM_CFGS[simulator] = {"compile", "sim"} THEN <<simulator, stage, "opts">>
    ELSE <<simulator, "opts">>

get_x_opts(yml, simulator, stage) ==
    IF stage \in SIM_CFGS[simulator] THEN output(output_type(simulator, stage), yml) ELSE {}

\* get_isas_for_config: for the compiler, and for the instruction set simulator.
bitmanip_mapping ==
    [RV32BNone       |-> <<>>,
     RV32BBalanced   |-> <<"Zba", "Zbb", "Zbs", "XZbf", "XZbt">>,
     RV32BOTEarlGrey |-> <<"Zba", "Zbb", "Zbc", "Zbs", "XZbf", "XZbp", "XZbr", "XZbt">>,
     RV32BFull       |->
         <<"Zba", "Zbb", "Zbc", "Zbs", "XZbe", "XZbf", "XZbp", "XZbr", "XZbt">>]

base_isa(rv32e, rv32m) ==
    <<"rv32", IF rv32e THEN "e" ELSE "i">>
    \o (IF rv32m # "RV32MNone" THEN <<"m">> ELSE <<>>) \o <<"c">>

get_isas_for_config(rv32e, rv32m, rv32b) ==
    LET base == base_isa(rv32e, rv32m) IN
    [toolchain |-> base \o (IF rv32b # "RV32BNone" THEN <<"b">> ELSE <<>>),
     iss |-> base \o bitmanip_mapping[rv32b]]

\* get_isa_string() of core_ibex_base_test.sv, from the parameters of the design.
get_isa_string(RV32E, RV32M, RV32B) ==
    <<"rv32", IF RV32E THEN "e" ELSE "i">>
    \o (IF RV32M = "RV32MNone" THEN <<>> ELSE <<"m">>) \o <<"c">>
    \o CASE RV32B = "RV32BNone"       -> <<>>
         [] RV32B = "RV32BBalanced"   -> <<"Zba", "Zbb", "Zbs", "XZbf", "XZbt">>
         [] RV32B = "RV32BOTEarlGrey" ->
                <<"Zba", "Zbb", "Zbc", "Zbs", "XZbf", "XZbp", "XZbr", "XZbt">>
         [] RV32B = "RV32BFull"       ->
                <<"Zba", "Zbb", "Zbc", "Zbs", "XZbe", "XZbf", "XZbp", "XZbr", "XZbt">>

-----------------------------------------------------------------------------
\* The design is built as configured: for a configuration that is accepted, whatever
\* the simulator, every field is set in exactly one of the two stages, to its value;
\* a field of type bool to 0 or 1.
OptionsMatchConfig(yml) ==
    Config(yml) => \A simulator \in DOMAIN SIM_CFGS :
        LET opts == [s \in {"compile", "sim"} |-> get_x_opts(yml, simulator, s)] IN
        \A fld \in DOMAIN known_fields :
            /\ Cardinality({x \in {"compile", "sim"} \X (opts["compile"] \cup opts["sim"]) :
                               x[2] \in opts[x[1]] /\ x[2].fld = fld}) = 1
            /\ \A o \in opts["compile"] \cup opts["sim"] :
                  o.fld = fld => /\ o.v = yml[fld].v
                                 /\ known_fields[fld] = "bool" => o.v \in {"0", "1"}

\* "This logic should match the code in the get_isa_string() function ... keep them in
\* sync!" (ibex_cmd.py): the program is generated for the instruction set that the
\* simulator it is compared with has.
IsaInSync(rv32e, rv32m, rv32b) ==
    get_isas_for_config(rv32e, rv32m, rv32b).iss = get_isa_string(rv32e, rv32m, rv32b)
=============================================================================
