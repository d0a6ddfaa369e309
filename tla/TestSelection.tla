---------------------------- MODULE TestSelection ----------------------------
(***************************************************************************)
(* Which tests a regression runs: the entries of the two test lists that   *)
(* TEST names, with ITERATIONS applied, filtered by the parameters of the  *)
(* core (metadata.py, ibex_cmd.py), and one TEST.SEED for every iteration. *)
(***************************************************************************)
EXTENDS Naturals, Sequences, SequencesExt, FiniteSets

\* An entry: its name, its iterations, whether it has the key rtl_params (has_params), and
\* the values it accepts of each parameter there, in the order of the file (none without
\* the key).  A request: the words of TEST, a set.

\* lib.py of riscv-dv: the list is read from top to bottom; 0 iterations drop a test.
riscvdv_matches(entry, test) ==
    entry.test \in test \/ test \cap {"all_riscvdv", "all"} # {}
process_riscvdv_testlist(list, test, iterations) ==
    LET counted(e) == IF iterations > 0 THEN [e EXCEPT !.iterations = iterations] ELSE e IN
    FlattenSeq([i \in DOMAIN list |->
        IF riscvdv_matches(list[i], test) /\ list[i].iterations > 0
        THEN <<counted(list[i])>> ELSE <<>>])

\* The word "all" selects no directed test.
directed_matches(entry, test) == entry.test \in test \/ "all_directed" \in test
process_directed_testlist(list, test, iterations) ==
    LET counted(e) == IF iterations > 0 THEN [e EXCEPT !.iterations = iterations] ELSE e IN
    FlattenSeq([i \in DOMAIN list |->
        IF directed_matches(list[i], test) /\ counted(list[i]).iterations > 0
        THEN <<counted(list[i])>> ELSE <<>>])

\* How often filter_tests_by_config appends an entry: once without the key, and otherwise
\* once for every parameter up to the first the core does not meet.
Meets(cfg, p) == p.name \in DOMAIN cfg /\ cfg[p.name] \in p.values
\* Mutant: a parameter the core does not meet is ignored.
copies_Unfiltered(cfg, entry) == IF ~entry.has_params THEN 1 ELSE Len(entry.rtl_params)

copies(cfg, entry) ==
    LET ps  == entry.rtl_params
        bad == {i \in DOMAIN ps : ~Meets(cfg, ps[i])}
    IN  IF ~entry.has_params THEN 1
        ELSE IF bad = {} THEN Len(ps) ELSE (CHOOSE i \in bad : \A j \in bad : i <= j) - 1

\* A parameter the core does not have, looked at before one that it does not meet,
\* ends the script with a ValueError.
filter_raises(cfg, list) ==
    \E n \in DOMAIN list : \E i \in DOMAIN list[n].rtl_params :
        /\ list[n].rtl_params[i].name \notin DOMAIN cfg
        /\ \A j \in 1..(i - 1) : Meets(cfg, list[n].rtl_params[j])

filter_tests_by_config(cfg, list) ==
    FlattenSeq([i \in DOMAIN list |-> [n \in 1..copies(cfg, list[i]) |-> list[i]]])

\* No entry that TEST names, or a parameter that the core does not have, is an error.
get_tests_and_counts(cfg, riscvdv, directed, test, iterations) ==
    LET riscvdv_matched_list  == process_riscvdv_testlist(riscvdv, test, iterations)
        directed_matched_list == process_directed_testlist(directed, test, iterations)
        error == \/ riscvdv_matched_list = <<>> /\ directed_matched_list = <<>>
                 \/ filter_raises(cfg, riscvdv_matched_list)
                 \/ filter_raises(cfg, directed_matched_list)
    IN  [error |-> error,
         tests |-> IF error THEN <<>>
                   ELSE filter_tests_by_config(cfg, riscvdv_matched_list)
                        \o filter_tests_by_config(cfg, directed_matched_list)]

\* The TEST.SEED of every iteration, in order.
tests_pickle_files(selected, seed) ==
    FlattenSeq([i \in DOMAIN selected |->
        [n \in 1..selected[i].iterations |-> <<selected[i].test, seed + n - 1>>]])

\* A regression without a test is an error as well.
create_metadata(cfg, riscvdv, directed, test, iterations, seed) ==
    LET got == get_tests_and_counts(cfg, riscvdv, directed, test, iterations)
    IN  [error |-> got.error \/ got.tests = <<>>, runs |-> tests_pickle_files(got.tests, seed)]

-----------------------------------------------------------------------------
Entries(list) == {list[i] : i \in DOMAIN list}

\* The core meets all that an entry asks for.
Supported(cfg, entry) == \A i \in DOMAIN entry.rtl_params : Meets(cfg, entry.rtl_params[i])

\* Every TEST.SEED has one result file and one directory.  While each entry that TEST
\* names has one parameter in rtl_params, or no such key, the regression has one of each
\* for every iteration of every test that TEST names and the core supports, and no
\* other, and it is refused only for a parameter that the core does not have or because
\* there is no such test.  Whatever the entries are, a supported test is left out of a
\* regression that runs only when its rtl_params is empty.
EachTestOnce(cfg, riscvdv, directed, test, iterations, seed) ==
    LET matched == {e \in Entries(riscvdv) : e.iterations > 0 /\ riscvdv_matches(e, test)}
                   \cup {e \in Entries(directed) : directed_matches(e, test)}
        supported == {e \in matched : Supported(cfg, e)}
        unknown == \E e \in matched : \E i \in DOMAIN e.rtl_params :
                       e.rtl_params[i].name \notin DOMAIN cfg
        times(e) == IF iterations > 0 THEN iterations ELSE e.iterations
        runs(S) == UNION {{<<e.test, seed + n>> : n \in 0..(times(e) - 1)} : e \in S}
        got == create_metadata(cfg, riscvdv, directed, test, iterations, seed)
        simple == \A e \in matched : ~e.has_params \/ Len(e.rtl_params) = 1
    IN  /\ simple => (got.error <=> unknown \/ supported = {})
        /\ simple /\ ~got.error =>
              ToSet(got.runs) = runs(supported) /\ IsInjective(got.runs)
        /\ ~got.error =>
              runs({e \in supported : e.has_params => e.rtl_params # <<>>})
                  \subseteq ToSet(got.runs)
=============================================================================
