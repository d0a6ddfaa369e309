--------------------------- MODULE CommandTemplate ---------------------------
(***************************************************************************)
(* How a command of rtl_simulation.yaml is filled in (get_tool_cmds).  A   *)
(* command is a sequence of words; <N> in it is the word Hole(N).          *)
(***************************************************************************)
EXTENDS Naturals, Sequences, SequencesExt, FiniteSets

Hole(name) == <<"hole", name>>
Text(name) == <<"text", name>>
Holes(words) == {w \in Range(words) : w[1] = "hole"}

\* subst_opt: every <name> of the command is replaced.
subst_opt(words, name, replacement) ==
    FlattenSeq([i \in DOMAIN words |->
        IF words[i] = Hole(name) THEN replacement ELSE <<words[i]>>])

\* subst_dict: the entries of a dictionary, a sequence of [k, v], one after the other.
subst_dict(words, dict) ==
    FoldLeft(LAMBDA ws, e : subst_opt(ws, e.k, e.v), words, dict)

\* The dictionaries: the options beside 'cmd' in the YAML, blank unless enabled; those
\* of the caller; and the environment variables that the simulator's env_var names.
enabled_opts(opts, enables) ==
    [i \in DOMAIN opts |-> IF opts[i].k \in enables THEN opts[i]
                           ELSE [opts[i] EXCEPT !.v = <<>>]]

\* subst_env_vars raises an error for a variable that is not set, used or not.
env_missing(env_var, environ) == \E i \in DOMAIN env_var : env_var[i] \notin DOMAIN environ

\* Mutant: the caller's values are filled in before the options are.
fill_UserFirst(cmd, opts, enables, user, env_var, environ) ==
    LET first  == subst_dict(cmd, user)
        second == subst_dict(first, enabled_opts(opts, enables))
    IN  subst_dict(second, [i \in DOMAIN env_var |->
                               [k |-> env_var[i], v |-> environ[env_var[i]]]])

fill(cmd, opts, enables, user, env_var, environ) ==
    LET first  == subst_dict(cmd, enabled_opts(opts, enables))
        second == subst_dict(first, user)
    IN  subst_dict(second, [i \in DOMAIN env_var |->
                               [k |-> env_var[i], v |-> environ[env_var[i]]]])

Error == [error |-> TRUE, words |-> <<>>]
get_tool_cmd(cmd, opts, enables, user, env_var, environ) ==
    IF env_missing(env_var, environ) THEN Error
    ELSE LET words == fill(cmd, opts, enables, user, env_var, environ) IN
         IF Holes(words) # {} THEN Error ELSE [error |-> FALSE, words |-> words]
-----------------------------------------------------------------------------
Keys(dict) == {dict[i].k : i \in DOMAIN dict}
Lookup(dict, k) == dict[CHOOSE i \in DOMAIN dict : dict[i].k = k].v

\* What the docstrings of get_tool_cmds and subst_env_vars promise, for options that use
\* the caller's values and the environment, and values that use nothing: each hole is
\* filled from the first dictionary that has it, an option that is not enabled is blank
\* and needs nothing, and a command in which something is left to fill, an environment
\* variable that is not set among it, is an error.  They promise a command whenever
\* nothing is left to fill; the code gives one while every variable listed is set.
FilledIn(cmd, opts, enables, user, env_var, environ) ==
    LET value(w) ==         \* of a hole that no option has
            IF w[1] = "text" THEN <<w>>
            ELSE IF w[2] \in Keys(user) THEN Lookup(user, w[2])
            ELSE IF w[2] \in Range(env_var) \cap DOMAIN environ THEN environ[w[2]] ELSE <<w>>
        flat(ws) == FlattenSeq([i \in DOMAIN ws |-> value(ws[i])])
        expanded == FlattenSeq([i \in DOMAIN cmd |->
            IF cmd[i][1] = "hole" /\ cmd[i][2] \in Keys(opts)
            THEN IF cmd[i][2] \in enables THEN flat(Lookup(opts, cmd[i][2])) ELSE <<>>
            ELSE value(cmd[i])])
        got == get_tool_cmd(cmd, opts, enables, user, env_var, environ)
    IN  /\ ~got.error => got.words = expanded
        /\ Holes(expanded) # {} => got.error
        /\ got.error => Holes(expanded) # {} \/ env_missing(env_var, environ)
=============================================================================
