--------------------------- MODULE ToolRequirements ---------------------------
(***************************************************************************)
(* check_tool_requirements.py: is every tool installed, in a version that  *)
(* is recent enough?  A version is the sequence of the numbers its text    *)
(* contains, or Unreadable when the tool's format does not match it.       *)
(***************************************************************************)
EXTENDS Integers, Sequences, FiniteSets

Unreadable == <<>>
Absent     == <<-1>>        \* of no tool; get_version raises RuntimeError

\* The digits of the number that VCS's service pack and patch are made into.
Width(n) == CASE n < 10 -> 10 [] n \in 10..99 -> 100 [] n \in 100..999 -> 1000
              [] OTHER -> 10000

\* to_semver.  A VCS version is <<year, month, service pack, patch>>; the last two are
\* written behind the month.  A Vivado version may lack its third number.
to_semver(tool, v) ==
    CASE v = Unreadable -> Unreadable
      [] v # Unreadable /\ tool = "vcs" ->
            LET comb == v[3] * 100 + v[4] IN <<v[1], v[2] * Width(comb) + comb>>
      [] v # Unreadable /\ tool = "vivado" /\ Len(v) = 2 -> v \o <<0>>
      [] OTHER -> v

\* packaging.version.Version: numbers are compared one by one, and missing ones are 0.
At(v, i) == IF i \in DOMAIN v THEN v[i] ELSE 0
Older(v, w) ==
    \E i \in 1..4 : At(v, i) < At(w, i) /\ \A j \in 1..(i - 1) : At(v, j) = At(w, j)

\* ToolReq.check: a requirement or an answer that cannot be read is not met.
check(tool, min_version, installed) ==
    LET min_sv    == to_semver(tool, min_version)
        actual_sv == to_semver(tool, installed)
    IN  /\ min_sv # Unreadable /\ installed # Absent /\ actual_sv # Unreadable
        /\ ~Older(actual_sv, min_sv)

\* main: reqs maps the tools of tool_requirements.py to [min_version, as_needed]; args
\* are the tools named on the command line.  Returns the exit code.
InUse(reqs, args) == {t \in DOMAIN reqs : ~reqs[t].as_needed \/ t \in args}

main(reqs, args, installed) ==
    LET missing_tools == {t \in InUse(reqs, args) :
                             ~check(t, reqs[t].min_version, installed[t])}
        pending_tools == args \ DOMAIN reqs
    IN  IF missing_tools = {} /\ pending_tools = {} THEN 0 ELSE 1
-----------------------------------------------------------------------------
\* The service pack and patch of a VCS version, written behind the month.
Behind(v) == v[3] * 100 + v[4]

\* to_semver keeps the order of two VCS versions of different years, of the same month,
\* and those of one year in which the later month has at least as many digits behind it.
\* Of others it may not, although the comment in VcsToolReq says that it "should work as
\* long as the patch version isn't greater than 99": 2020.12 becomes 2020.120, which is
\* less than 2020.03-SP2, which becomes 2020.03200.
Comparable(tool, v, w) ==
    tool = "vcs" /\ v \notin {Unreadable, Absent} /\ w # Unreadable /\ v[1] = w[1] =>
        /\ v[2] < w[2] => Width(Behind(v)) <= Width(Behind(w))
        /\ w[2] < v[2] => Width(Behind(w)) <= Width(Behind(v))

\* Success means that every tool in use is there and no older than required, and that
\* every tool named is a known one, for versions whose order to_semver keeps.
ToolsChecked(reqs, args, installed) ==
    (\A t \in DOMAIN reqs : Comparable(t, installed[t], reqs[t].min_version)) =>
        (main(reqs, args, installed) = 0 <=>
            /\ args \subseteq DOMAIN reqs
            /\ \A t \in DOMAIN reqs : (t \in args \/ ~reqs[t].as_needed) =>
                  /\ installed[t] \notin {Unreadable, Absent}
                  /\ reqs[t].min_version # Unreadable
                  /\ ~Older(installed[t], reqs[t].min_version))
=============================================================================
