---------------------------- MODULE MCIcacheFill ----------------------------
(***************************************************************************)
(* Instances of IcacheFill for TLC.                                        *)
(***************************************************************************)
EXTENDS IcacheFill

\* Branches go to the middle of a line.
MidLine == {[line |-> 0, beat |-> 1]}

\* What a lookup may find: nothing, or the data of the line.  The larger
\* instance has one line that hits or misses and one that always misses.
HitOrMiss == {NoLine} \cup
    {[b \in Beat |-> [line |-> l, beat |-> b, ver |-> 0, bad |-> FALSE]] : l \in Line}
FirstMisses == {h \in HitOrMiss : h # NoLine => h[0].line # 0}
=============================================================================
