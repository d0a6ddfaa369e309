----------------------------- MODULE MCConductor -----------------------------
(***************************************************************************)
(* Instances of Conductor for TLC.                                         *)
(***************************************************************************)
EXTENDS Conductor

CONSTANTS p1, p2, p3, p4    \* properties

\* At first p1 is at step 0 and the others at step 1.
First == [x \in Props |-> IF x = p1 THEN 0 ELSE 1]
FirstDesign == [exists |-> {p1, p2, p4}, holds |-> {p2, p4}, step |-> First, steps |-> 2]

\* Designs in which all holds, or p1 does not, or p2 does not; one that has the
\* property that is skipped; and one in which p2 has moved to step 0 and does not hold.
SomeDesigns ==
    {FirstDesign, [FirstDesign EXCEPT !.holds = {p1, p2, p4}], [FirstDesign EXCEPT !.holds = {p1, p4}],
     [FirstDesign EXCEPT !.exists = Props, !.holds = Props],
     [FirstDesign EXCEPT !.holds = {p1, p4}, !.step[p2] = 0]}

\* The repository has no strategies, or one for both properties of step 1 together.
NoFiles == [s \in Steps |-> NoStrategy]
SomeStores ==
    {NoFiles,
     [NoFiles EXCEPT ![1] = [decodes |-> TRUE, entries |-> {[step |-> 1, props |-> {p2, p4}]}]]}

Plain == [mode |-> "explore", hard |-> TRUE, fresh |-> FALSE, noStore |-> FALSE,
          noRun |-> TRUE, byStep |-> FALSE, complete |-> TRUE, start |-> 0,
          only |-> {}, missing |-> FALSE]
Prove == [Plain EXCEPT !.mode = "prove"]

SomeArgs ==
    {Plain, [Plain EXCEPT !.hard = FALSE], [Plain EXCEPT !.missing = TRUE],
     [Plain EXCEPT !.fresh = TRUE, !.only = {p2}], [Plain EXCEPT !.noStore = TRUE, !.noRun = FALSE],
     Prove, [Prove EXCEPT !.byStep = TRUE, !.start = 1], [Prove EXCEPT !.complete = FALSE]}
=============================================================================
