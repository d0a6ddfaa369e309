----------------------------- MODULE ShellService -----------------------------
(***************************************************************************)
(* What shell() in dv/formal/conductor.py promises the proof coroutines: a *)
(* command that was handed in runs, perhaps several times, never with more *)
(* than MAX_RUNNING at once, and its future is resolved at most once, by a *)
(* run of the command itself; a future that was cancelled stays cancelled. *)
(***************************************************************************)
EXTENDS Integers, FiniteSets

CONSTANTS
    Procs,          \* the commands of one run of the program
    MAX_RUNNING     \* commands that may run at a time

VARIABLES
    fut,            \* the future of each command
    active          \* the commands that run

Outcome == {"OK", "TIMEOUT"}

Init == fut = [p \in Procs |-> "new"] /\ active = {}

Submit(p) ==
    /\ fut[p] = "new"
    /\ fut' = [fut EXCEPT ![p] = "waiting"]
    /\ UNCHANGED active

Cancel(p) ==
    /\ fut[p] = "waiting"
    /\ fut' = [fut EXCEPT ![p] = "cancelled"]
    /\ UNCHANGED active

Start(p) ==
    /\ fut[p] \in {"waiting", "cancelled"}
    /\ p \notin active
    /\ Cardinality(active) < MAX_RUNNING
    /\ active' = active \cup {p}
    /\ UNCHANGED fut

\* A run is given up: it will be repeated, or nobody waits for it.
Stop(p) ==
    /\ p \in active
    /\ active' = active \ {p}
    /\ UNCHANGED fut

Finish(p, outcome) ==
    /\ p \in active
    /\ fut[p] = "waiting"
    /\ fut' = [fut EXCEPT ![p] = outcome]
    /\ active' = active \ {p}

Next ==
    \E p \in Procs :
        \/ Submit(p) \/ Cancel(p) \/ Start(p) \/ Stop(p)
        \/ \E outcome \in Outcome : Finish(p, outcome)

Spec == Init /\ [][Next]_<<fut, active>>
=============================================================================
