------------------------------ MODULE Conductor ------------------------------
(***************************************************************************)
(* The sessions of dv/formal/conductor.py: "explore" finds a proof for     *)
(* every property and keeps it in strategies/step<N>.json, "prove" runs    *)
(* the proofs it kept.  A session may be interrupted at any point, and the *)
(* design may be another one in the next session.  Properties are ordered  *)
(* in steps: a proof for one step assumes the properties of lower steps.   *)
(* Commands run by shell() (module ShellService) end in any order.         *)
(* The strategies that are there at first are those of the repository.     *)
(***************************************************************************)
EXTENDS Integers, FiniteSets

CONSTANTS
    NumSteps,           \* bound on the steps of a design
    Props,              \* the names of properties
    Skipped,            \* SKIPPED_PROPS
    Designs,            \* what build/all.aig and build/all.ywmap may be
    StoreIn,            \* what the strategy files may be at first
    ArgsIn,             \* the command lines that are used
    MaxSessions         \* bound on the number of sessions

Steps == 0..(NumSteps - 1)

\* A design: the properties it has and those that hold, the step each of them has in
\* its name, and the number of steps, which statements ending in _Cover count for.
Design == [exists : SUBSET Props, holds : SUBSET Props, step : [Props -> Steps],
           steps : 1..NumSteps]

\* An entry of a strategy names properties, and the step they had when it was made.
Entry == [step : Steps, props : (SUBSET Props) \ {{}}]
StrategyFile == [decodes : BOOLEAN, entries : SUBSET Entry]
NoStrategy == [decodes |-> FALSE, entries |-> {}]

ASSUME ConductorAssumption ==
    /\ NumSteps \in Nat
    /\ Designs \subseteq Design
    /\ \A d \in Designs : \A p \in d.exists : d.step[p] < d.steps
    /\ StoreIn \subseteq [Steps -> StrategyFile]

VARIABLES
    design,             \* build/all.aig and build/all.ywmap of this session
    store,              \* each strategies/step<N>.json: whether it decodes, and to what
    args,               \* the command line
    selected,           \* the properties this session is about (main())
    phase,              \* where explore_mode() or prove_mode() is
    step,               \* the step it is at
    strategy,           \* the strategy in hand: of this step, or of all (prove)
    jobs,               \* the coroutines of one gather(): strategy entry -> state
    aiger_idx,          \* the next number for build/aiger-<n>.aig
    aiger,              \* the entry each of these files was made for
    exit,               \* how the session ended
    sessions,
    proved              \* auxiliary: the entries whose own file an engine answered with
                        \* 20, for the design of that time

files == <<aiger_idx, aiger>>
vars == <<design, store, args, selected, phase, step, strategy, jobs, files, exit,
          sessions, proved>>
session == <<design, args, selected, sessions>>

Below(s) == {p \in design.exists : design.step[p] < s}
AtStep(s) == {p \in selected : design.step[p] = s}
Covered(entries) == UNION {e.props : e \in entries}

\* aig-manip select: of the names of an entry, those are kept that the design has at the
\* step of the entry; the others are passed over, or assumed if their step is lower.
Kept(e) == {p \in e.props \cap design.exists : design.step[p] = e.step}

\* The properties of lower steps become assumptions, skipped ones as well.  An engine
\* answers 20 only if what is kept holds under them, and may do so if nothing is kept.
Provable(e) == Below(e.step) \subseteq design.holds => Kept(e) \subseteq design.holds

Init ==
    /\ design \in Designs
    /\ store \in StoreIn
    /\ args \in ArgsIn
    /\ selected = {} /\ phase = "off" /\ step = 0 /\ strategy = {}
    /\ jobs = [e \in {} |-> 0]
    /\ aiger_idx = 0 /\ aiger = [n \in {} |-> 0]
    /\ exit = "none" /\ sessions = 0
    /\ proved = UNION {store[s].entries : s \in Steps}

(***************************************************************************)
(* Files.                                                                  *)
(***************************************************************************)
\* load_strategy(): a file that is missing or does not decode counts as none.
load_strategy(s) == IF args.fresh THEN {} ELSE store[s].entries

missing_from(entries, props) == props \ Covered(entries)

\* -p and --missing; --missing is about the steps that have some strategy.
SelectedBy(a, d) ==
    LET lacking == {p \in d.exists : /\ ~a.fresh /\ store[d.step[p]].decodes
                                     /\ p \notin Covered(store[d.step[p]].entries)}
        chosen == a.only \cup (IF a.missing THEN lacking ELSE {})
    IN  (IF chosen = {} /\ ~a.missing THEN d.exists ELSE chosen \cap d.exists) \ Skipped

(***************************************************************************)
(* prepare_aiger() and the engine, one coroutine per strategy entry.       *)
(***************************************************************************)
Start(entries) == jobs' = [e \in entries |-> [pc |-> "new", name |-> 0, code |-> 0]]
AllAnswered == \A e \in DOMAIN jobs : jobs[e].pc = "done"

\* Mutant: the counter moves on after the await, when the file is written.
TakeName_Late(e) ==
    /\ e \in DOMAIN jobs /\ jobs[e].pc = "new"
    /\ jobs' = [jobs EXCEPT ![e].pc = "select", ![e].name = aiger_idx]
    /\ UNCHANGED <<session, store, phase, step, strategy, files, exit, proved>>

\* The name is taken, and the counter moved on, before the first await.
TakeName(e) ==
    /\ e \in DOMAIN jobs /\ jobs[e].pc = "new"
    /\ jobs' = [jobs EXCEPT ![e].pc = "select", ![e].name = aiger_idx]
    /\ aiger_idx' = aiger_idx + 1
    /\ UNCHANGED <<session, store, phase, step, strategy, aiger, exit, proved>>

\* The command aig-manip has written the file.
Select(e) ==
    /\ e \in DOMAIN jobs /\ jobs[e].pc = "select"
    /\ jobs' = [jobs EXCEPT ![e].pc = "engine"]
    /\ aiger' = [n \in DOMAIN aiger \cup {jobs[e].name} |->
                    IF n = jobs[e].name THEN e ELSE aiger[n]]
    /\ UNCHANGED <<session, store, phase, step, strategy, aiger_idx, exit, proved>>

\* The engine answers for the file that has this name now: 20 unsat, 10 sat,
\* 30 for anything else (undetermined, killed, timeout).
Answer(e, code) ==
    /\ e \in DOMAIN jobs /\ jobs[e].pc = "engine"
    /\ LET read == aiger[jobs[e].name]
       IN  /\ code = 20 => Provable(read)
           /\ code = 10 => ~Provable(read)
           /\ proved' = IF code = 20 THEN proved \cup {read} ELSE proved
    /\ jobs' = [jobs EXCEPT ![e].pc = "done", ![e].code = code]
    /\ UNCHANGED <<session, store, phase, step, strategy, files, exit>>

(***************************************************************************)
(* Sessions.                                                               *)
(***************************************************************************)
Begin(a, d) ==
    /\ phase = "off" /\ sessions < MaxSessions
    /\ a.only \subseteq d.exists            \* otherwise "Property not found", exit(1)
    /\ args' = a /\ design' = d
    /\ selected' = SelectedBy(a, d)
    /\ phase' = "step" /\ step' = 0 /\ strategy' = {}
    /\ aiger_idx' = 0
    /\ exit' = "none" /\ sessions' = sessions + 1
    /\ UNCHANGED <<store, jobs, aiger, proved>>

End(how) ==
    /\ phase' = "off" /\ exit' = how
    /\ jobs' = [e \in {} |-> 0]
    /\ UNCHANGED <<session, step, strategy, files, proved>>

\* An interrupt, or an exception: prepare_aiger() asserts that aig-manip succeeded.
Crash == phase # "off" /\ End("crash") /\ UNCHANGED store

NextStep == phase' = "step" /\ step' = step + 1

SkipStep ==
    /\ phase = "step" /\ step < design.steps /\ step < args.start
    /\ NextStep
    /\ UNCHANGED <<session, store, strategy, jobs, files, exit, proved>>

AtWork(mode) ==
    phase = "step" /\ args.mode = mode /\ step < design.steps /\ step >= args.start

(***************************************************************************)
(* explore_mode().                                                         *)
(***************************************************************************)
\* construct_strategy(): nothing is missing.
NothingToBuild ==
    /\ AtWork("explore")
    /\ missing_from(load_strategy(step), AtStep(step)) = {}
    /\ strategy' = load_strategy(step)
    /\ phase' = IF args.noRun THEN "next" ELSE "rerun"
    /\ UNCHANGED <<session, store, step, jobs, files, exit, proved>>

\* Mutant: the strategy that is there is forgotten.
Build_Afresh ==
    /\ AtWork("explore")
    /\ LET missing == missing_from(load_strategy(step), AtStep(step))
       IN  /\ missing # {}
           /\ IF args.hard
              THEN /\ Start({[step |-> step, props |-> {p}] : p \in missing})
                   /\ strategy' = {}
                   /\ phase' = "build"
                   /\ UNCHANGED <<session, step, files, exit, proved>>
              ELSE End("crash")
    /\ UNCHANGED store

\* With --hard every missing property gets a proof of its own, in parallel.  The
\* race of explore() is then one of a single task; without --hard it has two,
\* and race() raises RuntimeError: each wrapper awaits the last task.
Build ==
    /\ AtWork("explore")
    /\ LET missing == missing_from(load_strategy(step), AtStep(step))
       IN  /\ missing # {}
           /\ IF args.hard
              THEN /\ Start({[step |-> step, props |-> {p}] : p \in missing})
                   /\ strategy' = load_strategy(step)
                   /\ phase' = "build"
                   /\ UNCHANGED <<session, step, files, exit, proved>>
              ELSE End("crash")
    /\ UNCHANGED store

\* What was refuted or not decided is left out.
Built ==
    /\ phase = "build" /\ AllAnswered
    /\ strategy' = strategy \cup {e \in DOMAIN jobs : jobs[e].code = 20}
    /\ phase' = IF ~args.noStore THEN "open" ELSE "built"
    /\ UNCHANGED <<session, store, step, jobs, files, exit, proved>>

\* store_strategy(): open() empties the file, dump() fills it; an exception of
\* either is logged and forgotten.
OpenStore ==
    /\ phase = "open"
    /\ store' = [store EXCEPT ![step] = NoStrategy]
    /\ phase' = "dump"
    /\ UNCHANGED <<session, step, strategy, jobs, files, exit, proved>>

DumpStore ==
    /\ phase = "dump"
    /\ \/ store' = [store EXCEPT ![step] = [decodes |-> TRUE, entries |-> strategy]]
       \/ UNCHANGED store
    /\ phase' = "built"
    /\ UNCHANGED <<session, step, strategy, jobs, files, exit, proved>>

\* A strategy of one entry was proved a moment ago.
AfterBuild ==
    /\ phase = "built"
    /\ phase' = IF args.noRun \/ Cardinality(strategy) = 1 THEN "next" ELSE "rerun"
    /\ UNCHANGED <<session, store, step, strategy, jobs, files, exit, proved>>

Rerun ==
    /\ phase = "rerun"
    /\ Start(strategy)
    /\ phase' = "run"
    /\ UNCHANGED <<session, store, step, strategy, files, exit, proved>>

\* run_strategy() of one step ends; its results are only logged.
StepRan ==
    /\ phase = "next" \/ (phase = "run" /\ AllAnswered)
    /\ NextStep
    /\ UNCHANGED <<session, store, strategy, jobs, files, exit, proved>>

Explored ==
    /\ phase = "step" /\ args.mode = "explore" /\ step = design.steps
    /\ End("0") /\ UNCHANGED store

(***************************************************************************)
(* prove_mode().                                                           *)
(***************************************************************************)
LoadStep ==
    /\ AtWork("prove")
    /\ LET loaded == load_strategy(step)
       IN  /\ strategy' = strategy \cup loaded
           /\ IF args.byStep /\ loaded # {}
              THEN Start(loaded) /\ phase' = "run" /\ UNCHANGED step
              ELSE NextStep /\ UNCHANGED jobs
    /\ UNCHANGED <<session, store, files, exit, proved>>

\* --check-complete looks at names only; then everything runs at once.
RunAll ==
    /\ phase = "step" /\ args.mode = "prove" /\ step = design.steps
    /\ IF args.complete /\ ~(selected \subseteq Covered(strategy)) THEN End("1")
       ELSE IF args.byStep THEN End("0")
       ELSE /\ Start(strategy)
            /\ phase' = "final"
            /\ UNCHANGED <<session, step, strategy, files, exit, proved>>
    /\ UNCHANGED store

\* Mutant: a session fails only if a proof was refuted.
AllRan_Undecided ==
    /\ phase = "final" /\ AllAnswered
    /\ End(IF \A e \in DOMAIN jobs : jobs[e].code # 10 THEN "0" ELSE "1")
    /\ UNCHANGED store

AllRan ==
    /\ phase = "final" /\ AllAnswered
    /\ End(IF \A e \in DOMAIN jobs : jobs[e].code = 20 THEN "0" ELSE "1")
    /\ UNCHANGED store

Next ==
    \/ \E a \in ArgsIn, d \in Designs : Begin(a, d)
    \/ \E e \in DOMAIN jobs : TakeName(e) \/ Select(e) \/ \E code \in {10, 20, 30} : Answer(e, code)
    \/ Crash \/ SkipStep
    \/ NothingToBuild \/ Build \/ Built \/ OpenStore \/ DumpStore \/ AfterBuild \/ Rerun
    \/ StepRan \/ Explored
    \/ LoadStep \/ RunAll \/ AllRan

Spec == Init /\ [][Next]_vars

(***************************************************************************)
(* Properties.                                                             *)
(***************************************************************************)
TypeOK ==
    /\ design \in Designs /\ selected \subseteq Props
    /\ store \in [Steps -> StrategyFile]
    /\ strategy \subseteq Entry
    /\ step \in 0..NumSteps
    /\ aiger_idx \in Nat
    /\ aiger \in [DOMAIN aiger -> Entry]
    /\ DOMAIN jobs \subseteq Entry
    /\ jobs \in [DOMAIN jobs -> [pc : {"new", "select", "engine", "done"}, name : Nat,
                                 code : {0, 10, 20, 30}]]

\* While coroutines take names and commands end in any order, a file is made for
\* one entry, and the engine of an entry reads the file made for it.
OwnFiles ==
    \A e \in DOMAIN jobs :
        /\ jobs[e].pc # "new" =>
             /\ jobs[e].name < aiger_idx
             /\ \A f \in DOMAIN jobs \ {e} :
                    jobs[f].pc # "new" => jobs[f].name # jobs[e].name
        /\ jobs[e].pc = "engine" => jobs[e].name \in DOMAIN aiger /\ aiger[jobs[e].name] = e

\* Whatever crashes, half-written files, changes of the design and restricted
\* sessions there were: a strategy file names only proofs that an engine has
\* completed, for the very properties the entry names, or that were there at first.
StoredProved == \A s \in Steps : store[s].entries \subseteq proved

AnsweredProvable ==
    /\ strategy \subseteq proved
    /\ \A e \in DOMAIN jobs :
          /\ jobs[e].code # 0 <=> jobs[e].pc = "done"
          /\ jobs[e].code = 20 => e \in proved /\ Provable(e)

\* What prove_mode() has established when its last gather() runs, and when it
\* has ended with 0.
Selection ==
    (phase # "off" \/ exit # "none") /\ args.only = {} /\ ~args.missing
        => selected = design.exists \ Skipped
Checked == args.complete => selected \subseteq Covered(strategy)
EndOfProve ==
    /\ phase = "final" => DOMAIN jobs = strategy /\ Checked
    /\ exit = "0" => phase = "off"
    /\ exit = "0" /\ args.mode = "prove" /\ ~args.byStep
           => Checked /\ \A e \in strategy : Provable(e)

\* The strategy that is about to be stored extends the one that is there.
Extends ==
    /\ phase \in {"build", "open", "dump", "built", "next", "rerun", "run"} => step \in Steps
    /\ phase \in {"build", "open", "dump"} /\ ~args.fresh => store[step].entries \subseteq strategy

\* No coroutine outlives its session.
Idle == phase = "off" => jobs = [e \in {} |-> 0]

IInv ==
    /\ TypeOK /\ OwnFiles /\ StoredProved /\ AnsweredProvable
    /\ Selection /\ EndOfProve /\ Extends /\ Idle

\* prove, told to check for completeness and not restricted, ends with 0.
Certified ==
    /\ exit = "0" /\ args.mode = "prove" /\ args.complete /\ ~args.byStep
    /\ args.only = {} /\ ~args.missing

\* No property that a strategy in hand names is at another step in this design.
Unmoved == \A e \in strategy : \A p \in e.props \cap design.exists : design.step[p] = e.step

\* prove --check-complete that exits with 0 has proved the design, all of it, if
\* the skipped properties hold and none has moved to another step since the
\* strategies were made: strategies that are stale, incomplete, of another design
\* with more or fewer properties, or lost do not lead to a wrong 0, although every
\* proof assumes the properties of the steps below.
CertificateSound ==
    Certified /\ Unmoved /\ Skipped \cap design.exists \subseteq design.holds
        => design.exists \subseteq design.holds

\* What the help text of --check-complete says: it fails if there are properties that
\* are not skipped and have no proof.  A proof of a property is one of an entry that
\* keeps it.
CompleteHasProofs ==
    Certified => \A p \in design.exists \ Skipped : \E e \in strategy : p \in Kept(e)

\* A file is rewritten with what it had, unless --fresh asks to forget it: when
\* store_strategy() empties the file, the strategy in hand has every entry of it.
KeepsProofs ==
    [][\A s \in Steps :
          store[s] # store'[s] /\ ~args.fresh => store[s].entries \subseteq strategy]_vars
=============================================================================
