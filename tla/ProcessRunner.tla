---------------------------- MODULE ProcessRunner ----------------------------
(***************************************************************************)
(* Process and ProcessRunner of dv/formal/conductor.py: the scheduler that *)
(* runs the proof engines within the processors and the memory of the      *)
(* machine.  append() and cancel() are called by coroutines, so never      *)
(* inside a poll(); the commands themselves run beside the poll, which is  *)
(* therefore split at every point where it looks at one of them.           *)
(***************************************************************************)
EXTENDS Integers, FiniteSets, SequencesExt

CONSTANTS
    Procs,              \* the Process objects of one run of the program
    MAX_RUNNING,        \* commands that may run at a time
    TotalMem,           \* GB that are available when no command runs
    MaxMemArg,          \* args.max_mem; 0: all memory may be used
    NoKill,             \* args.no_kill
    Timed,              \* the processes that were given a timeout
    Expected,           \* the memory each is expected to take when submitted
    Needs               \* the memory each really takes once it has grown

ASSUME ConstantsAssumption ==
    /\ MAX_RUNNING \in Nat /\ TotalMem \in Nat /\ MaxMemArg \in Nat
    /\ NoKill \in BOOLEAN /\ Timed \subseteq Procs
    /\ Expected \in [Procs -> Nat] /\ Needs \in [Procs -> Nat]

GLOBAL_MEMORY_BUFFER == 5   \* GB that are never given out
MIN_CHARGE == 3             \* GB a start or a kill accounts for at least

VARIABLES
    pending, running,   \* the lists of ProcessRunner; pending is served from its end
    kill,               \* Process.kill_, as it is outside of KillLast
    os,                 \* the command: not there, alive, alive past the timeout, exited
    rss,                \* the memory it has now
    max_memory,         \* the largest rss that poll() has seen in this run
    expected_memory,
    fut,                \* Process.future
    pc,                 \* where the loop of ProcessRunner.poll() is
    free,               \* the local variable free of poll()
    idx                 \* the local variable p of poll(), counted from 1

lists == <<pending, running>>
command == <<os, rss>>
memory == <<max_memory, expected_memory>>
runner_vars == <<lists, kill, command, memory, fut, pc, free, idx>>

MaxOf(a, b) == IF a > b THEN a ELSE b
MinOf(a, b) == IF a < b THEN a ELSE b
Alive(p) == os[p] \in {"alive", "late"}

global_memory_free == MaxOf(TotalMem - SumFunctionOnSet(rss, Procs), 0)
children_used_mem == SumFunctionOnSet(max_memory, ToSet(running))
mem_avail ==
    IF MaxMemArg = 0 THEN global_memory_free
    ELSE MinOf(global_memory_free, MaxOf(MaxMemArg - children_used_mem, 0))

RunnerInit ==
    /\ pending = <<>> /\ running = <<>>
    /\ kill = [p \in Procs |-> FALSE]
    /\ os = [p \in Procs |-> "none"]
    /\ rss = [p \in Procs |-> 0]
    /\ max_memory = [p \in Procs |-> 0]
    /\ expected_memory = Expected
    /\ fut = [p \in Procs |-> "new"]
    /\ pc = "idle" /\ free = 0 /\ idx = 1

(***************************************************************************)
(* The coroutines.                                                         *)
(***************************************************************************)
\* shell() makes a Process and puts it at the front of pending.
Append_(p) ==
    /\ pc = "idle"
    /\ fut[p] = "new"
    /\ fut' = [fut EXCEPT ![p] = "waiting"]
    /\ pending' = <<p>> \o pending
    /\ UNCHANGED <<running, kill, command, memory, pc, free, idx>>

\* A race that is over cancels the futures of the tasks that lost.
Cancel(p) ==
    /\ pc = "idle"
    /\ fut[p] = "waiting"
    /\ fut' = [fut EXCEPT ![p] = "cancelled"]
    /\ kill' = [kill EXCEPT ![p] = TRUE]
    /\ UNCHANGED <<lists, command, memory, pc, free, idx>>

(***************************************************************************)
(* The operating system.                                                   *)
(***************************************************************************)
Exit(p) ==
    /\ Alive(p)
    /\ os' = [os EXCEPT ![p] = "exited"]
    /\ rss' = [rss EXCEPT ![p] = 0]
    /\ UNCHANGED <<lists, kill, memory, fut, pc, free, idx>>

Grow(p) ==
    /\ Alive(p)
    /\ rss[p] # Needs[p]
    /\ rss' = [rss EXCEPT ![p] = Needs[p]]
    /\ UNCHANGED <<lists, kill, os, memory, fut, pc, free, idx>>

\* The time since the start exceeds the timeout.
Overrun(p) ==
    /\ p \in Timed /\ os[p] = "alive"
    /\ os' = [os EXCEPT ![p] = "late"]
    /\ UNCHANGED <<lists, kill, rss, memory, fut, pc, free, idx>>

(***************************************************************************)
(* ProcessRunner.poll().                                                   *)
(***************************************************************************)
BeginPoll ==
    /\ pc = "idle"
    /\ pc' = "kill"
    /\ free' = mem_avail
    /\ UNCHANGED <<lists, kill, command, memory, fut, idx>>

MustKill == ~NoKill /\ free < GLOBAL_MEMORY_BUFFER /\ Len(running) > 1

\* Mutant: the killed command is not queued again.
KillLast_Lost ==
    /\ pc = "kill" /\ MustKill
    /\ LET last == Last(running)
           seen == MaxOf(rss[last], max_memory[last])
       IN  /\ free' = free + MaxOf(max_memory[last], MIN_CHARGE)
           /\ max_memory' = [max_memory EXCEPT ![last] = seen]
           /\ expected_memory' = [expected_memory EXCEPT ![last] = MaxOf(@, seen)]
           /\ os' = [os EXCEPT ![last] = "none"]
           /\ rss' = [rss EXCEPT ![last] = 0]
           /\ kill' = [kill EXCEPT ![last] = FALSE]
           /\ running' = Front(running)
    /\ UNCHANGED <<pending, fut, pc, idx>>

\* The command that started last is killed and queued again: kill_restart()
\* replaces whatever kill_ was, and poll() takes its "restart" branch.
KillLast ==
    /\ pc = "kill" /\ MustKill
    /\ LET last == Last(running)
           seen == MaxOf(rss[last], max_memory[last])
       IN  /\ free' = free + MaxOf(max_memory[last], MIN_CHARGE)
           /\ max_memory' = [max_memory EXCEPT ![last] = seen]
           /\ expected_memory' = [expected_memory EXCEPT ![last] = MaxOf(@, seen)]
           /\ os' = [os EXCEPT ![last] = "none"]
           /\ rss' = [rss EXCEPT ![last] = 0]
           /\ kill' = [kill EXCEPT ![last] = FALSE]
           /\ running' = Front(running)
           /\ pending' = Append(pending, last)
    /\ UNCHANGED <<fut, pc, idx>>

KillsDone ==
    /\ pc = "kill" /\ ~MustKill
    /\ pc' = "start"
    /\ UNCHANGED <<lists, kill, command, memory, fut, free, idx>>

CanStart ==
    /\ Len(running) < MAX_RUNNING
    /\ pending # <<>>
    /\ free > expected_memory[Last(pending)] + GLOBAL_MEMORY_BUFFER

\* Process.start() of the last entry of pending.
StartNext ==
    /\ pc = "start" /\ CanStart
    /\ LET last == Last(pending)
       IN  /\ free' = free - MaxOf(expected_memory[last], MIN_CHARGE)
           /\ max_memory' = [max_memory EXCEPT ![last] = 0]
           /\ os' = [os EXCEPT ![last] = "alive"]
           /\ running' = Append(running, last)
    /\ pending' = Front(pending)
    /\ UNCHANGED <<kill, rss, expected_memory, fut, pc, idx>>

StartsDone ==
    /\ pc = "start" /\ ~CanStart
    /\ pc' = "drop"
    /\ free' = 0                    \* not read before the next poll
    /\ UNCHANGED <<lists, kill, command, memory, fut, idx>>

\* What Process.poll() makes of a command, in the order of its branches.
\* The branch for "restart" is taken in KillLast only.
Verdict(p) ==
    IF os[p] = "exited" /\ ~kill[p] THEN "OK"
    ELSE IF os[p] = "late" THEN "TIMEOUT"
    ELSE IF kill[p] THEN "UNINTERESTED"
    ELSE "running"

\* Mutant: the result is set whether or not the future was cancelled.
PollDrops_Always(p) ==
    /\ Verdict(p) # "running"
    /\ fut' = [fut EXCEPT ![p] = Verdict(p)]
    /\ os' = [os EXCEPT ![p] = "none"]
    /\ rss' = [rss EXCEPT ![p] = 0]
    /\ running' = RemoveAt(running, idx)
    /\ UNCHANGED idx

\* The result is set unless the future was cancelled; the process is dropped.
PollDrops(p) ==
    /\ Verdict(p) # "running"
    /\ fut' = [fut EXCEPT ![p] = IF @ = "cancelled" THEN @ ELSE Verdict(p)]
    /\ os' = [os EXCEPT ![p] = "none"]
    /\ rss' = [rss EXCEPT ![p] = 0]
    /\ running' = RemoveAt(running, idx)
    /\ UNCHANGED idx

PollKeeps(p) ==
    /\ Verdict(p) = "running"
    /\ idx' = idx + 1
    /\ UNCHANGED <<running, command, fut>>

PollProc ==
    /\ pc = "drop" /\ idx <= Len(running)
    /\ LET p == running[idx]
       IN  /\ max_memory' = [max_memory EXCEPT ![p] = MaxOf(rss[p], @)]
           /\ PollDrops(p) \/ PollKeeps(p)
    /\ UNCHANGED <<pending, kill, expected_memory, pc, free>>

\* call_later() polls again.
EndPoll ==
    /\ pc = "drop" /\ idx > Len(running)
    /\ pc' = "idle" /\ idx' = 1
    /\ UNCHANGED <<lists, kill, command, memory, fut, free>>

Poll == BeginPoll \/ KillLast \/ KillsDone \/ StartNext \/ StartsDone
        \/ PollProc \/ EndPoll
Coroutine == \E p \in Procs : Append_(p) \/ Cancel(p)
System == \E p \in Procs : Exit(p) \/ Grow(p) \/ Overrun(p)
RunnerNext == Poll \/ Coroutine \/ System

RunnerSpec == RunnerInit /\ [][RunnerNext]_runner_vars

(***************************************************************************)
(* Properties.                                                             *)
(***************************************************************************)
Queued == ToSet(pending) \cup ToSet(running)

RunnerTypeOK ==
    /\ pending \in Seq(Procs) /\ running \in Seq(Procs)
    /\ kill \in [Procs -> BOOLEAN]
    /\ os \in [Procs -> {"none", "alive", "late", "exited"}]
    /\ fut \in [Procs -> {"new", "waiting", "cancelled", "OK", "TIMEOUT"}]
    /\ pc \in {"idle", "kill", "start", "drop"}
    /\ idx \in 1..(Len(running) + 1)
    /\ pc # "drop" => idx = 1

\* Through kills, restarts and drops in the middle of the list, a process is in
\* one place of one list, and at most MAX_RUNNING run.
ListsOK ==
    /\ IsInjective(pending) /\ IsInjective(running)
    /\ ToSet(pending) \cap ToSet(running) = {}
    /\ Len(running) <= MAX_RUNNING

\* A process in a list has an unresolved future: set_result() of Process.poll()
\* never meets a resolved one, whose InvalidStateError would end the poll loop.
\* And whoever waits for a future waits for a process that is in a list.
AwaitedIsQueued ==
    \A p \in Procs :
        /\ p \in Queued => fut[p] \in {"waiting", "cancelled"}
        /\ fut[p] = "waiting" => p \in Queued

\* poll() looks at every command that exists: none outlives the entry of its
\* process in running, and Process.poll() never meets a process without command.
NoOrphan ==
    \A p \in Procs : os[p] # "none" <=> p \in ToSet(running)

\* Only cancel() marks a process to be killed: no future that somebody awaits is
\* resolved as UNINTERESTED.
OnlyCancelledKilled ==
    \A p \in Procs : kill[p] => fut[p] = "cancelled"

RunnerInv == RunnerTypeOK /\ ListsOK /\ AwaitedIsQueued /\ NoOrphan /\ OnlyCancelledKilled

\* The runner implements the service.
Service == INSTANCE ShellService WITH active <- ToSet(running)
ServiceSpec == Service!Spec

\* Every command that was handed in is answered, or given up by its caller: no
\* series of kills, restarts and starts passes one over for ever, where none
\* needs, or is expected to need, more than the memory but the buffer.
Answered == \A p \in Procs : fut[p] = "waiting" ~> fut[p] # "waiting"
=============================================================================
