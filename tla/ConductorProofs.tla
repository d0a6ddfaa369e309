--------------------------- MODULE ConductorProofs ---------------------------
(***************************************************************************)
(* Proofs about conductor.py.  The first part is about its scheduler       *)
(* (ProcessRunner), for any number of commands and processors and any      *)
(* sizes of memory; the second is about its sessions (Conductor), for any  *)
(* number of steps, properties, sessions and designs.                      *)
(***************************************************************************)
EXTENDS Conductor, ProcessRunner, FiniteSetTheorems, SequenceTheorems,
        WellFoundedInduction, TLAPS

(***************************************************************************)
(* What the list operations of poll() do to the entries of a list.         *)
(***************************************************************************)
LEMMA Entries ==
    ASSUME NEW S, NEW s \in Seq(S)
    PROVE  /\ Len(s) \in Nat /\ DOMAIN s = 1..Len(s)
           /\ \A y : y \in ToSet(s) <=> \E i \in 1..Len(s) : s[i] = y
           /\ IsInjective(s) <=> \A i, j \in 1..Len(s) : s[i] = s[j] => i = j
  BY DEF ToSet, IsInjective

LEMMA AppendFacts ==
    ASSUME NEW S, NEW s \in Seq(S), NEW x \in S
    PROVE  /\ Append(s, x) \in Seq(S) /\ Len(Append(s, x)) = Len(s) + 1
           /\ ToSet(Append(s, x)) = ToSet(s) \cup {x}
           /\ IsInjective(s) /\ x \notin ToSet(s) => IsInjective(Append(s, x))
  BY DEF ToSet, IsInjective

LEMMA PrependFacts ==
    ASSUME NEW S, NEW s \in Seq(S), NEW x \in S
    PROVE  /\ <<x>> \o s \in Seq(S)
           /\ ToSet(<<x>> \o s) = ToSet(s) \cup {x}
           /\ IsInjective(s) /\ x \notin ToSet(s) => IsInjective(<<x>> \o s)
<1> DEFINE t == <<x>> \o s
<1>1. /\ t \in Seq(S) /\ Len(t) = Len(s) + 1
      /\ t[1] = x
      /\ \A i \in 1..Len(s) : t[i + 1] = s[i]
  OBVIOUS
<1> HIDE DEF t
<1>2. \A i \in 2..Len(t) : i - 1 \in 1..Len(s) /\ t[i] = s[i - 1]
  BY <1>1
<1>3. /\ Len(s) \in Nat
      /\ \A y : y \in ToSet(s) <=> \E i \in 1..Len(s) : s[i] = y
      /\ IsInjective(s) <=> \A i, j \in 1..Len(s) : s[i] = s[j] => i = j
  BY Entries
<1>4. /\ \A y : y \in ToSet(t) <=> \E i \in 1..Len(t) : t[i] = y
      /\ IsInjective(t) <=> \A i, j \in 1..Len(t) : t[i] = t[j] => i = j
  BY <1>1, Entries
<1>5. ToSet(t) = ToSet(s) \cup {x}
  <2>1. ASSUME NEW y \in ToSet(t) PROVE y \in ToSet(s) \cup {x}
    BY <1>1, <1>2, <1>3, <1>4
  <2>2. ASSUME NEW y \in ToSet(s) PROVE y \in ToSet(t)
    <3>1. PICK i \in 1..Len(s) : s[i] = y
      BY <1>3
    <3>2. i + 1 \in 1..Len(t) /\ t[i + 1] = y
      BY <3>1, <1>1, <1>3
    <3> QED BY <3>2, <1>4
  <2>3. x \in ToSet(t)
    BY <1>1, <1>3, <1>4
  <2> QED BY <2>1, <2>2, <2>3
<1>6. ASSUME IsInjective(s), x \notin ToSet(s) PROVE IsInjective(t)
  <2> SUFFICES ASSUME NEW i \in 1..Len(t), NEW j \in 1..Len(t), t[i] = t[j]
               PROVE  i = j
    BY <1>4
  <2>1. \A k \in 2..Len(t) : t[k] # x
    BY <1>2, <1>3, <1>6
  <2>2. CASE i = 1 \/ j = 1
    BY <2>1, <2>2, <1>1
  <2>3. CASE i # 1 /\ j # 1
    <3>1. i \in 2..Len(t) /\ j \in 2..Len(t)
      BY <2>3, <1>1
    <3>2. s[i - 1] = s[j - 1] /\ i - 1 \in 1..Len(s) /\ j - 1 \in 1..Len(s)
      BY <3>1, <1>2
    <3>3. i - 1 = j - 1
      BY <3>2, <1>3, <1>6
    <3> QED BY <3>3
  <2> QED BY <2>2, <2>3
<1> QED BY <1>1, <1>5, <1>6 DEF t

\* Removing the i-th entry of a list without duplicates.
LEMMA Removed ==
    ASSUME NEW S, NEW s \in Seq(S), NEW i \in 1..Len(s), IsInjective(s),
           NEW t \in Seq(S), Len(t) = Len(s) - 1,
           \A j \in 1..(Len(s) - 1) : t[j] = IF j < i THEN s[j] ELSE s[j + 1]
    PROVE  /\ ToSet(t) = ToSet(s) \ {s[i]} /\ s[i] \in ToSet(s)
           /\ IsInjective(t)
<1>1. /\ Len(s) \in Nat
      /\ \A y : y \in ToSet(s) <=> \E k \in 1..Len(s) : s[k] = y
      /\ \A k, l \in 1..Len(s) : s[k] = s[l] => k = l
  BY Entries
<1>2. /\ \A y : y \in ToSet(t) <=> \E k \in 1..Len(t) : t[k] = y
      /\ IsInjective(t) <=> \A k, l \in 1..Len(t) : t[k] = t[l] => k = l
  BY Entries
<1> DEFINE from(k) == IF k < i THEN k ELSE k + 1
<1>3. \A k \in 1..Len(t) : from(k) \in 1..Len(s) /\ from(k) # i /\ t[k] = s[from(k)]
  BY <1>1
<1>4. \A k, l \in 1..Len(t) : from(k) = from(l) => k = l
  BY <1>1
<1>5. \A k \in 1..Len(s) : k # i => \E l \in 1..Len(t) : from(l) = k
  <2> SUFFICES ASSUME NEW k \in 1..Len(s), k # i
               PROVE  \E l \in 1..Len(t) : from(l) = k
    OBVIOUS
  <2>1. CASE k < i
    <3>1. k \in 1..Len(t) /\ from(k) = k
      BY <2>1, <1>1
    <3> QED BY <3>1
  <2>2. CASE ~(k < i)
    <3>1. k - 1 \in 1..Len(t) /\ from(k - 1) = k
      BY <2>2, <1>1
    <3> QED BY <3>1
  <2> QED BY <2>1, <2>2
<1> HIDE DEF from
<1>6. \A y \in ToSet(t) : y \in ToSet(s) /\ y # s[i]
  BY <1>1, <1>2, <1>3
<1>7. \A y \in ToSet(s) : y # s[i] => y \in ToSet(t)
  <2> SUFFICES ASSUME NEW y \in ToSet(s), y # s[i] PROVE y \in ToSet(t)
    OBVIOUS
  <2>1. PICK k \in 1..Len(s) : s[k] = y
    BY <1>1
  <2>2. PICK m \in 1..Len(t) : from(m) = k
    BY <2>1, <1>5
  <2> QED BY <2>1, <2>2, <1>2, <1>3
<1>8. IsInjective(t)
  BY <1>1, <1>2, <1>3, <1>4
<1> QED BY <1>1, <1>6, <1>7, <1>8

LEMMA RemoveFacts ==
    ASSUME NEW S, NEW s \in Seq(S), NEW i \in 1..Len(s), IsInjective(s)
    PROVE  /\ RemoveAt(s, i) \in Seq(S) /\ Len(RemoveAt(s, i)) = Len(s) - 1
           /\ s[i] \in ToSet(s)
           /\ ToSet(RemoveAt(s, i)) = ToSet(s) \ {s[i]}
           /\ IsInjective(RemoveAt(s, i))
<1> DEFINE l == SubSeq(s, 1, i - 1)
           r == SubSeq(s, i + 1, Len(s))
<1>1. l \in Seq(S) /\ Len(l) = i - 1 /\ \A j \in 1..(i - 1) : l[j] = s[j]
  OBVIOUS
<1>2. /\ r \in Seq(S) /\ Len(r) = Len(s) - i
      /\ \A j \in 1..(Len(s) - i) : r[j] = s[i + j]
  OBVIOUS
<1> HIDE DEF l, r
<1>3. /\ l \o r \in Seq(S) /\ Len(l \o r) = Len(s) - 1
      /\ \A j \in 1..(Len(s) - 1) : (l \o r)[j] = IF j < i THEN s[j] ELSE s[j + 1]
  <2>1. Len(s) \in Nat /\ Len(l) + Len(r) = Len(s) - 1
    BY <1>1, <1>2
  <2>2. /\ l \o r \in Seq(S) /\ Len(l \o r) = Len(l) + Len(r)
        /\ \A j \in 1..(Len(l) + Len(r)) :
              (l \o r)[j] = IF j <= Len(l) THEN l[j] ELSE r[j - Len(l)]
    BY <1>1, <1>2, ConcatProperties
  <2>3. ASSUME NEW j \in 1..(Len(s) - 1)
        PROVE  (l \o r)[j] = IF j < i THEN s[j] ELSE s[j + 1]
    <3>1. CASE j < i
      BY <2>1, <2>2, <3>1, <1>1
    <3>2. CASE ~(j < i)
      <4>1. (l \o r)[j] = r[j - (i - 1)] /\ j - (i - 1) \in 1..(Len(s) - i)
        BY <2>1, <2>2, <3>2, <1>1
      <4>2. r[j - (i - 1)] = s[i + (j - (i - 1))] /\ i + (j - (i - 1)) = j + 1
        BY <4>1, <1>2
      <4> QED BY <4>1, <4>2, <3>2
    <3> QED BY <3>1, <3>2
  <2> QED BY <2>1, <2>2, <2>3
<1>4. RemoveAt(s, i) = l \o r
  BY DEF RemoveAt, l, r
<1>5. /\ ToSet(l \o r) = ToSet(s) \ {s[i]} /\ s[i] \in ToSet(s)
      /\ IsInjective(l \o r)
  BY <1>3, Removed
<1> QED BY <1>3, <1>4, <1>5

LEMMA FrontFacts ==
    ASSUME NEW S, NEW s \in Seq(S), s # <<>>, IsInjective(s)
    PROVE  /\ Front(s) \in Seq(S) /\ Len(Front(s)) = Len(s) - 1
           /\ Last(s) \in ToSet(s) /\ Last(s) \in S
           /\ ToSet(Front(s)) = ToSet(s) \ {Last(s)}
           /\ IsInjective(Front(s))
<1> DEFINE n == Len(s)
           f == SubSeq(s, 1, n - 1)
<1>1. n \in Nat /\ n \in 1..n
  OBVIOUS
<1>2. f \in Seq(S) /\ Len(f) = n - 1 /\ \A j \in 1..(n - 1) : f[j] = s[j]
  <2>1. n - 1 \in 0..n /\ \A j \in 1..(n - 1) : s[j] \in S
    BY <1>1
  <2> HIDE DEF n
  <2>2. /\ f \in Seq(S) /\ Len(f) = IF 1 <= n - 1 THEN n - 1 - 1 + 1 ELSE 0
        /\ \A j \in 1..(n - 1 - 1 + 1) : f[j] = s[1 + j - 1]
    BY <1>1, <2>1, SubSeqProperties
  <2> QED BY <1>1, <2>1, <2>2
<1> HIDE DEF f
<1>3. \A j \in 1..(n - 1) : f[j] = IF j < n THEN s[j] ELSE s[j + 1]
  BY <1>1, <1>2
<1>4. ToSet(f) = ToSet(s) \ {s[n]} /\ s[n] \in ToSet(s) /\ IsInjective(f)
  BY <1>1, <1>2, <1>3, Removed
<1>5. Front(s) = f /\ Last(s) = s[n]
  BY DEF Front, Last, f
<1>6. s[n] \in S
  BY <1>1
<1> QED BY <1>2, <1>4, <1>5, <1>6

\* A list with a bounded length holds a bounded number of processes.
LEMMA FewEntries ==
    ASSUME NEW S, NEW s \in Seq(S)
    PROVE  IsFiniteSet(ToSet(s)) /\ Cardinality(ToSet(s)) <= Len(s)
<1>1. s \in Surjection(1..Len(s), ToSet(s))
  BY DEF Surjection, ToSet
<1>2. Len(s) \in Nat
  OBVIOUS
<1>3. IsFiniteSet(1..Len(s)) /\ Cardinality(1..Len(s)) = IF 1 > Len(s) THEN 0 ELSE Len(s) - 1 + 1
  BY <1>2, FS_Interval
<1>4. Cardinality(1..Len(s)) = Len(s)
  BY <1>2, <1>3
<1> QED BY <1>1, <1>3, <1>4, FS_Surjection

(***************************************************************************)
(* The invariant, one lemma per action that changes a list.                *)
(***************************************************************************)
LEMMA NoEntries == ToSet(<<>>) = {} /\ IsInjective(<<>>)
  BY DEF ToSet, IsInjective

LEMMA InitInv == RunnerInit => RunnerInv
<1> SUFFICES ASSUME RunnerInit PROVE RunnerInv
  OBVIOUS
<1>1. RunnerTypeOK
  BY DEF RunnerInit, RunnerTypeOK
<1>2. ListsOK
  BY NoEntries, ConstantsAssumption DEF RunnerInit, ListsOK
<1>3. AwaitedIsQueued /\ NoOrphan /\ OnlyCancelledKilled
  BY NoEntries DEF RunnerInit, AwaitedIsQueued, NoOrphan, OnlyCancelledKilled, Queued
<1> QED BY <1>1, <1>2, <1>3 DEF RunnerInv

LEMMA AppendInv == ASSUME NEW p \in Procs, RunnerInv, Append_(p) PROVE RunnerInv'
<1>1. p \notin ToSet(pending) /\ p \notin ToSet(running)
  BY DEF RunnerInv, AwaitedIsQueued, Append_, Queued
<1>2. /\ pending' \in Seq(Procs) /\ IsInjective(pending')
      /\ ToSet(pending') = ToSet(pending) \cup {p}
  BY <1>1, PrependFacts DEF RunnerInv, RunnerTypeOK, ListsOK, Append_
<1>3. RunnerTypeOK'
  BY <1>2 DEF RunnerInv, RunnerTypeOK, Append_, command
<1>4. ListsOK'
  BY <1>1, <1>2 DEF RunnerInv, ListsOK, Append_
<1>5. AwaitedIsQueued'
  BY <1>2 DEF RunnerInv, RunnerTypeOK, AwaitedIsQueued, Append_, Queued
<1>6. NoOrphan' /\ OnlyCancelledKilled'
  BY DEF RunnerInv, RunnerTypeOK, NoOrphan, OnlyCancelledKilled, Append_, command
<1> QED BY <1>3, <1>4, <1>5, <1>6 DEF RunnerInv

LEMMA KillLastInv == ASSUME RunnerInv, KillLast PROVE RunnerInv'
<1> DEFINE last == Last(running)
<1>1. running # <<>> /\ running \in Seq(Procs) /\ IsInjective(running)
      /\ pending \in Seq(Procs) /\ IsInjective(pending) /\ idx \in 1..Len(running)
  BY DEF RunnerInv, RunnerTypeOK, ListsOK, KillLast, MustKill
<1>2. /\ last \in Procs /\ last \in ToSet(running) /\ last \notin ToSet(pending)
      /\ running' \in Seq(Procs) /\ Len(running') = Len(running) - 1
      /\ IsInjective(running') /\ ToSet(running') = ToSet(running) \ {last}
  BY <1>1, FrontFacts DEF RunnerInv, ListsOK, KillLast
<1>3. /\ pending' \in Seq(Procs) /\ IsInjective(pending')
      /\ ToSet(pending') = ToSet(pending) \cup {last}
  BY <1>1, <1>2, AppendFacts DEF KillLast
<1>4. /\ os' = [os EXCEPT ![last] = "none"] /\ kill' = [kill EXCEPT ![last] = FALSE]
      /\ UNCHANGED <<fut, pc, idx>>
  BY DEF KillLast
<1> HIDE DEF last
<1>5. RunnerTypeOK'
  BY <1>1, <1>2, <1>3, <1>4 DEF RunnerInv, RunnerTypeOK
<1>6. ListsOK'
  BY <1>1, <1>2, <1>3, ConstantsAssumption DEF RunnerInv, ListsOK
<1>7. AwaitedIsQueued'
  BY <1>2, <1>3, <1>4 DEF RunnerInv, AwaitedIsQueued, Queued
<1>8. NoOrphan' /\ OnlyCancelledKilled'
  BY <1>2, <1>4 DEF RunnerInv, RunnerTypeOK, NoOrphan, OnlyCancelledKilled
<1> QED BY <1>5, <1>6, <1>7, <1>8 DEF RunnerInv

LEMMA StartNextInv == ASSUME RunnerInv, StartNext PROVE RunnerInv'
<1> DEFINE last == Last(pending)
<1>1. pending # <<>> /\ running \in Seq(Procs) /\ IsInjective(running)
      /\ pending \in Seq(Procs) /\ IsInjective(pending)
  BY DEF RunnerInv, RunnerTypeOK, ListsOK, StartNext, CanStart
<1>2. /\ last \in Procs /\ last \in ToSet(pending) /\ last \notin ToSet(running)
      /\ pending' \in Seq(Procs) /\ IsInjective(pending')
      /\ ToSet(pending') = ToSet(pending) \ {last}
  BY <1>1, FrontFacts DEF RunnerInv, ListsOK, StartNext
<1>3. /\ running' \in Seq(Procs) /\ IsInjective(running')
      /\ Len(running') = Len(running) + 1
      /\ ToSet(running') = ToSet(running) \cup {last}
  BY <1>1, <1>2, AppendFacts DEF StartNext
<1>4. /\ os' = [os EXCEPT ![last] = "alive"] /\ Len(running) < MAX_RUNNING
      /\ UNCHANGED <<kill, fut, pc, idx>>
  BY DEF StartNext, CanStart
<1> HIDE DEF last
<1>5. RunnerTypeOK'
  BY <1>1, <1>2, <1>3, <1>4 DEF RunnerInv, RunnerTypeOK
<1>6. ListsOK'
  BY <1>1, <1>2, <1>3, <1>4, ConstantsAssumption DEF RunnerInv, ListsOK
<1>7. AwaitedIsQueued'
  BY <1>2, <1>3, <1>4 DEF RunnerInv, AwaitedIsQueued, Queued
<1>8. NoOrphan' /\ OnlyCancelledKilled'
  BY <1>2, <1>3, <1>4 DEF RunnerInv, RunnerTypeOK, NoOrphan, OnlyCancelledKilled
<1> QED BY <1>5, <1>6, <1>7, <1>8 DEF RunnerInv

LEMMA PollProcInv == ASSUME RunnerInv, PollProc PROVE RunnerInv'
<1> DEFINE p == running[idx]
<1>1. /\ running \in Seq(Procs) /\ IsInjective(running) /\ idx \in 1..Len(running)
      /\ p \in Procs
  BY DEF RunnerInv, RunnerTypeOK, ListsOK, PollProc
<1>2. UNCHANGED <<pending, kill, pc>> /\ pc = "drop"
  BY DEF PollProc
<1>3. CASE PollDrops(p)
  <2>1. /\ running' \in Seq(Procs) /\ Len(running') = Len(running) - 1
        /\ p \in ToSet(running) /\ ToSet(running') = ToSet(running) \ {p}
        /\ IsInjective(running')
    BY <1>1, <1>3, RemoveFacts DEF PollDrops
  <2>2. /\ os' = [os EXCEPT ![p] = "none"] /\ idx' = idx
        /\ fut' = [fut EXCEPT ![p] = IF fut[p] = "cancelled" THEN fut[p] ELSE Verdict(p)]
    BY <1>3 DEF PollDrops
  <2>3. fut[p] # "cancelled" => Verdict(p) \in {"OK", "TIMEOUT"}
    BY <1>1, <1>3 DEF PollDrops, Verdict, RunnerInv, OnlyCancelledKilled
  <2>4. fut'[p] \in {"cancelled", "OK", "TIMEOUT"} /\ \A q \in Procs \ {p} : fut'[q] = fut[q]
    BY <1>1, <2>2, <2>3 DEF RunnerInv, RunnerTypeOK
  <2> HIDE DEF p
  <2>5. RunnerTypeOK'
    BY <1>1, <1>2, <2>1, <2>2, <2>3 DEF RunnerInv, RunnerTypeOK
  <2>6. ListsOK'
    BY <1>1, <1>2, <2>1, ConstantsAssumption DEF RunnerInv, ListsOK
  <2>7. AwaitedIsQueued'
    BY <1>1, <1>2, <2>1, <2>4 DEF RunnerInv, AwaitedIsQueued, ListsOK, Queued
  <2>8. NoOrphan' /\ OnlyCancelledKilled'
    BY <1>1, <1>2, <2>1, <2>2 DEF RunnerInv, RunnerTypeOK, NoOrphan, OnlyCancelledKilled
  <2> QED BY <2>5, <2>6, <2>7, <2>8 DEF RunnerInv
<1>4. CASE PollKeeps(p)
  <2>1. UNCHANGED <<running, os, fut>> /\ idx' = idx + 1
    BY <1>4 DEF PollKeeps, command
  <2> QED BY <1>1, <1>2, <2>1 DEF RunnerInv, RunnerTypeOK, ListsOK, AwaitedIsQueued, NoOrphan,
                                  OnlyCancelledKilled, Queued
<1> QED BY <1>3, <1>4 DEF PollProc

LEMMA CancelInv == ASSUME NEW p \in Procs, RunnerInv, Cancel(p) PROVE RunnerInv'
  BY DEF Cancel, RunnerInv, RunnerTypeOK, ListsOK, AwaitedIsQueued, NoOrphan, OnlyCancelledKilled,
         Queued, lists, command

LEMMA SystemInv ==
    ASSUME NEW p \in Procs, RunnerInv, Exit(p) \/ Grow(p) \/ Overrun(p) PROVE RunnerInv'
<1>1. UNCHANGED <<pending, running, kill, fut, pc, idx>>
  BY DEF Exit, Grow, Overrun, lists
<1>2. /\ os' \in [Procs -> {"none", "alive", "late", "exited"}]
      /\ \A q \in Procs : os'[q] # "none" <=> os[q] # "none"
  BY DEF Exit, Grow, Overrun, Alive, RunnerInv, RunnerTypeOK
<1> QED BY <1>1, <1>2 DEF RunnerInv, RunnerTypeOK, ListsOK, AwaitedIsQueued, NoOrphan,
                          OnlyCancelledKilled, Queued

\* The steps of poll() that only move on.
Silent == BeginPoll \/ KillsDone \/ StartsDone \/ EndPoll

LEMMA SilentInv == ASSUME RunnerInv, Silent \/ UNCHANGED runner_vars PROVE RunnerInv'
<1>1. /\ UNCHANGED <<pending, running, kill, os, fut>>
      /\ pc' \in {"idle", "kill", "start", "drop"}
      /\ idx' \in {idx, 1} /\ (pc' # "drop" => idx' = 1)
  BY DEF Silent, BeginPoll, KillsDone, StartsDone, EndPoll, runner_vars, lists, command, RunnerInv,
         RunnerTypeOK
<1>2. Len(running) \in Nat
  BY DEF RunnerInv, RunnerTypeOK
<1> QED BY <1>1, <1>2 DEF RunnerInv, RunnerTypeOK, ListsOK, AwaitedIsQueued, NoOrphan,
                          OnlyCancelledKilled, Queued

LEMMA NextInv == RunnerInv /\ [RunnerNext]_runner_vars => RunnerInv'
  BY AppendInv, CancelInv, SystemInv, KillLastInv, StartNextInv, PollProcInv, SilentInv
     DEF RunnerNext, Poll, Coroutine, System, Silent

\* In every reachable state the lists hold each process at most once, at most
\* MAX_RUNNING of them run, every command that exists is in running, and a future
\* is awaited only while its process is in a list: for any number of commands.
THEOREM RunnerCorrect == RunnerSpec => []RunnerInv
  BY InitInv, NextInv, PTL DEF RunnerSpec

(***************************************************************************)
(* ProcessRunner implements ShellService.                                  *)
(***************************************************************************)
LEMMA InitService == RunnerInit => Service!Init
  BY NoEntries DEF RunnerInit, Service!Init

LEMMA StepService == RunnerInv /\ [RunnerNext]_runner_vars => [Service!Next]_<<fut, ToSet(running)>>
<1> SUFFICES ASSUME RunnerInv, [RunnerNext]_runner_vars PROVE [Service!Next]_<<fut, ToSet(running)>>
  OBVIOUS
<1>1. ASSUME NEW p \in Procs, Append_(p) PROVE Service!Submit(p)
  BY <1>1 DEF Append_, Service!Submit
<1>2. ASSUME NEW p \in Procs, Cancel(p) PROVE Service!Cancel(p)
  BY <1>2 DEF Cancel, lists, Service!Cancel
<1>3. ASSUME KillLast PROVE \E p \in Procs : Service!Stop(p)
  <2>1. running # <<>> /\ running \in Seq(Procs) /\ IsInjective(running)
    BY <1>3 DEF RunnerInv, RunnerTypeOK, ListsOK, KillLast, MustKill
  <2> QED BY <2>1, <1>3, FrontFacts DEF KillLast, Service!Stop
<1>4. ASSUME StartNext PROVE \E p \in Procs : Service!Start(p)
  <2> DEFINE last == Last(pending)
  <2>1. pending # <<>> /\ running \in Seq(Procs) /\ Len(running) < MAX_RUNNING
        /\ pending \in Seq(Procs) /\ IsInjective(pending)
        /\ running' = Append(running, last) /\ fut' = fut
    BY <1>4 DEF RunnerInv, RunnerTypeOK, ListsOK, StartNext, CanStart
  <2>2. last \in Procs /\ last \in ToSet(pending)
    BY <2>1, FrontFacts
  <2>3. ToSet(running') = ToSet(running) \cup {last}
    BY <2>1, <2>2, AppendFacts
  <2>4. last \notin ToSet(running) /\ fut[last] \in {"waiting", "cancelled"}
    BY <2>2 DEF RunnerInv, ListsOK, AwaitedIsQueued, Queued
  <2> HIDE DEF last
  <2>5. IsFiniteSet(ToSet(running)) /\ Cardinality(ToSet(running)) <= Len(running)
    BY <2>1, FewEntries
  <2>6. Cardinality(ToSet(running)) < MAX_RUNNING
    <3>1. Cardinality(ToSet(running)) \in Nat
      BY <2>5, FS_CardinalityType
    <3> QED BY <2>1, <2>5, <3>1, ConstantsAssumption
  <2>7. Service!Cardinality(ToSet(running)) = Cardinality(ToSet(running))
    BY DEF Service!Cardinality, Cardinality
  <2> QED BY <2>1, <2>2, <2>3, <2>4, <2>6, <2>7 DEF Service!Start
<1>5. ASSUME PollProc
      PROVE  \/ UNCHANGED <<fut, ToSet(running)>>
             \/ \E p \in Procs : \/ Service!Stop(p)
                                 \/ \E o \in Service!Outcome : Service!Finish(p, o)
  <2> DEFINE p == running[idx]
  <2>1. /\ running \in Seq(Procs) /\ IsInjective(running) /\ idx \in 1..Len(running)
        /\ p \in Procs
    BY <1>5 DEF RunnerInv, RunnerTypeOK, ListsOK, PollProc
  <2>2. CASE PollKeeps(p)
    BY <2>2 DEF PollKeeps
  <2>3. CASE PollDrops(p)
    <3>1. p \in ToSet(running) /\ ToSet(running') = ToSet(running) \ {p}
      BY <2>1, <2>3, RemoveFacts DEF PollDrops
    <3>2. fut' = [fut EXCEPT ![p] = IF fut[p] = "cancelled" THEN fut[p] ELSE Verdict(p)]
      BY <2>3 DEF PollDrops
    <3>3. fut[p] \in {"waiting", "cancelled"}
      BY <2>1, <3>1 DEF RunnerInv, AwaitedIsQueued, Queued
    <3>4. CASE fut[p] = "cancelled"
      <4>1. fut' = fut
        BY <3>2, <3>4 DEF RunnerInv, RunnerTypeOK
      <4> QED BY <4>1, <2>1, <3>1 DEF Service!Stop
    <3>5. CASE fut[p] = "waiting"
      <4>1. Verdict(p) \in Service!Outcome
        BY <2>1, <2>3, <3>5 DEF PollDrops, Verdict, RunnerInv, OnlyCancelledKilled, Service!Outcome
      <4> QED BY <4>1, <2>1, <3>1, <3>2, <3>5 DEF Service!Finish
    <3> QED BY <3>3, <3>4, <3>5
  <2> QED BY <1>5, <2>2, <2>3 DEF PollProc
<1>6. ASSUME Silent \/ System \/ UNCHANGED runner_vars PROVE UNCHANGED <<fut, ToSet(running)>>
  BY <1>6 DEF Silent, System, BeginPoll, KillsDone, StartsDone, EndPoll, Exit, Grow, Overrun,
              runner_vars, lists
<1> QED BY <1>1, <1>2, <1>3, <1>4, <1>5, <1>6
        DEF RunnerNext, Poll, Coroutine, Silent, Service!Next

\* The scheduler with its two lists, its kills for memory and its loop that drops
\* what has finished is a correct implementation of shell().
THEOREM RunnerImplementsService == RunnerSpec => ServiceSpec
  BY InitService, StepService, RunnerCorrect, PTL DEF RunnerSpec, ServiceSpec, Service!Spec

-----------------------------------------------------------------------------
(***************************************************************************)
(* Sessions.                                                               *)
(***************************************************************************)
\* What is known of a design.
LEMMA DesignFacts ==
    ASSUME design \in Designs
    PROVE  /\ design.exists \subseteq Props /\ design.steps \in Nat /\ design.steps <= NumSteps
           /\ \A p \in Props : design.step[p] \in Steps
  BY ConductorAssumption DEF Design, Steps

LEMMA InitIInv == Init => IInv
<1> SUFFICES ASSUME Init PROVE IInv
  OBVIOUS
<1>1. /\ design \in Designs /\ store \in [Steps -> StrategyFile]
      /\ proved = UNION {store[s].entries : s \in Steps}
      /\ selected = {} /\ phase = "off" /\ step = 0 /\ strategy = {}
      /\ jobs = [e \in {} |-> 0] /\ aiger_idx = 0 /\ aiger = [n \in {} |-> 0] /\ exit = "none"
  BY ConductorAssumption DEF Init
<1>2. TypeOK
  BY <1>1, ConductorAssumption DEF TypeOK
<1> QED BY <1>1, <1>2 DEF IInv, OwnFiles, StoredProved, AnsweredProvable, Selection, EndOfProve,
                          Extends, Idle, Checked

LEMMA JobsRun == ASSUME IInv, NEW e \in DOMAIN jobs PROVE phase # "off"
  BY DEF IInv, Idle

\* The parts of the state that a step of one coroutine leaves alone.
JobFrame == UNCHANGED <<session, store, phase, step, strategy, exit>>

LEMMA TakeNameIInv == ASSUME NEW e \in DOMAIN jobs, IInv, TakeName(e) PROVE IInv'
<1>1. /\ jobs[e].pc = "new"
      /\ jobs' = [jobs EXCEPT ![e].pc = "select", ![e].name = aiger_idx]
      /\ aiger_idx' = aiger_idx + 1 /\ aiger_idx \in Nat
      /\ UNCHANGED <<design, args, selected, sessions, store, phase, step, strategy,
                     aiger, exit, proved>>
  BY DEF TakeName, session, IInv, TypeOK
<1>2. /\ DOMAIN jobs' = DOMAIN jobs
      /\ jobs'[e] = [jobs[e] EXCEPT !.pc = "select", !.name = aiger_idx]
      /\ \A f \in DOMAIN jobs \ {e} : jobs'[f] = jobs[f]
  BY <1>1 DEF IInv, TypeOK
<1>3. /\ jobs'[e].pc = "select" /\ jobs'[e].name = aiger_idx /\ jobs'[e].code = jobs[e].code
      /\ jobs'[e] \in [pc : {"new", "select", "engine", "done"}, name : Nat, code : {0, 10, 20, 30}]
  <2>1. jobs[e] \in [pc : {"new", "select", "engine", "done"}, name : Nat, code : {0, 10, 20, 30}]
    BY DEF IInv, TypeOK
  <2>2. jobs'[e] = [pc |-> "select", name |-> aiger_idx, code |-> jobs[e].code]
    BY <1>1, <1>2, <2>1
  <2> QED BY <1>1, <2>1, <2>2
<1>4. TypeOK'
  BY <1>1, <1>2, <1>3 DEF IInv, TypeOK
<1>5. OwnFiles'
  <2>1. \A f \in DOMAIN jobs \ {e} : jobs[f].pc # "new" => jobs[f].name < aiger_idx
    BY DEF IInv, OwnFiles
  <2>2. \A f \in DOMAIN jobs : jobs[f].name \in Nat
    BY DEF IInv, TypeOK
  <2> QED BY <1>1, <1>2, <1>3, <2>1, <2>2 DEF IInv, OwnFiles
<1>6. StoredProved' /\ Selection' /\ EndOfProve' /\ Extends'
  BY <1>1, <1>2 DEF IInv, StoredProved, Selection, EndOfProve, Extends, Checked, Covered, 
     Provable, Kept, Below
<1>7. AnsweredProvable'
  BY <1>1, <1>2, <1>3 DEF IInv, AnsweredProvable, Provable, Kept, Below
<1> QED BY <1>1, <1>4, <1>5, <1>6, <1>7, JobsRun DEF IInv, Idle

LEMMA SelectIInv == ASSUME NEW e \in DOMAIN jobs, IInv, Select(e) PROVE IInv'
<1>1. /\ jobs[e].pc = "select"
      /\ jobs' = [jobs EXCEPT ![e].pc = "engine"]
      /\ aiger' = [n \in DOMAIN aiger \cup {jobs[e].name} |->
                      IF n = jobs[e].name THEN e ELSE aiger[n]]
      /\ UNCHANGED <<design, args, selected, sessions, store, phase, step, strategy,
                     aiger_idx, exit, proved>>
  BY DEF Select, session
<1>2. /\ DOMAIN jobs' = DOMAIN jobs
      /\ jobs'[e] = [jobs[e] EXCEPT !.pc = "engine"]
      /\ \A f \in DOMAIN jobs \ {e} : jobs'[f] = jobs[f]
  BY <1>1 DEF IInv, TypeOK
<1>3. /\ jobs'[e].pc = "engine" /\ jobs'[e].name = jobs[e].name /\ jobs'[e].code = jobs[e].code
      /\ jobs'[e] \in [pc : {"new", "select", "engine", "done"}, name : Nat, code : {0, 10, 20, 30}]
  BY <1>1, <1>2 DEF IInv, TypeOK
<1>4. e \in Entry
  BY DEF IInv, TypeOK
<1>5. TypeOK'
  BY <1>1, <1>2, <1>3, <1>4 DEF IInv, TypeOK
<1>6. OwnFiles'
  <2>1. \A f \in DOMAIN jobs \ {e} : jobs[f].pc # "new" => jobs[f].name # jobs[e].name
    BY <1>1 DEF IInv, OwnFiles
  <2> QED BY <1>1, <1>2, <1>3, <2>1 DEF IInv, OwnFiles
<1>7. StoredProved' /\ Selection' /\ EndOfProve' /\ Extends'
  BY <1>1, <1>2 DEF IInv, StoredProved, Selection, EndOfProve, Extends, Checked, Covered, 
     Provable, Kept, Below
<1>8. AnsweredProvable'
  BY <1>1, <1>2, <1>3 DEF IInv, AnsweredProvable, Provable, Kept, Below
<1> QED BY <1>1, <1>5, <1>6, <1>7, <1>8, JobsRun DEF IInv, Idle

LEMMA AnswerIInv ==
    ASSUME NEW e \in DOMAIN jobs, NEW code \in {10, 20, 30}, IInv, Answer(e, code)
    PROVE  IInv'
<1>1. /\ jobs[e].pc = "engine"
      /\ jobs' = [jobs EXCEPT ![e].pc = "done", ![e].code = code]
      /\ UNCHANGED <<design, args, selected, sessions, store, phase, step, strategy,
                     aiger_idx, aiger, exit>>
  BY DEF Answer, session, files
<1>2. aiger[jobs[e].name] = e
  BY <1>1 DEF IInv, OwnFiles
<1>3. /\ code = 20 => Provable(e)
      /\ proved' = IF code = 20 THEN proved \cup {e} ELSE proved
  BY <1>2 DEF Answer
<1>4. /\ DOMAIN jobs' = DOMAIN jobs
      /\ jobs'[e] = [jobs[e] EXCEPT !.pc = "done", !.code = code]
      /\ \A f \in DOMAIN jobs \ {e} : jobs'[f] = jobs[f]
  BY <1>1 DEF IInv, TypeOK
<1>5. /\ jobs'[e].pc = "done" /\ jobs'[e].name = jobs[e].name /\ jobs'[e].code = code
      /\ jobs'[e] \in [pc : {"new", "select", "engine", "done"}, name : Nat, code : {0, 10, 20, 30}]
  <2>1. jobs[e] \in [pc : {"new", "select", "engine", "done"}, name : Nat, code : {0, 10, 20, 30}]
    BY DEF IInv, TypeOK
  <2>2. jobs'[e] = [pc |-> "done", name |-> jobs[e].name, code |-> code]
    BY <1>1, <1>4, <2>1
  <2> QED BY <1>1, <2>1, <2>2
<1>6. TypeOK'
  BY <1>1, <1>4, <1>5 DEF IInv, TypeOK
<1>7. OwnFiles'
  BY <1>1, <1>4, <1>5 DEF IInv, OwnFiles
<1>8. StoredProved' /\ Selection' /\ EndOfProve' /\ Extends'
  BY <1>1, <1>3, <1>4 DEF IInv, StoredProved, Selection, EndOfProve, Extends, Checked, Covered, 
     Provable, Kept, Below
<1>9. AnsweredProvable'
  BY <1>1, <1>3, <1>4, <1>5 DEF IInv, AnsweredProvable, Provable, Kept, Below
<1> QED BY <1>1, <1>6, <1>7, <1>8, <1>9, JobsRun DEF IInv, Idle

\* Every other step starts all coroutines of a gather(), keeps them, or drops them.
LEMMA JobsKept ==
    ASSUME IInv, UNCHANGED <<jobs, aiger_idx, aiger, design, proved>>, strategy' \subseteq proved
    PROVE  OwnFiles' /\ AnsweredProvable'
  BY DEF IInv, OwnFiles, AnsweredProvable, Provable, Kept, Below

LEMMA JobsStarted ==
    ASSUME IInv, NEW entries \in SUBSET Entry, Start(entries), strategy' \subseteq proved,
           UNCHANGED <<design, proved>>
    PROVE  /\ OwnFiles' /\ AnsweredProvable' /\ DOMAIN jobs' = entries
           /\ jobs' \in [DOMAIN jobs' -> [pc : {"new", "select", "engine", "done"},
                                          name : Nat, code : {0, 10, 20, 30}]]
  BY DEF Start, OwnFiles, AnsweredProvable

LEMMA JobsDropped ==
    ASSUME IInv, jobs' = [e \in {} |-> 0], UNCHANGED <<strategy, proved>>
    PROVE  /\ OwnFiles' /\ AnsweredProvable' /\ DOMAIN jobs' = {}
           /\ jobs' \in [DOMAIN jobs' -> [pc : {"new", "select", "engine", "done"},
                                          name : Nat, code : {0, 10, 20, 30}]]
  BY DEF IInv, OwnFiles, AnsweredProvable


\* A session ends; with 0 only if nothing is claimed, or the claim is there.
LEMMA EndIInv ==
    ASSUME IInv, NEW how, End(how), UNCHANGED store, phase # "off",
           how = "0" /\ args.mode = "prove" /\ ~args.byStep
               => Checked /\ \A e \in strategy : Provable(e)
    PROVE  IInv'
<1>1. /\ jobs' = [e \in {} |-> 0] /\ phase' = "off" /\ exit' = how
      /\ UNCHANGED <<design, args, selected, sessions, step, strategy, aiger_idx, aiger,
                     proved, store>>
  BY DEF End, session, files
<1>2. OwnFiles' /\ AnsweredProvable'
  BY <1>1, JobsDropped
<1>3. TypeOK'
  BY <1>1, JobsDropped DEF IInv, TypeOK
<1>4. StoredProved' /\ Extends'
  BY <1>1 DEF IInv, StoredProved, Extends
<1>5. Selection'
  BY <1>1 DEF IInv, Selection
<1>6. EndOfProve'
  BY <1>1 DEF EndOfProve, Checked, Covered, Provable, Kept, Below
<1> QED BY <1>1, <1>2, <1>3, <1>4, <1>5, <1>6 DEF IInv, Idle

LEMMA BeginIInv ==
    ASSUME NEW a \in ArgsIn, NEW d \in Designs, IInv, Begin(a, d) PROVE IInv'
<1>1. /\ phase' = "step" /\ step' = 0 /\ strategy' = {} /\ aiger_idx' = 0 /\ exit' = "none"
      /\ args' = a /\ design' = d /\ selected' = SelectedBy(a, d)
      /\ UNCHANGED <<store, jobs, aiger, proved>>
  BY DEF Begin
<1>2. jobs = [e \in {} |-> 0]
  BY DEF Begin, IInv, Idle
<1>3. TypeOK'
  <2>1. d.exists \subseteq Props
    BY ConductorAssumption DEF Design
  <2>2. SelectedBy(a, d) \subseteq Props
    BY <2>1 DEF SelectedBy
  <2> QED BY <1>1, <2>2, ConductorAssumption DEF IInv, TypeOK
<1>4. OwnFiles' /\ AnsweredProvable'
  BY <1>1, <1>2 DEF OwnFiles, AnsweredProvable
<1>5. StoredProved' /\ Extends' /\ EndOfProve'
  BY <1>1 DEF IInv, StoredProved, Extends, EndOfProve
<1>6. Selection'
  BY <1>1 DEF Selection, SelectedBy
<1> QED BY <1>3, <1>4, <1>5, <1>6, <1>2, <1>1 DEF IInv, Idle

(***************************************************************************)
(* The steps of explore_mode() and prove_mode().                           *)
(***************************************************************************)
\* A step that keeps or starts coroutines, takes the strategy from proved
\* entries and changes no file.
LEMMA WorkIInv ==
    ASSUME IInv, UNCHANGED <<session, store, files, exit, proved>>,
           jobs' = jobs \/ \E entries \in SUBSET Entry : Start(entries),
           strategy' \subseteq proved \cap Entry, step' \in 0..NumSteps,
           phase # "off", phase' # "off",
           phase' = "final" => DOMAIN jobs' = strategy' /\ Checked',
           phase' \in {"build", "open", "dump", "built", "next", "rerun", "run"} => step' \in Steps,
           phase' \in {"build", "open", "dump"} /\ ~args.fresh
               => store[step'].entries \subseteq strategy'
    PROVE  IInv'
<1>1. UNCHANGED <<design, args, selected, sessions, store, aiger_idx, aiger, exit, proved>>
  BY DEF session, files
<1>2. /\ OwnFiles' /\ AnsweredProvable' /\ DOMAIN jobs' \subseteq Entry
      /\ jobs' \in [DOMAIN jobs' -> [pc : {"new", "select", "engine", "done"},
                                     name : Nat, code : {0, 10, 20, 30}]]
  BY <1>1, JobsKept, JobsStarted DEF IInv, TypeOK
<1>3. TypeOK'
  BY <1>1, <1>2 DEF IInv, TypeOK
<1>4. StoredProved' /\ Selection'
  BY <1>1 DEF IInv, StoredProved, Selection
<1>5. exit # "0"
  BY DEF IInv, EndOfProve
<1>6. EndOfProve' /\ Extends'
  BY <1>1, <1>5 DEF EndOfProve, Extends
<1>7. Idle'
  BY DEF Idle
<1> QED BY <1>2, <1>3, <1>4, <1>6, <1>7 DEF IInv

\* What a file holds has been proved.
LEMMA Loaded ==
    ASSUME IInv, NEW s \in Steps
    PROVE  /\ load_strategy(s) \subseteq proved \cap Entry
           /\ ~args.fresh => load_strategy(s) = store[s].entries
  BY DEF IInv, TypeOK, StoredProved, load_strategy, StrategyFile

LEMMA AtWorkStep ==
    ASSUME IInv, NEW mode, AtWork(mode)
    PROVE  step \in Steps /\ step \in Nat /\ step + 1 \in 0..NumSteps /\ phase = "step"
  BY ConductorAssumption, DesignFacts DEF AtWork, Steps, IInv, TypeOK

LEMMA ExploreIInv ==
    ASSUME IInv, SkipStep \/ NothingToBuild \/ Built \/ AfterBuild \/ Rerun \/ StepRan
    PROVE  IInv'
<1>1. strategy \subseteq proved \cap Entry /\ step \in 0..NumSteps
  BY DEF IInv, TypeOK, AnsweredProvable
<1>2. CASE SkipStep
  <2>1. step + 1 \in 0..NumSteps
    BY <1>1, <1>2, ConductorAssumption, DesignFacts DEF SkipStep, IInv, TypeOK
  <2> QED BY <1>1, <1>2, <2>1, WorkIInv DEF SkipStep, NextStep
<1>3. CASE NothingToBuild
  <2>1. step \in Steps /\ phase = "step"
    BY <1>3, AtWorkStep DEF NothingToBuild
  <2>2. strategy' \subseteq proved \cap Entry
    BY <1>3, <2>1, Loaded DEF NothingToBuild
  <2> QED BY <1>1, <1>3, <2>1, <2>2, WorkIInv DEF NothingToBuild
<1>4. CASE Built
  <2>1. /\ phase = "build" /\ phase' \in {"open", "built"} /\ step' = step /\ jobs' = jobs
        /\ strategy' = strategy \cup {e \in DOMAIN jobs : jobs[e].code = 20}
        /\ UNCHANGED <<session, store, files, exit, proved>>
    BY <1>4 DEF Built
  <2>2. strategy' \subseteq proved \cap Entry /\ strategy \subseteq strategy'
    BY <1>1, <2>1 DEF IInv, AnsweredProvable, TypeOK
  <2>3. step \in Steps /\ (~args.fresh => store[step].entries \subseteq strategy)
    BY <2>1 DEF IInv, Extends
  <2> QED BY <1>1, <2>1, <2>2, <2>3, WorkIInv
<1>5. CASE AfterBuild
  <2>1. step \in Steps
    BY <1>5 DEF AfterBuild, IInv, Extends
  <2> QED BY <1>1, <1>5, <2>1, WorkIInv DEF AfterBuild
<1>6. CASE Rerun
  <2>1. step \in Steps
    BY <1>6 DEF Rerun, IInv, Extends
  <2> QED BY <1>1, <1>6, <2>1, WorkIInv DEF Rerun
<1>7. CASE StepRan
  <2>1. step \in Steps /\ phase # "off"
    BY <1>7 DEF StepRan, IInv, Extends
  <2>2. step + 1 \in 0..NumSteps
    BY <2>1, ConductorAssumption DEF Steps
  <2> QED BY <1>1, <1>7, <2>1, <2>2, WorkIInv DEF StepRan, NextStep
<1> QED BY <1>2, <1>3, <1>4, <1>5, <1>6, <1>7

LEMMA BuildIInv == ASSUME IInv, Build PROVE IInv'
<1> DEFINE missing == missing_from(load_strategy(step), AtStep(step))
           entries == {[step |-> step, props |-> {p}] : p \in missing}
<1>1. step \in Steps /\ phase = "step" /\ UNCHANGED store
  BY AtWorkStep DEF Build
<1>2. CASE args.hard
  <2>1. /\ Start(entries) /\ strategy' = load_strategy(step) /\ phase' = "build"
        /\ UNCHANGED <<session, step, files, exit, proved>>
    BY <1>2 DEF Build
  <2>2. entries \subseteq Entry
    <3>1. \A p \in missing : p \in Props
      BY DEF missing_from, AtStep, IInv, TypeOK
    <3> QED BY <1>1, <3>1 DEF Entry
  <2> HIDE DEF entries
  <2>3. /\ strategy' \subseteq proved \cap Entry
        /\ ~args.fresh => store[step].entries \subseteq strategy'
    BY <1>1, <2>1, Loaded
  <2>4. step \in 0..NumSteps
    BY DEF IInv, TypeOK
  <2> QED BY <1>1, <2>1, <2>2, <2>3, <2>4, WorkIInv
<1>3. CASE ~args.hard
  BY <1>1, <1>3, EndIInv DEF Build
<1> QED BY <1>2, <1>3

LEMMA LoadStepIInv == ASSUME IInv, LoadStep PROVE IInv'
<1> DEFINE loaded == load_strategy(step)
<1>1. /\ step \in Steps /\ step + 1 \in 0..NumSteps /\ step \in 0..NumSteps /\ phase = "step"
      /\ loaded \subseteq proved \cap Entry
      /\ strategy \subseteq proved \cap Entry
  BY AtWorkStep, Loaded DEF LoadStep, IInv, TypeOK, AnsweredProvable
<1>2. /\ strategy' = strategy \cup loaded
      /\ UNCHANGED <<session, store, files, exit, proved>>
      /\ \/ Start(loaded) /\ phase' = "run" /\ UNCHANGED step
         \/ phase' = "step" /\ step' = step + 1 /\ UNCHANGED jobs
  BY DEF LoadStep, NextStep
<1> HIDE DEF loaded
<1> QED BY <1>1, <1>2, WorkIInv

LEMMA StoreIInv == ASSUME IInv, OpenStore \/ DumpStore PROVE IInv'
<1>1. /\ UNCHANGED <<design, args, selected, sessions, step, strategy, jobs, aiger_idx, aiger,
                     exit, proved>>
      /\ phase \in {"open", "dump"} /\ phase' \in {"dump", "built"}
  BY DEF OpenStore, DumpStore, session, files
<1>2. step \in Steps /\ strategy \subseteq proved /\ strategy \subseteq Entry
  BY <1>1 DEF IInv, Extends, AnsweredProvable, TypeOK
<1>3. \/ store' = [store EXCEPT ![step] = NoStrategy] /\ phase' = "dump"
      \/ /\ store' = [store EXCEPT ![step] = [decodes |-> TRUE, entries |-> strategy]]
         /\ phase' = "built"
      \/ store' = store /\ phase' = "built"
  BY DEF OpenStore, DumpStore
<1>4. store' \in [Steps -> StrategyFile]
  <2>1. NoStrategy \in StrategyFile /\ [decodes |-> TRUE, entries |-> strategy] \in StrategyFile
    BY <1>2 DEF NoStrategy, StrategyFile
  <2> QED BY <1>3, <2>1 DEF IInv, TypeOK
<1>5. StoredProved'
  BY <1>1, <1>2, <1>3 DEF NoStrategy, IInv, TypeOK, StoredProved
<1>6. Extends'
  BY <1>1, <1>2, <1>3 DEF NoStrategy, IInv, TypeOK, Extends
<1>7. TypeOK'
  BY <1>1, <1>4 DEF IInv, TypeOK
<1>8. OwnFiles' /\ AnsweredProvable'
  BY <1>1, JobsKept DEF IInv, AnsweredProvable
<1>9. exit # "0"
  BY <1>1 DEF IInv, EndOfProve
<1>10. Selection' /\ EndOfProve' /\ Idle'
  BY <1>1, <1>9 DEF IInv, Selection, EndOfProve, Idle
<1> QED BY <1>5, <1>6, <1>7, <1>8, <1>10 DEF IInv

LEMMA FinishIInv == ASSUME IInv, Crash \/ Explored \/ AllRan PROVE IInv'
<1>1. CASE Crash
  BY <1>1, EndIInv DEF Crash
<1>2. CASE Explored
  BY <1>2, EndIInv DEF Explored
<1>3. CASE AllRan
  <2> DEFINE how == IF \A e \in DOMAIN jobs : jobs[e].code = 20 THEN "0" ELSE "1"
  <2>1. phase = "final" /\ End(how) /\ UNCHANGED store
    BY <1>3 DEF AllRan
  <2>2. Checked /\ DOMAIN jobs = strategy
    BY <2>1 DEF IInv, EndOfProve
  <2>3. how = "0" => \A e \in strategy : Provable(e)
    BY <2>2 DEF IInv, AnsweredProvable
  <2> HIDE DEF how
  <2> QED BY <2>1, <2>2, <2>3, EndIInv
<1> QED BY <1>1, <1>2, <1>3

LEMMA RunAllIInv == ASSUME IInv, RunAll PROVE IInv'
<1>1. phase = "step" /\ UNCHANGED store
  BY DEF RunAll
<1>2. CASE args.complete /\ ~(selected \subseteq Covered(strategy))
  BY <1>1, <1>2, EndIInv DEF RunAll
<1>3. CASE ~(args.complete /\ ~(selected \subseteq Covered(strategy))) /\ args.byStep
  BY <1>1, <1>3, EndIInv DEF RunAll
<1>4. CASE ~(args.complete /\ ~(selected \subseteq Covered(strategy))) /\ ~args.byStep
  <2>1. /\ Start(strategy) /\ phase' = "final"
        /\ UNCHANGED <<session, step, strategy, files, exit, proved>>
    BY <1>4 DEF RunAll
  <2>2. strategy \subseteq Entry /\ strategy \subseteq proved /\ step \in 0..NumSteps
    BY DEF IInv, TypeOK, AnsweredProvable
  <2>3. DOMAIN jobs' = strategy
    BY <2>1, <2>2, JobsStarted DEF session
  <2>4. Checked'
    BY <1>4, <2>1 DEF Checked, Covered, session
  <2> QED BY <1>1, <2>1, <2>2, <2>3, <2>4, WorkIInv
<1> QED BY <1>2, <1>3, <1>4

LEMMA StutterIInv == ASSUME IInv, UNCHANGED vars PROVE IInv'
  BY DEF vars, session, files, IInv, TypeOK, OwnFiles, StoredProved, AnsweredProvable, Selection,
         EndOfProve, Extends, Idle, Checked, Covered, Provable, Kept, Below

LEMMA NextIInv == IInv /\ [Next]_vars => IInv'
  BY BeginIInv, TakeNameIInv, SelectIInv, AnswerIInv, ExploreIInv, BuildIInv, LoadStepIInv,
     StoreIInv, FinishIInv, RunAllIInv, StutterIInv DEF Next

LEMMA Invariance == Spec => []IInv
  BY InitIInv, NextIInv, PTL DEF Spec

\* No strategy file ever names a proof that no engine has completed.
THEOREM StoreSound == Spec => []StoredProved
  BY Invariance, PTL DEF IInv

(***************************************************************************)
(* The induction over steps behind CertificateSound.                       *)
(***************************************************************************)
LEMMA LowestStep ==
    ASSUME NEW D \in SUBSET Props, D # {}, NEW at \in [Props -> Steps]
    PROVE  \E x \in D : \A y \in D : ~(at[y] < at[x])
<1> DEFINE T == {at[x] : x \in D}
<1>1. T \subseteq Nat /\ T # {}
  BY ConductorAssumption DEF Steps
<1>2. PICK t \in T : \A u \in T : ~(<<u, t>> \in OpToRel(<, Nat))
  BY <1>1, WFMin, NatLessThanWellFounded
<1>3. PICK x \in D : t = at[x]
  BY <1>2
<1>4. \A y \in D : at[y] \in T /\ at[y] \in Nat
  BY <1>1
<1>5. ASSUME NEW y \in D, at[y] < at[x] PROVE FALSE
  <2>1. <<at[y], t>> \in OpToRel(<, Nat)
    BY <1>3, <1>4, <1>5 DEF OpToRel
  <2> QED BY <2>1, <1>2, <1>4
<1> QED BY <1>3, <1>5

LEMMA Certificate == IInv => CertificateSound
<1> SUFFICES ASSUME IInv, Certified, Unmoved,
                    Skipped \cap design.exists \subseteq design.holds,
                    ~(design.exists \subseteq design.holds)
             PROVE  FALSE
  BY DEF CertificateSound
<1> DEFINE D == design.exists \ design.holds
<1>1. design.exists \subseteq Props /\ design.step \in [Props -> Steps]
  BY ConductorAssumption DEF IInv, TypeOK, Design
<1>2. D # {} /\ D \in SUBSET Props
  BY <1>1
<1>3. PICK p \in D : \A y \in D : ~(design.step[y] < design.step[p])
  BY <1>1, <1>2, LowestStep
<1>4. Below(design.step[p]) \subseteq design.holds
  BY <1>3 DEF Below
<1>5. selected = design.exists \ Skipped /\ Checked /\ \A e \in strategy : Provable(e)
  BY DEF IInv, Selection, EndOfProve, Certified
<1>6. p \in Covered(strategy)
  BY <1>5 DEF Checked, Certified
<1>7. PICK e \in strategy : p \in e.props
  BY <1>6 DEF Covered
<1>8. e.step = design.step[p] /\ p \in Kept(e)
  BY <1>7 DEF Unmoved, Kept
<1> QED BY <1>3, <1>4, <1>5, <1>7, <1>8 DEF Provable

\* For any number of steps, properties and designs, each with its own steps: a 0 of
\* "prove --check-complete" is a proof of the whole design, if no property that the
\* strategies name has moved to another step.
THEOREM CertificateCorrect == Spec => []CertificateSound
  BY Invariance, Certificate, PTL

\* A strategy file is rewritten with what it had, unless it is to be forgotten.
THEOREM ProofsKept == Spec => KeepsProofs
<1> DEFINE Keeps == \A s \in Steps :
                       store[s] # store'[s] /\ ~args.fresh => store[s].entries \subseteq strategy
<1>1. IInv /\ [Next]_vars => [Keeps]_vars
  <2> SUFFICES ASSUME IInv, Next PROVE Keeps
    OBVIOUS
  <2>1. CASE OpenStore \/ DumpStore
    <3>1. /\ \A s \in Steps \ {step} : store'[s] = store[s]
          /\ phase \in {"open", "dump"}
      BY <2>1 DEF OpenStore, DumpStore, IInv, TypeOK
    <3> QED BY <3>1 DEF IInv, Extends
  <2>2. CASE UNCHANGED store
    BY <2>2
  <2> QED BY <2>1, <2>2 DEF Next, Begin, TakeName, Select, Answer, Crash, SkipStep, NothingToBuild,
             Build, Built, AfterBuild, Rerun, StepRan, Explored, LoadStep, RunAll, AllRan, End
<1> QED BY <1>1, Invariance, PTL DEF Spec, KeepsProofs
=============================================================================
