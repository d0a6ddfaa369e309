-------------------------- MODULE RegressionProofs --------------------------
(***************************************************************************)
(* The parts of the regression that run side by side or can be stopped     *)
(* half way, for any number of tests, scripts and files: make and its      *)
(* stamps, the lock of the metadata, and sv2v_in_place.py.  And the        *)
(* scripts that compute something, for any inputs: logs, lists of tests,   *)
(* configurations, templates of commands and versions of tools.            *)
(***************************************************************************)
EXTENDS RegressionFlow, MetadataStore, Sv2vInPlace, RegressionScripts, FiniteSetTheorems,
        SequenceTheorems, WellFoundedInduction, TLAPS

-----------------------------------------------------------------------------
(* make: the stamp of the regression is honest.                            *)

\* make holds regr.log.stamp for up to date: the premise of StampHonest.
UpToDate == Regr \in exists /\ \A p \in Prereqs[Regr] : <<p, Regr>> \notin newer
AllPassed == \A t \in Test : trr[t].passed = "True"

\* The files that are neither a result of a test nor the stamp.
Others == {Tb, Ig, Cov} \cup Asms \cup Bins \cup Logs

LEMMA Names ==
    /\ Regr \in Target
    /\ Prereqs[Regr] = Trrs \cup {Cov}
    /\ \A t \in Test : Trr(t) # Regr
    /\ \A x \in Others : x # Regr
    /\ \A x \in Logs : x \notin Trrs \cup {Cov, Regr}
<1>1. Regr \in Target
  BY DEF Target
<1>2. \A t \in Test : Trr(t) # Regr
  BY DEF Trr, Regr
<1>3. \A x \in Others : x # Regr
  BY DEF Others, Asms, Bins, Logs, Tb, Ig, Cov, Asm, Bin, Log, Regr
<1>4. \A x \in Logs : x \notin Trrs \cup {Cov, Regr}
  BY DEF Logs, Trrs, Log, Trr, Cov, Regr
<1>5. Prereqs[Regr] = PrereqsOf(Regr)
  BY <1>1 DEF Prereqs
<1>6. Regr # Tb /\ Regr # Ig /\ Regr # Cov /\ Regr \notin Asms /\ Regr \notin Bins
        /\ Regr \notin Logs
  BY <1>3 DEF Others
<1>7. Regr \notin Trrs
  BY <1>2 DEF Trrs
<1>8. PrereqsOf(Regr) = Trrs \cup {Cov}
  BY <1>6, <1>7 DEF PrereqsOf
<1>. QED
  BY <1>1, <1>2, <1>3, <1>4, <1>5, <1>8

\* A result that is exported makes the stamp out of date ...
LEMMA Exported ==
  ASSUME NEW t \in Test, NEW n, newer' = AfterWrite(n, Trr(t))
  PROVE  ~UpToDate'
<1>1. Trr(t) \in Prereqs[Regr] /\ Regr \in Target /\ Trr(t) # Regr
  BY Names DEF Trrs
<1>2. <<Trr(t), Regr>> \in newer'
  BY <1>1 DEF AfterWrite
<1>3. (Prereqs[Regr])' = Prereqs[Regr]
  BY DEF Prereqs
<1>. QED
  BY <1>1, <1>2, <1>3 DEF UpToDate

\* ... and writing another file does not make it up to date.
LEMMA OtherWritten ==
  ASSUME NEW x \in Others, Write(x), UpToDate' PROVE UpToDate
<1>1. x # Regr
  BY Names
<1>2. \A p : <<p, Regr>> \in newer => <<p, Regr>> \in newer'
  BY <1>1 DEF Write, AfterWrite
<1>. QED
  BY <1>1, <1>2 DEF Write, UpToDate

\* StampHonest, split as the steps need it.
LEMMA Honest == StampHonest <=> (UpToDate => AllPassed)
  BY DEF StampHonest, UpToDate, AllPassed

LEMMA Kept ==
  ASSUME UpToDate => AllPassed, trr' = trr, UpToDate' => UpToDate
  PROVE  (UpToDate => AllPassed)'
  BY DEF AllPassed

LEMMA StepStamp ==
  ASSUME UpToDate => AllPassed, [FlowNext]_flow_vars
  PROVE  (UpToDate => AllPassed)'
<1>1. CASE UNCHANGED <<file_vars, trr>>
  BY <1>1, Kept DEF file_vars, UpToDate
<1>2. ASSUME NEW x \in Others, Write(x), trr' = trr PROVE (UpToDate => AllPassed)'
  BY <1>2, OtherWritten, Kept
<1>3. CASE (\E g \in Goals : Make(g)) \/ MakeEnds
  BY <1>1, <1>3 DEF Make, MakeEnds
<1>4. CASE Interrupt
  <2>1. PICK half \in SUBSET (recipes \cap Logs) :
          exists' = exists \ half /\ newer' = {e \in newer : e[1] \notin half /\ e[2] \notin half}
    BY <1>4 DEF Interrupt
  <2>2. ASSUME NEW p \in Prereqs[Regr], <<p, Regr>> \in newer PROVE <<p, Regr>> \in newer'
    BY <2>1, <2>2, Names
  <2>3. UpToDate' => UpToDate
    BY <2>1, <2>2 DEF UpToDate
  <2>4. trr' = trr
    BY <1>4 DEF Interrupt
  <2>. QED
    BY <2>3, <2>4, Kept
<1>5. CASE Edit
  <2>1. Rtl # Regr
    BY DEF Rtl, Regr
  <2>2. \A p : <<p, Regr>> \in newer => <<p, Regr>> \in newer'
    BY <1>5, <2>1 DEF Edit, AfterWrite
  <2>3. trr' = trr /\ (UpToDate' => UpToDate)
    BY <1>5, <2>2 DEF Edit, UpToDate
  <2>. QED
    BY <2>3, Kept
<1>6. CASE compile_tb \/ BuildStep(Ig) \/ BuildStep(Cov)
  <2>1. Tb \in Others /\ Ig \in Others /\ Cov \in Others
    BY DEF Others
  <2>2. CASE compile_tb
    BY <1>1, <1>2, <2>1, <2>2 DEF compile_tb, Stops
  <2>3. ASSUME NEW x \in Others, BuildStep(x) PROVE (UpToDate => AllPassed)'
    BY <1>1, <1>2, <2>3 DEF BuildStep, Stops
  <2>. QED
    BY <1>6, <2>1, <2>2, <2>3
<1>7. CASE collect_results
  <2>1. CASE trr' = trr /\ \A t \in Test : Collected[t] = "PASS"
    <3>1. ASSUME NEW t \in Test PROVE trr[t].passed = "True"
      BY <2>1 DEF Collected
    <3>. QED
      BY <2>1, <3>1 DEF AllPassed
  <2>. QED
    BY <1>1, <1>7, <2>1 DEF collect_results, Stops
<1>8. ASSUME NEW t \in Riscvdv, run_instr_gen(t) PROVE (UpToDate => AllPassed)'
  <2>1. t \in Test
    BY DEF Test
  <2>2. CASE UNCHANGED <<file_vars, trr>>
    BY <1>1, <2>2
  <2>3. CASE \E n : newer' = AfterWrite(n, Trr(t))
    BY <2>1, <2>3, Exported
  <2>. QED
    BY <1>8, <2>2, <2>3 DEF run_instr_gen, Stops
<1>9. ASSUME NEW t \in Test, compile_test(t) PROVE (UpToDate => AllPassed)'
  <2>1. Bin(t) \in Others
    BY DEF Others, Bins
  <2>. QED
    BY <1>1, <1>2, <1>9, <2>1, Exported DEF compile_test, Stops, Write
<1>10. ASSUME NEW t \in Test, run_rtl_begin(t) PROVE (UpToDate => AllPassed)'
  BY <1>10, Exported DEF run_rtl_begin, Write
<1>11. ASSUME NEW t \in Test, NEW o \in Outcomes, run_rtl_end(t, o)
       PROVE  (UpToDate => AllPassed)'
  BY <1>11, Exported DEF run_rtl_end
<1>12. ASSUME NEW t \in Test, check_logs(t) PROVE (UpToDate => AllPassed)'
  BY <1>1, <1>12, Exported DEF check_logs, Stops, Write
<1>13. CASE UNCHANGED flow_vars
  BY <1>1, <1>13 DEF flow_vars
<1>. QED
  BY <1>3, <1>4, <1>5, <1>6, <1>7, <1>8, <1>9, <1>10, <1>11, <1>12, <1>13 DEF FlowNext

\* However often make is called, interrupted or fails: it takes the regression for done
\* only while the verdict of every test is a pass.
THEOREM StampIsHonest == FlowSpec => []StampHonest
<1>1. FlowInit => (UpToDate => AllPassed)
  <2>1. Regr \notin Trrs
    BY Names DEF Trrs
  <2>. QED
    BY <2>1 DEF FlowInit, UpToDate
<1>2. (UpToDate => AllPassed) /\ [FlowNext]_flow_vars => (UpToDate => AllPassed)'
  BY StepStamp
<1>. QED
  BY <1>1, <1>2, Honest, PTL DEF FlowSpec

-----------------------------------------------------------------------------
(* The graph of the targets: what is made from what, and in which order.   *)

\* A target is made from targets of a lower rank.
Rank(x) == CASE x[1] \in {"tb", "ig"} -> 1
             [] x[1] = "asm"  -> 2
             [] x[1] = "bin"  -> 3
             [] x[1] = "log"  -> 4
             [] x[1] = "trr"  -> 5
             [] x[1] = "cov"  -> 6
             [] OTHER         -> 7

LEMMA Tags ==
    /\ Rtl[1] = "rtl" /\ Gen[1] = "gen" /\ Tb[1] = "tb" /\ Ig[1] = "ig"
    /\ Cov[1] = "cov" /\ Regr[1] = "regr"
    /\ \A t : /\ Asm(t)[1] = "asm" /\ Bin(t)[1] = "bin" /\ Log(t)[1] = "log" /\ Trr(t)[1] = "trr"
              /\ Asm(t)[2] = t /\ Bin(t)[2] = t /\ Log(t)[2] = t /\ Trr(t)[2] = t
    /\ \A x \in Asms : x[1] = "asm" /\ x = Asm(x[2]) /\ x[2] \in Riscvdv
    /\ \A x \in Bins : x[1] = "bin" /\ x = Bin(x[2]) /\ x[2] \in Test
    /\ \A x \in Logs : x[1] = "log" /\ x = Log(x[2]) /\ x[2] \in Test
    /\ \A x \in Trrs : x[1] = "trr" /\ x = Trr(x[2]) /\ x[2] \in Test
  BY DEF Rtl, Gen, Tb, Ig, Cov, Regr, Asm, Bin, Log, Trr, Asms, Bins, Logs, Trrs

LEMMA Made ==
    /\ Prereqs[Tb] = {Rtl} /\ Prereqs[Ig] = {Gen}
    /\ \A x \in Asms : Prereqs[x] = {Ig}
    /\ \A x \in Bins : Prereqs[x] = {Asm(x[2])} \cap Asms
    /\ \A x \in Logs : Prereqs[x] = {Tb, Bin(x[2])}
    /\ \A x \in Trrs : Prereqs[x] = {Log(x[2])}
    /\ Prereqs[Cov] = Trrs
    /\ Prereqs[Regr] = Trrs \cup {Cov}
<1>1. \A x \in Target : Prereqs[x] = PrereqsOf(x)
  BY DEF Prereqs
<1>2. {Tb, Ig, Cov, Regr} \cup Asms \cup Bins \cup Logs \cup Trrs \subseteq Target
  BY DEF Target
<1>3. PrereqsOf(Tb) = {Rtl} /\ PrereqsOf(Ig) = {Gen} /\ PrereqsOf(Cov) = Trrs
  BY Tags DEF PrereqsOf
<1>4. \A x \in Asms : PrereqsOf(x) = {Ig}
  BY Tags DEF PrereqsOf
<1>5. \A x \in Bins : PrereqsOf(x) = {Asm(x[2])} \cap Asms
  BY Tags DEF PrereqsOf
<1>6. \A x \in Logs : PrereqsOf(x) = {Tb, Bin(x[2])}
  BY Tags DEF PrereqsOf
<1>7. \A x \in Trrs : PrereqsOf(x) = {Log(x[2])}
  BY Tags DEF PrereqsOf
<1>. QED
  BY <1>1, <1>2, <1>3, <1>4, <1>5, <1>6, <1>7, Names

LEMMA Lower ==
  ASSUME NEW x \in Target, NEW y \in Prereqs[x]
  PROVE  /\ Rank(x) \in 1..7
         /\ y \in Target => Rank(y) < Rank(x)
<1>1. /\ Rank(Tb) = 1 /\ Rank(Ig) = 1 /\ Rank(Cov) = 6 /\ Rank(Regr) = 7
      /\ \A z \in Asms : Rank(z) = 2
      /\ \A z \in Bins : Rank(z) = 3
      /\ \A z \in Logs : Rank(z) = 4
      /\ \A z \in Trrs : Rank(z) = 5
  BY Tags DEF Rank
<1>2. Rtl \notin Target /\ Gen \notin Target
  BY Tags DEF Target
<1>3. \A t \in Test : Bin(t) \in Bins /\ Log(t) \in Logs
  BY DEF Bins, Logs
<1>4. x \in {Tb, Ig, Cov, Regr} \cup Asms \cup Bins \cup Logs \cup Trrs
  BY DEF Target
<1>. QED
  BY <1>1, <1>2, <1>3, <1>4, Made, Tags

\* WithPrereqs reaches everything below the rank it has reached so far.
Reached(S, r) == \A z \in S \cap Target : Rank(z) > r => Prereqs[z] \subseteq S

Below(S, r) == \A z \in S \cap Target : Rank(z) <= r

LEMMA Ranks == \A x \in Target : Rank(x) \in 1..7
  BY DEF Rank

LEMMA BelowStays ==
  ASSUME NEW S, NEW r \in Nat, Below(S, r)
  PROVE  Below(WithPrereqs(S), r)
<1> SUFFICES ASSUME NEW z \in WithPrereqs(S) \cap Target, z \notin S
             PROVE  Rank(z) <= r
  BY DEF Below
<1>1. PICK x \in S \cap Target : z \in Prereqs[x]
  BY DEF WithPrereqs
<1>2. Rank(z) < Rank(x) /\ Rank(x) \in 1..7 /\ Rank(z) \in 1..7
  BY <1>1, Lower, Ranks
<1>3. Rank(x) <= r
  BY DEF Below
<1>. QED
  BY <1>2, <1>3

LEMMA Deeper ==
  ASSUME NEW S, NEW r \in Nat, Reached(S, r)
  PROVE  Reached(WithPrereqs(S), r - 1) /\ S \subseteq WithPrereqs(S)
<1> SUFFICES ASSUME NEW z \in WithPrereqs(S) \cap Target, Rank(z) > r - 1,
                    NEW y \in Prereqs[z]
             PROVE  y \in WithPrereqs(S)
  BY DEF Reached, WithPrereqs
<1>1. CASE z \in S
  BY <1>1 DEF WithPrereqs
<1>2. CASE z \notin S
  <2>1. PICK x \in S \cap Target : z \in Prereqs[x]
    BY <1>2 DEF WithPrereqs
  <2>2. Rank(z) < Rank(x) /\ Rank(x) \in 1..7 /\ Rank(z) \in 1..7
    BY <2>1, Lower
  <2>3. Rank(x) > r
    BY <2>2
  <2>4. z \in S
    BY <2>1, <2>3 DEF Reached
  <2>. QED
    BY <1>2, <2>4
<1>. QED
  BY <1>1, <1>2

\* Six steps reach all targets below a target.
LEMMA AncestorsClosed ==
  ASSUME NEW x \in Target
  PROVE  /\ \A z \in Ancestors[x] \cap Target : \A y \in Prereqs[z] \cap Target : y \in Ancestors[x]
         /\ Prereqs[x] \cap Target \subseteq Ancestors[x]
         /\ x \notin Ancestors[x]
<1> DEFINE S0 == {x}
           S1 == WithPrereqs(S0)
           S2 == WithPrereqs(S1)
           S3 == WithPrereqs(S2)
           S4 == WithPrereqs(S3)
           S5 == WithPrereqs(S4)
           S6 == WithPrereqs(S5)
<1>1. Ancestors[x] = S6 \ {x}
  BY DEF Ancestors
<1>2. Reached(S0, 7)
  <2>1. \A z \in S0 \cap Target : Prereqs[z] # {} => Rank(z) \in 1..7
    BY Lower
  <2>. QED
    BY <2>1 DEF Reached
<1>3. x \in S0
  OBVIOUS
<1> HIDE DEF S0
<1>4. Reached(S1, 6) /\ S0 \subseteq S1
  BY <1>2, Deeper
<1>5. Prereqs[x] \subseteq S1
  BY <1>3 DEF WithPrereqs
<1> HIDE DEF S1
<1>6. Reached(S2, 5) /\ S1 \subseteq S2
  BY <1>4, Deeper
<1> HIDE DEF S2
<1>7. Reached(S3, 4) /\ S2 \subseteq S3
  BY <1>6, Deeper
<1> HIDE DEF S3
<1>8. Reached(S4, 3) /\ S3 \subseteq S4
  BY <1>7, Deeper
<1> HIDE DEF S4
<1>9. Reached(S5, 2) /\ S4 \subseteq S5
  BY <1>8, Deeper
<1> HIDE DEF S5
<1>10. Reached(S6, 1) /\ S5 \subseteq S6
  BY <1>9, Deeper
<1> HIDE DEF S6
<1>11. Prereqs[x] \subseteq S6
  BY <1>5, <1>6, <1>7, <1>8, <1>9, <1>10
<1>12. ASSUME NEW z \in S6 \cap Target, NEW y \in Prereqs[z] \cap Target PROVE y \in S6
  <2>1. Rank(y) < Rank(z) /\ Rank(z) \in 1..7
    BY Lower
  <2>2. Rank(y) >= 1
    BY Ranks
  <2>3. Rank(z) > 1
    BY <2>1, <2>2, Ranks
  <2>. QED
    BY <1>10, <2>3 DEF Reached
<1>13. Below(S6, Rank(x))
  <2>1. Rank(x) \in Nat
    BY Ranks
  <2>2. Below(S0, Rank(x))
    BY <2>1 DEF Below, S0
  <2>3. Below(S1, Rank(x)) /\ Below(S2, Rank(x)) /\ Below(S3, Rank(x))
    BY <2>1, <2>2, BelowStays DEF S1, S2, S3
  <2>4. Below(S4, Rank(x)) /\ Below(S5, Rank(x)) /\ Below(S6, Rank(x))
    BY <2>1, <2>3, BelowStays DEF S4, S5, S6
  <2>. QED
    BY <2>4
<1>14. ASSUME NEW z \in S6 \cap Target, NEW y \in Prereqs[z] \cap Target PROVE y # x
  <2>1. Rank(y) < Rank(z) /\ Rank(z) <= Rank(x)
    BY <1>13, Lower DEF Below
  <2>. QED
    BY <2>1, Ranks
<1>15. \A y \in Prereqs[x] \cap Target : y # x
  BY Lower, Ranks
<1>. QED
  BY <1>1, <1>11, <1>12, <1>14, <1>15

-----------------------------------------------------------------------------
(* The order in which make runs recipes.                                   *)

\* What runs is to be made; what runs or ran waits for nothing any more.
Ordered ==
    /\ recipes \subseteq Pending
    /\ \A x \in recipes \cup ran : x \in Target /\ Ancestors[x] \cap Pending = {}
    /\ make = "off" => recipes = {}

LEMMA PendingTargets == Pending \subseteq Target
  BY DEF Pending, Needed

LEMMA OrderedStays ==
  ASSUME Ordered, UNCHANGED <<goal, outdated, ran, remade>>, recipes' \subseteq recipes,
         make' = "off" => make = "off"
  PROVE  Ordered'
<1>1. Pending' = Pending
  BY DEF Pending, Needed, MustMake
<1>. QED
  BY <1>1 DEF Ordered

LEMMA OrderedBegin ==
  ASSUME Ordered, NEW x, Starts(x)
  PROVE  Ordered'
<1>1. x \in Pending /\ Ancestors[x] \cap Pending = {} /\ x \in Target
  BY PendingTargets DEF Starts, Startable
<1>2. Pending' = Pending /\ recipes' = recipes \cup {x} /\ ran' = ran
  BY DEF Starts, Pending, Needed, MustMake
<1>. QED
  BY <1>1, <1>2 DEF Ordered, Starts

LEMMA OrderedEnd ==
  ASSUME Ordered, NEW y, NEW changed, Ends(y, changed)
  PROVE  Ordered'
<1>1. /\ y \in recipes /\ recipes' = recipes \ {y} /\ ran' = ran \cup {y}
      /\ remade \subseteq remade' /\ remade' \subseteq remade \cup {y}
      /\ goal' = goal /\ outdated' = outdated
  BY DEF Ends
<1>2. y \in Pending /\ y \in Target
  BY <1>1 DEF Ordered
<1>3. \A z \in Pending \ {y} : z \in Pending'
  BY <1>1 DEF Pending, Needed, MustMake
<1>4. \A z \in Pending' : z \in Target /\ (z \in Pending \/ y \in Prereqs[z])
  BY <1>1, PendingTargets DEF Pending, Needed, MustMake
<1>5. recipes' \subseteq Pending'
  BY <1>1, <1>3 DEF Ordered
<1>6. ASSUME NEW x \in recipes \cup ran, NEW z \in Ancestors[x] \cap Pending' PROVE FALSE
  <2>1. x \in Target /\ Ancestors[x] \cap Pending = {}
    BY DEF Ordered
  <2>2. z \in Target /\ y \in Prereqs[z]
    BY <1>4, <2>1
  <2>3. y \in Ancestors[x]
    BY <1>2, <2>1, <2>2, AncestorsClosed
  <2>. QED
    BY <1>2, <2>1, <2>3
<1>7. \A x \in recipes' \cup ran' : x \in recipes \cup ran
  BY <1>1
<1>. QED
  BY <1>1, <1>5, <1>6, <1>7 DEF Ordered, Ends

LEMMA OrderedNone ==
  ASSUME recipes' = {}, ran' = {}
  PROVE  Ordered'
  BY DEF Ordered

\* Two facts of the graph: the log of a test is made before its verdict, and the
\* testbench before the log.
LEMMA LogFirst ==
  ASSUME NEW t \in Test
  PROVE  /\ Log(t) \in Target /\ Trr(t) \in Target /\ Tb \in Target
         /\ Log(t) \in Prereqs[Trr(t)] /\ Log(t) \in Ancestors[Trr(t)]
         /\ Tb \in Prereqs[Log(t)] /\ Tb \in Ancestors[Log(t)]
         /\ Log(t) \in Ancestors[Regr] /\ Tb \in Ancestors[Regr]
<1>1. Log(t) \in Logs /\ Trr(t) \in Trrs
  BY DEF Logs, Trrs
<1>2. Log(t) \in Target /\ Trr(t) \in Target /\ Tb \in Target /\ Regr \in Target
  BY <1>1 DEF Target
<1>3. Log(t) \in Prereqs[Trr(t)] /\ Tb \in Prereqs[Log(t)] /\ Trr(t) \in Prereqs[Regr]
  BY <1>1, Made, Tags
<1>4. Trr(t) \in Ancestors[Regr]
  BY <1>2, <1>3, AncestorsClosed
<1>5. Log(t) \in Ancestors[Regr]
  BY <1>2, <1>3, <1>4, AncestorsClosed
<1>6. Tb \in Ancestors[Regr]
  BY <1>2, <1>3, <1>5, AncestorsClosed
<1>7. Log(t) \in Ancestors[Trr(t)] /\ Tb \in Ancestors[Log(t)]
  BY <1>2, <1>3, AncestorsClosed
<1>. QED
  BY <1>2, <1>3, <1>5, <1>6, <1>7

-----------------------------------------------------------------------------
(* What the times of the files say of the builds.                          *)

\* A testbench that is up to date is of the present sources, a log that is up to date
\* of the present testbench.
Fresh ==
    /\ Tb \in exists /\ <<Rtl, Tb>> \notin newer => tb = sources
    /\ \A t \in Test \ unwritten :
          Log(t) \in exists /\ <<Tb, Log(t)>> \notin newer => logtb[t] = tb

\* What make saw out of date and has not run is all that can be out of date.
Snapshot ==
    make # "off" =>
       /\ Tb \in outdated \ ran \/ (Tb \in exists /\ <<Rtl, Tb>> \notin newer)
       /\ \A t \in Test \ unwritten :
             \/ Log(t) \in outdated \ ran
             \/ /\ Log(t) \in exists
                /\ <<Tb, Log(t)>> \notin newer \/ (Log(t) \notin ran /\ Tb \in remade)

\* PASS for a test simulated at most once is what its log says.
Verdicts ==
    \A t \in Test :
       /\ sims[t] \in Nat
       /\ sims[t] = 0 => log[t] = NoLog /\ Log(t) \notin recipes /\ trr[t].passed # "True"
       /\ sims[t] = 1 /\ trr[t].passed = "True" => LogPasses(t) /\ Log(t) \notin recipes

Modes  == {"NONE", "TIMEOUT", "LOG_ERROR", "FILE_ERROR"}
Result == [passed : {"None", "True", "False"}, mode : Modes]
FlowTypes ==
    /\ trr \in [Test -> Result] /\ sims \in [Test -> Nat]
    /\ DOMAIN log = Test /\ DOMAIN logtb = Test

FlowIInv == FlowTypes /\ Ordered /\ Fresh /\ Snapshot /\ Verdicts

\* The files whose times matter here, and the marks on them.
Marks == {<<Rtl, Tb>>} \cup {<<Tb, Log(t)>> : t \in Test}

LEMMA Marked ==
  ASSUME NEW n, NEW x \in Target \ ({Tb} \cup Logs)
  PROVE  \A q \in Marks : q \in AfterWrite(n, x) <=> q \in n
<1> SUFFICES ASSUME NEW q \in Marks PROVE q \in AfterWrite(n, x) <=> q \in n
  OBVIOUS
<1>1. q[2] # x /\ q[1] # x
  <2>1. Rtl \notin Target
    BY Tags DEF Target
  <2>2. \A t \in Test : Log(t) \in Logs
    BY DEF Logs
  <2>. QED
    BY <2>1, <2>2 DEF Marks
<1>2. q = <<q[1], q[2]>>
  BY DEF Marks
<1>. QED
  BY <1>1, <1>2 DEF AfterWrite

LEMMA OtherTargets ==
  ASSUME NEW t \in Test
  PROVE  /\ Trr(t) \in Target \ ({Tb} \cup Logs) /\ Bin(t) \in Target \ ({Tb} \cup Logs)
         /\ t \in Riscvdv => Asm(t) \in Target \ ({Tb} \cup Logs)
         /\ {Ig, Cov, Regr} \subseteq Target \ ({Tb} \cup Logs)
         /\ Tb \notin Logs
<1>1. Trr(t) \in Target /\ Bin(t) \in Target /\ (t \in Riscvdv => Asm(t) \in Target)
        /\ {Ig, Cov, Regr} \subseteq Target
  BY DEF Target, Trrs, Bins, Asms
<1>. QED
  BY <1>1, Tags

\* A step that touches neither the testbench nor a log nor what decides about them.
Quiet ==
    /\ \A x \in {Tb} \cup Logs : (x \in exists' <=> x \in exists) /\ (x \in ran' <=> x \in ran)
    /\ \A q \in Marks : q \in newer' <=> q \in newer
    /\ UNCHANGED <<tb, sources, logtb, unwritten, outdated>>
    /\ make' # "off" => make # "off"
    /\ remade \subseteq remade'

LEMMA QuietStep ==
  ASSUME Fresh, Snapshot, Quiet
  PROVE  Fresh' /\ Snapshot'
<1>1. \A t \in Test : Log(t) \in Logs /\ <<Tb, Log(t)>> \in Marks
  BY DEF Logs, Marks
<1>2. <<Rtl, Tb>> \in Marks
  BY DEF Marks
<1>3. Fresh'
  BY <1>1, <1>2 DEF Quiet, Fresh
<1>4. Snapshot'
  BY <1>1, <1>2 DEF Quiet, Snapshot
<1>. QED
  BY <1>3, <1>4

\* A step that neither begins nor ends a simulation, nor gives a verdict.
LEMMA VerdictStays ==
  ASSUME Verdicts, FlowTypes, UNCHANGED <<sims, log, trr, logtb>>, recipes' \cap Logs \subseteq recipes
  PROVE  Verdicts' /\ FlowTypes'
<1>1. \A t \in Test : Log(t) \in Logs
  BY DEF Logs
<1>. QED
  BY <1>1 DEF Verdicts, FlowTypes, LogPasses

LEMMA UvmMode == ASSUME NEW lines PROVE check_ibex_uvm_log(lines).mode \in Modes
<1> DEFINE r == FoldLeft(ReadLine, StartReading, lines)
           f == r.failed
           w == r.error_line = "wall"
           n == r.error_line = "None"
           p == r.passed /\ ~r.failed
<1>1. check_ibex_uvm_log(lines) =
        [passed |-> p, mode |-> CASE ~f -> "NONE" [] f /\ w -> "TIMEOUT" [] OTHER -> "LOG_ERROR",
         crashed |-> f /\ n]
  BY Zenon DEF check_ibex_uvm_log
<1> HIDE DEF r, f, w, n, p
<1>2. check_ibex_uvm_log(lines).mode = CASE ~f -> "NONE" [] f /\ w -> "TIMEOUT" [] OTHER -> "LOG_ERROR"
  BY <1>1
<1>3. CASE ~f
  <2>1. check_ibex_uvm_log(lines).mode = "NONE"
    BY <1>2, <1>3
  <2>. QED
    BY <2>1 DEF Modes
<1>4. CASE f /\ w
  <2>1. check_ibex_uvm_log(lines).mode = "TIMEOUT"
    BY <1>2, <1>4
  <2>. QED
    BY <2>1 DEF Modes
<1>5. CASE f /\ ~w
  <2>1. check_ibex_uvm_log(lines).mode = "LOG_ERROR"
    BY <1>2, <1>5
  <2>. QED
    BY <2>1 DEF Modes
<1>. QED
  BY <1>3, <1>4, <1>5

\* check_logs records a pass for a log that passes, or keeps the one that is there.
LEMMA Compared ==
  ASSUME NEW r \in Result, NEW l
  PROVE  /\ compare_test_run(r, l) \in Result
         /\ compare_test_run(r, l).passed = "True" =>
               \/ r.passed = "True"
               \/ process_ibex_sim_log(l.trace) /\ check_ibex_uvm_log(l.lines).passed
<1> DEFINE ok  == process_ibex_sim_log(l.trace)
           uvm == check_ibex_uvm_log(l.lines)
<1>1. uvm.mode \in Modes
  BY UvmMode
<1>2. compare_test_run(r, l) =
        CASE r.mode = "TIMEOUT" -> [r EXCEPT !.passed = "False"]
          [] r.mode # "TIMEOUT" /\ ~ok -> [r EXCEPT !.passed = "False", !.mode = "FILE_ERROR"]
          [] r.mode # "TIMEOUT" /\ ok /\ ~uvm.passed -> [r EXCEPT !.mode = uvm.mode]
          [] OTHER -> [r EXCEPT !.passed = "True"]
  BY DEF compare_test_run
<1> HIDE DEF ok, uvm
<1>3. CASE r.mode = "TIMEOUT"
  BY <1>2, <1>3 DEF Result, Modes
<1>4. CASE r.mode # "TIMEOUT" /\ ~ok
  <2>1. compare_test_run(r, l) = [r EXCEPT !.passed = "False", !.mode = "FILE_ERROR"]
    BY <1>2, <1>4
  <2> DEFINE s == [r EXCEPT !.passed = "False"]
  <2>2. [r EXCEPT !.passed = "False", !.mode = "FILE_ERROR"] = [s EXCEPT !.mode = "FILE_ERROR"]
    OBVIOUS
  <2>3. s \in Result /\ s.passed = "False"
    BY DEF Result
  <2> HIDE DEF s
  <2>4. [s EXCEPT !.mode = "FILE_ERROR"] \in Result /\ [s EXCEPT !.mode = "FILE_ERROR"].passed = "False"
    BY <2>3 DEF Result, Modes
  <2>. QED
    BY <2>1, <2>2, <2>4
<1>5. CASE r.mode # "TIMEOUT" /\ ok /\ ~uvm.passed
  BY <1>1, <1>2, <1>5 DEF Result, Modes
<1>6. CASE r.mode # "TIMEOUT" /\ ok /\ uvm.passed
  <2>1. compare_test_run(r, l) = [r EXCEPT !.passed = "True"]
    BY <1>2, <1>6
  <2>2. [r EXCEPT !.passed = "True"] \in Result
    BY DEF Result, Modes
  <2>. QED
    BY <1>6, <2>1, <2>2 DEF ok, uvm
<1>. QED
  BY <1>3, <1>4, <1>5, <1>6

LEMMA NoLogFails == ~process_ibex_sim_log(NoLog.trace)
  BY DEF NoLog, process_ibex_sim_log

-----------------------------------------------------------------------------
(* The steps.                                                              *)

\* A step that leaves the testbench, the logs and their times as they are.
FilesQuiet ==
    /\ \A x \in {Tb} \cup Logs : x \in exists' <=> x \in exists
    /\ \A q \in Marks : q \in newer' <=> q \in newer

LEMMA WriteQuiet ==
  ASSUME NEW x \in Target \ ({Tb} \cup Logs), Write(x)
  PROVE  FilesQuiet
  BY Marked DEF Write, FilesQuiet

\* A recipe that begins, unless it is a simulation.
LEMMA Began ==
  ASSUME FlowIInv, NEW x \in Target \ Logs, Starts(x), FilesQuiet,
         UNCHANGED <<trr, log, sources, tb, logtb, sims, unwritten>>
  PROVE  FlowIInv'
<1>1. Quiet
  BY DEF Starts, Quiet, FilesQuiet
<1>2. recipes' \cap Logs \subseteq recipes
  BY DEF Starts
<1>. QED
  BY <1>1, <1>2, OrderedBegin, QuietStep, VerdictStays DEF FlowIInv

\* A recipe that ends, unless it makes the testbench, a log or a verdict.
LEMMA Ended ==
  ASSUME FlowIInv, NEW x \in Target \ ({Tb} \cup Logs), NEW changed, Ends(x, changed), FilesQuiet,
         UNCHANGED <<trr, log, sources, tb, logtb, sims, unwritten>>
  PROVE  FlowIInv'
<1>1. Quiet
  BY DEF Ends, Quiet, FilesQuiet
<1>2. recipes' \cap Logs \subseteq recipes
  BY DEF Ends
<1>. QED
  BY <1>1, <1>2, OrderedEnd, QuietStep, VerdictStays DEF FlowIInv

\* A recipe that stops with an error touches nothing else.
LEMMA Stopped ==
  ASSUME FlowIInv, NEW x, Stops(x), UNCHANGED trr
  PROVE  FlowIInv'
<1>1. Quiet
  <2>1. make # "off"
    BY DEF Stops, FlowIInv, Ordered
  <2>2. UNCHANGED <<exists, newer, outdated, ran, remade, sources, tb, logtb, unwritten>>
    BY DEF Stops, file_vars
  <2>. QED
    BY <2>1, <2>2 DEF Quiet
<1>2. /\ recipes' \subseteq recipes /\ UNCHANGED <<goal, outdated, ran, remade, sims, log, logtb>>
      /\ make' # "off"
  BY DEF Stops
<1>. QED
  BY <1>1, <1>2, OrderedStays, QuietStep, VerdictStays DEF FlowIInv

\* make is called, ends or is interrupted; a source is edited.
LEMMA MakeStep ==
  ASSUME FlowIInv, NEW g, Make(g)
  PROVE  FlowIInv'
<1>1. Ordered'
  BY OrderedNone DEF Make
<1>2. Fresh'
  BY DEF FlowIInv, Fresh, Make, file_vars
<1>3. Snapshot'
  <2>1. Tb \in outdated' \/ (Tb \in exists /\ <<Rtl, Tb>> \notin newer)
    BY Made, LogFirst, Names DEF Make, Target
  <2>2. \A t \in Test : Log(t) \in outdated' \/ (Log(t) \in exists /\ <<Tb, Log(t)>> \notin newer)
    BY LogFirst DEF Make
  <2>3. ran' = {} /\ exists' = exists /\ newer' = newer /\ unwritten' = unwritten
    BY DEF Make, file_vars
  <2>. QED
    BY <2>1, <2>2, <2>3 DEF Snapshot
<1>4. Verdicts' /\ FlowTypes'
  BY VerdictStays DEF FlowIInv, Make
<1>. QED
  BY <1>1, <1>2, <1>3, <1>4 DEF FlowIInv

LEMMA MakeEndsStep ==
  ASSUME FlowIInv, MakeEnds
  PROVE  FlowIInv'
<1>1. Ordered'
  BY OrderedNone DEF MakeEnds
<1>2. Fresh' /\ Snapshot'
  BY DEF FlowIInv, Fresh, Snapshot, MakeEnds, file_vars
<1>3. Verdicts' /\ FlowTypes'
  BY VerdictStays DEF FlowIInv, MakeEnds
<1>. QED
  BY <1>1, <1>2, <1>3 DEF FlowIInv

LEMMA InterruptStep ==
  ASSUME FlowIInv, Interrupt
  PROVE  FlowIInv'
<1>1. PICK half \in SUBSET (recipes \cap Logs) :
        /\ exists' = exists \ half
        /\ newer' = {e \in newer : e[1] \notin half /\ e[2] \notin half}
        /\ log' = [t \in Test |-> IF Log(t) \in half THEN NoLog ELSE log[t]]
        /\ unwritten' = {t \in unwritten : Log(t) \notin half}
  BY DEF Interrupt
<1>2. Ordered' /\ Snapshot'
  BY OrderedNone DEF Interrupt, Snapshot
<1>3. Fresh'
  <2>1. Tb \notin half /\ Rtl \notin half
    BY Tags
  <2>2. <<Rtl, Tb>> \in newer' <=> <<Rtl, Tb>> \in newer
    BY <1>1, <2>1
  <2>3. \A t \in Test : Log(t) \notin half => (<<Tb, Log(t)>> \in newer' <=> <<Tb, Log(t)>> \in newer)
    BY <1>1, <2>1
  <2>4. UNCHANGED <<tb, sources, logtb>>
    BY DEF Interrupt
  <2>. QED
    BY <1>1, <2>1, <2>2, <2>3, <2>4 DEF FlowIInv, Fresh
<1>4. FlowTypes'
  BY <1>1 DEF FlowIInv, FlowTypes, Interrupt
<1>5. Verdicts'
  <2>1. UNCHANGED <<sims, trr>> /\ recipes' = {}
    BY DEF Interrupt
  <2>2. \A t \in Test : log'[t] = (IF Log(t) \in half THEN NoLog ELSE log[t])
    BY <1>1
  <2>. QED
    BY <2>1, <2>2 DEF FlowIInv, Verdicts, LogPasses
<1>. QED
  BY <1>2, <1>3, <1>4, <1>5 DEF FlowIInv

LEMMA EditStep ==
  ASSUME FlowIInv, Edit
  PROVE  FlowIInv'
<1>1. Ordered'
  BY OrderedStays DEF Edit, make_vars, FlowIInv
<1>2. Snapshot'
  BY DEF Edit, make_vars, Snapshot
<1>3. Fresh'
  <2>1. <<Rtl, Tb>> \in newer'
    BY Made, Names DEF Edit, AfterWrite, Target
  <2>2. ASSUME NEW t \in Test PROVE <<Tb, Log(t)>> \in newer' <=> <<Tb, Log(t)>> \in newer
    BY Tags DEF Edit, AfterWrite
  <2>3. UNCHANGED <<exists, tb, logtb, unwritten>>
    BY DEF Edit
  <2>. QED
    BY <2>1, <2>2, <2>3 DEF FlowIInv, Fresh
<1>4. Verdicts' /\ FlowTypes'
  BY VerdictStays DEF FlowIInv, Edit, make_vars
<1>. QED
  BY <1>1, <1>2, <1>3, <1>4 DEF FlowIInv

\* The recipes.
LEMMA CompileTbStep ==
  ASSUME FlowIInv, compile_tb
  PROVE  FlowIInv'
<1>1. Tb \in Target \ Logs
  BY OtherTargets, Tags DEF Target
<1>2. CASE /\ Starts(Tb)
           /\ UNCHANGED <<file_vars, trr, log, sources, tb, logtb, sims, unwritten, summary>>
  BY <1>1, <1>2, Began DEF FilesQuiet, file_vars
<1>3. CASE Stops(Tb) /\ UNCHANGED <<trr, summary>>
  BY <1>3, Stopped
<1>4. CASE /\ Ends(Tb, TRUE) /\ Write(Tb) /\ tb' = sources
           /\ UNCHANGED <<trr, log, sources, logtb, sims, unwritten, summary>>
  <2>1. Ordered'
    BY <1>4, OrderedEnd DEF FlowIInv
  <2>2. \A t \in Test : Log(t) \notin ran /\ Log(t) # Tb
    BY <1>4, LogFirst, Tags DEF Ends, FlowIInv, Ordered
  <2>3. \A t \in Test : <<Tb, Log(t)>> \in newer'
    BY <1>4, LogFirst DEF Write, AfterWrite
  <2>4. Tb \in exists' /\ <<Rtl, Tb>> \notin newer'
    BY <1>4, Tags DEF Write, AfterWrite
  <2>5. Fresh'
    BY <1>4, <2>3 DEF Fresh
  <2>6. Snapshot'
    <3>1. \A t \in Test : Log(t) \notin ran' /\ (Log(t) \in exists' <=> Log(t) \in exists)
      BY <1>4, <2>2 DEF Ends, Write
    <3>2. UNCHANGED <<unwritten, outdated, make>> /\ Tb \in remade'
      BY <1>4 DEF Ends
    <3>. QED
      BY <2>2, <2>4, <3>1, <3>2 DEF FlowIInv, Snapshot
  <2>7. Verdicts' /\ FlowTypes'
    <3>1. recipes' \subseteq recipes
      BY <1>4 DEF Ends
    <3>. QED
      BY <1>4, <3>1, VerdictStays DEF FlowIInv
  <2>. QED
    BY <2>1, <2>5, <2>6, <2>7 DEF FlowIInv
<1>. QED
  BY <1>2, <1>3, <1>4 DEF compile_tb

LEMMA BuildStepStep ==
  ASSUME FlowIInv, NEW x \in {Ig, Cov}, BuildStep(x)
  PROVE  FlowIInv'
<1>1. x \in Target \ ({Tb} \cup Logs)
  BY Tags DEF Target
<1>2. CASE /\ Starts(x)
           /\ UNCHANGED <<file_vars, trr, log, sources, tb, logtb, sims, unwritten, summary>>
  BY <1>1, <1>2, Began DEF FilesQuiet, file_vars
<1>3. CASE Stops(x) /\ UNCHANGED <<trr, summary>>
  BY <1>3, Stopped
<1>4. CASE /\ Ends(x, TRUE) /\ Write(x)
           /\ UNCHANGED <<trr, log, sources, tb, logtb, sims, unwritten, summary>>
  BY <1>1, <1>4, WriteQuiet, Ended
<1>. QED
  BY <1>2, <1>3, <1>4 DEF BuildStep

LEMMA GenStep ==
  ASSUME FlowIInv, NEW t \in Test, t \in Riscvdv, run_instr_gen(t)
  PROVE  FlowIInv'
<1>1. Asm(t) \in Target \ ({Tb} \cup Logs) /\ Trr(t) \in Target \ ({Tb} \cup Logs)
  BY OtherTargets
<1>2. CASE /\ Starts(Asm(t))
           /\ UNCHANGED <<file_vars, trr, log, sources, tb, logtb, sims, unwritten, summary>>
  BY <1>1, <1>2, Began DEF FilesQuiet, file_vars
<1>3. CASE Stops(Asm(t)) /\ UNCHANGED <<trr, summary>>
  BY <1>3, Stopped
<1>4. ASSUME NEW generated \in BOOLEAN,
             /\ Ends(Asm(t), generated \/ Asm(t) \notin exists)
             /\ exists' = IF generated THEN exists \cup {Asm(t)} ELSE exists
             /\ newer' = AfterWrite(IF generated THEN AfterWrite(newer, Asm(t)) ELSE newer, Trr(t))
             /\ UNCHANGED <<trr, log, sources, tb, logtb, sims, unwritten, summary>>
      PROVE  FlowIInv'
  <2>1. FilesQuiet
    BY <1>1, <1>4, Marked DEF FilesQuiet
  <2>. QED
    BY <1>1, <1>4, <2>1, Ended
<1>. QED
  BY <1>2, <1>3, <1>4 DEF run_instr_gen

LEMMA CompileTestStep ==
  ASSUME FlowIInv, NEW t \in Test, compile_test(t)
  PROVE  FlowIInv'
<1>1. Bin(t) \in Target \ ({Tb} \cup Logs) /\ Trr(t) \in Target \ ({Tb} \cup Logs)
  BY OtherTargets
<1>2. CASE /\ Starts(Bin(t)) /\ Write(Trr(t))
           /\ UNCHANGED <<trr, log, sources, tb, logtb, sims, unwritten, summary>>
  BY <1>1, <1>2, WriteQuiet, Began
<1>3. CASE Stops(Bin(t)) /\ UNCHANGED <<trr, summary>>
  BY <1>3, Stopped
<1>4. CASE /\ Ends(Bin(t), TRUE) /\ Write(Bin(t))
           /\ UNCHANGED <<trr, log, sources, tb, logtb, sims, unwritten, summary>>
  BY <1>1, <1>4, WriteQuiet, Ended
<1>. QED
  BY <1>2, <1>3, <1>4 DEF compile_test

LEMMA CollectStep ==
  ASSUME FlowIInv, collect_results
  PROVE  FlowIInv'
<1>1. Regr \in Target \ ({Tb} \cup Logs)
  BY Tags DEF Target
<1>2. CASE /\ Starts(Regr)
           /\ UNCHANGED <<file_vars, trr, log, sources, tb, logtb, sims, unwritten, summary>>
  BY <1>1, <1>2, Began DEF FilesQuiet, file_vars
<1>3. CASE Stops(Regr) /\ UNCHANGED trr
  BY <1>3, Stopped
<1>4. CASE /\ Ends(Regr, TRUE) /\ Write(Regr)
           /\ UNCHANGED <<trr, log, sources, tb, logtb, sims, unwritten>>
  BY <1>1, <1>4, WriteQuiet, Ended
<1>. QED
  BY <1>2, <1>3, <1>4 DEF collect_results

LEMMA SimBeginStep ==
  ASSUME FlowIInv, NEW t \in Test, run_rtl_begin(t)
  PROVE  FlowIInv'
<1>1. Trr(t) \in Target \ ({Tb} \cup Logs)
  BY OtherTargets
<1>2. FilesQuiet
  BY <1>1, WriteQuiet DEF run_rtl_begin
<1>3. Ordered'
  BY OrderedBegin DEF run_rtl_begin, FlowIInv
<1>4. Quiet
  BY <1>2 DEF Starts, Quiet, FilesQuiet, run_rtl_begin
<1>5. Fresh' /\ Snapshot'
  BY <1>4, QuietStep DEF FlowIInv
<1>6. FlowTypes'
  BY DEF run_rtl_begin, FlowTypes, FlowIInv
<1>7. Verdicts'
  <2>1. UNCHANGED <<trr, log>> /\ recipes' = recipes \cup {Log(t)}
    BY DEF run_rtl_begin, Starts
  <2>2. sims'[t] = sims[t] + 1 /\ \A u \in Test : u # t => sims'[u] = sims[u]
    BY DEF run_rtl_begin, FlowTypes, FlowIInv
  <2>3. \A u \in Test : u # t => Log(u) # Log(t)
    BY Tags
  <2>. QED
    BY <2>1, <2>2, <2>3 DEF FlowIInv, Verdicts, LogPasses
<1>. QED
  BY <1>3, <1>5, <1>6, <1>7 DEF FlowIInv

LEMMA SimEndStep ==
  ASSUME FlowIInv, NEW t \in Test, NEW o, run_rtl_end(t, o)
  PROVE  FlowIInv'
<1>1. /\ Log(t) \in Target /\ Log(t) \in Logs
      /\ Trr(t) \in Target \ ({Tb} \cup Logs)
      /\ \A u \in Test : u # t => Log(u) # Log(t)
      /\ Log(t) # Tb /\ Log(t) # Rtl
  BY OtherTargets, LogFirst, Tags DEF Logs
<1>2. /\ Log(t) \in recipes /\ recipes' = recipes \ {Log(t)} /\ ran' = ran \cup {Log(t)}
      /\ remade \subseteq remade' /\ UNCHANGED <<make, goal, outdated, makes>>
  BY DEF run_rtl_end, Ends
<1>3. Ordered'
  BY OrderedEnd DEF run_rtl_end, FlowIInv
<1>4. trr'[t].passed = trr[t].passed /\ trr'[t] \in Result
      /\ \A u \in Test : u # t => trr'[u] = trr[u]
  <2>1. trr' = [trr EXCEPT ![t].mode = IF o.killed THEN "TIMEOUT" ELSE @]
    BY DEF run_rtl_end
  <2>2. trr[t] \in Result /\ DOMAIN trr = Test
    BY DEF FlowIInv, FlowTypes
  <2> DEFINE m == IF o.killed THEN "TIMEOUT" ELSE trr[t].mode
  <2>3. m \in Modes
    BY <2>2 DEF Result, Modes
  <2>4. trr' = [trr EXCEPT ![t] = [trr[t] EXCEPT !.mode = m]]
    BY <2>1
  <2> HIDE DEF m
  <2>5. trr'[t] = [trr[t] EXCEPT !.mode = m]
    BY <2>2, <2>4
  <2>6. \A u \in Test : u # t => trr'[u] = trr[u]
    BY <2>2, <2>4
  <2>. QED
    BY <2>2, <2>3, <2>5, <2>6 DEF Result
<1>5. FlowTypes'
  <2>1. DOMAIN trr' = Test /\ \A u \in Test : trr'[u] \in Result
    BY <1>4 DEF run_rtl_end, FlowTypes, FlowIInv
  <2>2. trr' \in [Test -> Result]
    <3>1. trr' = [u \in Test |-> trr'[u]]
      BY DEF run_rtl_end, FlowTypes, FlowIInv
    <3>. QED
      BY <2>1, <3>1
  <2>3. sims' = sims /\ DOMAIN log' = Test /\ DOMAIN logtb' = Test
    BY DEF run_rtl_end, FlowTypes, FlowIInv
  <2>. QED
    BY <2>2, <2>3 DEF FlowTypes, FlowIInv
<1>6. Verdicts'
  <2>1. \A u \in Test : u # t => log'[u] = log[u]
    BY DEF run_rtl_end, FlowIInv, FlowTypes
  <2>2. sims' = sims
    BY DEF run_rtl_end
  <2>3. sims[t] # 0 /\ ~(sims[t] = 1 /\ trr[t].passed = "True")
    BY <1>2 DEF FlowIInv, Verdicts
  <2>. QED
    BY <1>2, <1>4, <2>1, <2>2, <2>3 DEF FlowIInv, Verdicts, LogPasses
<1>7. Fresh' /\ Snapshot'
  <2>1. /\ UNCHANGED <<tb, sources>> /\ \A u \in Test : u # t => logtb'[u] = logtb[u]
        /\ DOMAIN logtb = Test
    BY DEF run_rtl_end, FlowIInv, FlowTypes
  <2>2. \A x : x # Log(t) => (x \in ran' <=> x \in ran) /\ (x \in exists' <=> x \in exists)
    BY <1>2 DEF run_rtl_end
  <2>3. CASE o.written
    <3>1. \A q \in Marks : q \in newer' <=> q \in AfterWrite(newer, Log(t))
      BY <1>1, <2>3, Marked DEF run_rtl_end
    <3>2. <<Rtl, Tb>> \in newer' <=> <<Rtl, Tb>> \in newer
      BY <1>1, <3>1 DEF Marks, AfterWrite
    <3>3. \A u \in Test : u # t => (<<Tb, Log(u)>> \in newer' <=> <<Tb, Log(u)>> \in newer)
      BY <1>1, <3>1 DEF Marks, AfterWrite
    <3>4. <<Tb, Log(t)>> \notin newer'
      BY <1>1, <3>1 DEF Marks, AfterWrite
    <3>5. logtb'[t] = tb /\ Log(t) \in exists' /\ unwritten' = unwritten \ {t}
      BY <2>1, <2>3 DEF run_rtl_end
    <3>6. Fresh'
      BY <1>1, <2>1, <2>2, <3>2, <3>3, <3>5 DEF FlowIInv, Fresh
    <3>7. Snapshot'
      BY <1>1, <1>2, <2>2, <3>2, <3>3, <3>4, <3>5 DEF FlowIInv, Snapshot
    <3>. QED
      BY <3>6, <3>7
  <2>4. CASE ~o.written
    <3>1. \A q \in Marks : q \in newer' <=> q \in newer
      BY <1>1, <2>4, Marked DEF run_rtl_end
    <3>2. \A u \in Test : <<Tb, Log(u)>> \in Marks
      BY DEF Marks
    <3>3. <<Rtl, Tb>> \in Marks
      BY DEF Marks
    <3>4. exists' = exists /\ unwritten' = unwritten \cup {t}
      BY <2>4 DEF run_rtl_end
    <3>5. Fresh'
      BY <1>1, <2>1, <3>1, <3>2, <3>3, <3>4 DEF FlowIInv, Fresh
    <3>6. Snapshot'
      BY <1>1, <1>2, <2>2, <3>1, <3>2, <3>3, <3>4 DEF FlowIInv, Snapshot
    <3>. QED
      BY <3>5, <3>6
  <2>. QED
    BY <2>3, <2>4
<1>. QED
  BY <1>3, <1>5, <1>6, <1>7 DEF FlowIInv

LEMMA CheckStep ==
  ASSUME FlowIInv, NEW t \in Test, check_logs(t)
  PROVE  FlowIInv'
<1>1. Trr(t) \in Target \ ({Tb} \cup Logs)
  BY OtherTargets
<1>2. CASE /\ Starts(Trr(t))
           /\ UNCHANGED <<file_vars, trr, log, sources, tb, logtb, sims, unwritten, summary>>
  BY <1>1, <1>2, Began DEF FilesQuiet, file_vars
<1>3. CASE Stops(Trr(t)) /\ UNCHANGED <<trr, summary>>
  BY <1>3, Stopped
<1>4. CASE /\ Ends(Trr(t), TRUE) /\ Write(Trr(t))
           /\ trr' = [trr EXCEPT ![t] = compare_test_run(@, log[t])]
           /\ UNCHANGED <<log, sources, tb, logtb, sims, unwritten, summary>>
  <2>1. FilesQuiet
    BY <1>1, <1>4, WriteQuiet
  <2>2. Ordered'
    BY <1>4, OrderedEnd DEF FlowIInv
  <2>3. Quiet
    BY <1>1, <1>4, <2>1 DEF Ends, Quiet, FilesQuiet
  <2>4. Fresh' /\ Snapshot'
    BY <2>3, QuietStep DEF FlowIInv
  <2> DEFINE v == compare_test_run(trr[t], log[t])
  <2>5. trr[t] \in Result /\ DOMAIN trr = Test
    BY DEF FlowIInv, FlowTypes
  <2>6. /\ v \in Result
        /\ v.passed = "True" => trr[t].passed = "True" \/ LogPasses(t)
    BY <2>5, Compared DEF LogPasses
  <2>7. log[t] = NoLog => ~LogPasses(t)
    BY NoLogFails DEF LogPasses
  <2>8. Log(t) \notin recipes
    BY <1>4, LogFirst DEF Ends, FlowIInv, Ordered
  <2>9. trr' = [trr EXCEPT ![t] = v]
    BY <1>4
  <2> HIDE DEF v
  <2>10. trr'[t] = v /\ \A u \in Test : u # t => trr'[u] = trr[u]
    BY <2>5, <2>9
  <2>11. FlowTypes'
    BY <1>4, <2>6, <2>9 DEF FlowTypes, FlowIInv
  <2>12. recipes' \subseteq recipes
    BY <1>4 DEF Ends
  <2>13. Verdicts'
    BY <1>4, <2>6, <2>7, <2>8, <2>10, <2>12 DEF FlowIInv, Verdicts, LogPasses
  <2>. QED
    BY <2>2, <2>4, <2>11, <2>13 DEF FlowIInv
<1>. QED
  BY <1>2, <1>3, <1>4 DEF check_logs

LEMMA FlowInitIInv == FlowInit => FlowIInv
<1> SUFFICES ASSUME FlowInit PROVE FlowIInv
  OBVIOUS
<1>1. FlowTypes
  <2>1. [passed |-> "None", mode |-> "NONE"] \in Result
    BY DEF Result, Modes
  <2>. QED
    BY <2>1 DEF FlowInit, FlowTypes
<1>2. Ordered /\ Snapshot
  BY DEF FlowInit, Ordered, Snapshot
<1>3. Fresh
  <2>1. Tb \notin Trrs /\ \A t \in Test : Log(t) \notin Trrs
    BY Tags
  <2>. QED
    BY <2>1 DEF FlowInit, Fresh
<1>4. Verdicts
  BY DEF FlowInit, Verdicts
<1>. QED
  BY <1>1, <1>2, <1>3, <1>4 DEF FlowIInv

LEMMA FlowNextIInv == FlowIInv /\ [FlowNext]_flow_vars => FlowIInv'
<1> SUFFICES ASSUME FlowIInv, [FlowNext]_flow_vars PROVE FlowIInv'
  OBVIOUS
<1>1. ASSUME NEW g, Make(g) PROVE FlowIInv'
  BY <1>1, MakeStep
<1>2. CASE MakeEnds
  BY <1>2, MakeEndsStep
<1>3. CASE Interrupt
  BY <1>3, InterruptStep
<1>4. CASE Edit
  BY <1>4, EditStep
<1>5. CASE compile_tb
  BY <1>5, CompileTbStep
<1>6. CASE BuildStep(Ig) \/ BuildStep(Cov)
  BY <1>6, BuildStepStep
<1>7. CASE collect_results
  BY <1>7, CollectStep
<1>8. ASSUME NEW t \in Test, t \in Riscvdv /\ run_instr_gen(t) PROVE FlowIInv'
  BY <1>8, GenStep
<1>9. ASSUME NEW t \in Test, compile_test(t) PROVE FlowIInv'
  BY <1>9, CompileTestStep
<1>10. ASSUME NEW t \in Test, run_rtl_begin(t) PROVE FlowIInv'
  BY <1>10, SimBeginStep
<1>11. ASSUME NEW t \in Test, check_logs(t) PROVE FlowIInv'
  BY <1>11, CheckStep
<1>12. ASSUME NEW t \in Test, NEW o \in Outcomes, run_rtl_end(t, o) PROVE FlowIInv'
  BY <1>12, SimEndStep
<1>13. CASE UNCHANGED flow_vars
  BY <1>13 DEF flow_vars, file_vars, make_vars, FlowIInv, FlowTypes, Ordered, Fresh, Snapshot, Verdicts,
               LogPasses, Pending, Needed, MustMake
<1>. QED
  BY <1>1, <1>2, <1>3, <1>4, <1>5, <1>6, <1>7, <1>8, <1>9, <1>10, <1>11, <1>12, <1>13 DEF FlowNext

\* The invariant behind both properties holds for any tests, goals and bounds.
THEOREM FlowInvariant == FlowSpec => []FlowIInv
  BY FlowInitIInv, FlowNextIInv, PTL DEF FlowSpec

\* Whatever order make runs the recipes in, wherever it is interrupted and whatever
\* fails: check_logs has recorded PASS for a test simulated once only if its log passes.
THEOREM VerdictsAreEarned == FlowSpec => []FirstVerdict
<1>1. FlowIInv => FirstVerdict
  BY DEF FlowIInv, Verdicts, FirstVerdict
<1>. QED
  BY <1>1, FlowInvariant, PTL

\* For any number of tests, edits and calls of make, interrupted anywhere: a regression
\* that succeeds has simulated every test on a testbench of the present sources.
THEOREM BuildIsCurrent == FlowSpec => []CurrentBuild
<1>1. FlowIInv => CurrentBuild
  <2> SUFFICES ASSUME FlowIInv, Finished, goal = Regr, NEW t \in Test \ unwritten
               PROVE  logtb[t] = sources
    BY DEF CurrentBuild
  <2>1. Tb \in Needed /\ Log(t) \in Needed /\ Tb \in Prereqs[Log(t)]
    BY LogFirst DEF Needed
  <2>2. Tb \notin outdated \ ran /\ Log(t) \notin outdated \ ran
    BY <2>1 DEF Finished, Pending, MustMake
  <2>3. ~(Log(t) \notin ran /\ Tb \in remade)
    BY <2>1 DEF Finished, Pending, MustMake
  <2>4. make # "off"
    BY DEF Finished
  <2>5. Tb \in exists /\ <<Rtl, Tb>> \notin newer /\ Log(t) \in exists /\ <<Tb, Log(t)>> \notin newer
    BY <2>2, <2>3, <2>4 DEF FlowIInv, Snapshot
  <2>. QED
    BY <2>5 DEF FlowIInv, Fresh
<1>. QED
  BY <1>1, FlowInvariant, PTL

-----------------------------------------------------------------------------
(* The lock of the metadata.                                               *)

\* StoreInv holds at first, and every action keeps it.
LEMMA InitInv == StoreInit => StoreInv
  BY DEF StoreInit, StoreInv, StoreTypeOK, Exclusive, CommittedStays, TornIsGuarded, LoadedAll,
         Proc, Fields

LEMMA EnterInv ==
  ASSUME StoreInv, NEW w \in Writers, Enter(w) PROVE StoreInv'
  BY KindsDiffer DEF Enter, Goto, StoreInv, StoreTypeOK, Exclusive, CommittedStays,
         TornIsGuarded, LoadedAll, Proc, Fields

LEMMA AlarmInv ==
  ASSUME StoreInv, NEW w \in Writers, Alarm(w) PROVE StoreInv'
  BY DEF Alarm, Goto, StoreInv, StoreTypeOK, Exclusive, CommittedStays,
         TornIsGuarded, LoadedAll, Proc, Fields

LEMMA LockedInv ==
  ASSUME StoreInv, NEW w \in Writers, Locked(w) PROVE StoreInv'
  BY DEF Locked, Goto, StoreInv, StoreTypeOK, Exclusive, CommittedStays,
         TornIsGuarded, LoadedAll, Proc, Fields

LEMMA TruncateInv ==
  ASSUME StoreInv, NEW w \in Writers, Truncate(w) PROVE StoreInv'
  BY DEF Truncate, Goto, StoreInv, StoreTypeOK, Exclusive, CommittedStays,
         TornIsGuarded, LoadedAll, Proc, Fields

LEMMA DumpInv ==
  ASSUME StoreInv, NEW w \in Writers, Dump(w) PROVE StoreInv'
  BY DEF Dump, Goto, StoreInv, StoreTypeOK, Exclusive, CommittedStays,
         TornIsGuarded, LoadedAll, Proc, Fields

LEMMA ReadInv ==
  ASSUME StoreInv, NEW r \in Readers, Read(r) PROVE StoreInv'
  BY KindsDiffer DEF Read, Goto, StoreInv, StoreTypeOK, Exclusive, CommittedStays,
         TornIsGuarded, LoadedAll, Proc, Fields

LEMMA KillInv ==
  ASSUME StoreInv, NEW p \in Proc, Kill(p) PROVE StoreInv'
  BY DEF Kill, Goto, StoreInv, StoreTypeOK, Exclusive, CommittedStays,
         TornIsGuarded, LoadedAll, Proc, Fields

LEMMA AgainInv ==
  ASSUME StoreInv, NEW p \in Proc, Again(p) PROVE StoreInv'
  BY DEF Again, Goto, StoreInv, StoreTypeOK, Exclusive, CommittedStays,
         TornIsGuarded, LoadedAll, Proc, Fields

LEMMA StepInv == StoreInv /\ [StoreNext]_store_vars => StoreInv'
<1> SUFFICES ASSUME StoreInv, [StoreNext]_store_vars PROVE StoreInv'
  OBVIOUS
<1>1. CASE \E w \in Writers : Enter(w) \/ Alarm(w) \/ Locked(w) \/ Truncate(w) \/ Dump(w)
  BY <1>1, EnterInv, AlarmInv, LockedInv, TruncateInv, DumpInv
<1>2. CASE \E r \in Readers : Read(r)
  BY <1>2, ReadInv
<1>3. CASE \E p \in Proc : Kill(p) \/ Again(p)
  BY <1>3, KillInv, AgainInv
<1>4. CASE UNCHANGED store_vars
  BY <1>4 DEF store_vars, StoreInv, StoreTypeOK, Exclusive, CommittedStays, TornIsGuarded, LoadedAll
<1>. QED
  BY <1>1, <1>2, <1>3, <1>4 DEF StoreNext

\* No update of the metadata is lost, for any set of scripts, kills and timeouts: the
\* lock is held from the load to the end of the export, and the holder has loaded all
\* that was committed before.
THEOREM NoLostUpdate == StoreSpec => []CommittedStays
<1>1. StoreInv => CommittedStays
  BY DEF StoreInv
<1>. QED
  BY InitInv, StepInv, <1>1, PTL DEF StoreSpec

\* Only a script that takes no lock can find the file half written, unless its writer
\* was killed.
THEOREM TornOnlyUnderLock == StoreSpec => []TornIsGuarded
<1>1. StoreInv => TornIsGuarded
  BY DEF StoreInv
<1>. QED
  BY InitInv, StepInv, <1>1, PTL DEF StoreSpec

-----------------------------------------------------------------------------
(* sv2v_in_place.py edits nothing before it has converted everything.      *)

Untouched == [p \in Paths |-> "original"]

\* While files are converted, and after a failure, all of them are untouched; so is
\* what every conversion was made from.
Sv2vInv ==
    /\ sv2v_pc \in {"convert", "copy", "splat", "ok", "error"}
    /\ tmp \in Seq({Untouched})
    /\ sv2v_pc \in {"convert", "error"} => file = Untouched

LEMMA InitSv2v == Sv2vInit => Sv2vInv
  BY DEF Sv2vInit, Sv2vInv, Untouched

LEMMA StepSv2v == Sv2vInv /\ [Sv2vNext]_sv2v_vars => Sv2vInv'
<1> SUFFICES ASSUME Sv2vInv, [Sv2vNext]_sv2v_vars PROVE Sv2vInv'
  OBVIOUS
<1>1. CASE TransformOne
  <2>1. file = Untouched /\ file' = file
    BY <1>1 DEF TransformOne, Sv2vInv
  <2>2. tmp' \in Seq({Untouched})
    BY <1>1, <2>1 DEF TransformOne, Sv2vInv
  <2>. QED
    BY <1>1, <2>1, <2>2 DEF TransformOne, Sv2vInv, Untouched, Paths
<1>2. CASE CopyBack
  <2>1. sv2v_pc' \in {"copy", "splat"} /\ tmp' = tmp
    BY <1>2 DEF CopyBack
  <2>. QED
    BY <2>1 DEF Sv2vInv, Untouched, Paths
<1>3. CASE Splat
  BY <1>3 DEF Splat, Sv2vInv, Untouched, Paths
<1>4. CASE UNCHANGED sv2v_vars
  BY <1>4 DEF sv2v_vars, Sv2vInv, Untouched, Paths
<1>. QED
  BY <1>1, <1>2, <1>3, <1>4 DEF Sv2vNext

\* However many files there are and whichever conversion fails: each file is converted
\* from unedited sources, and a failure leaves every source as it was.
THEOREM NothingHalfConverted == Sv2vSpec => []EditsLast
<1>1. Sv2vInv => EditsLast
  <2> SUFFICES ASSUME Sv2vInv PROVE EditsLast
    OBVIOUS
  <2>1. \A i \in DOMAIN tmp : tmp[i] = Untouched
    BY DEF Sv2vInv
  <2>. QED
    BY <2>1 DEF Sv2vInv, EditsLast, Untouched
<1>. QED
  BY <1>1, InitSv2v, StepSv2v, PTL DEF Sv2vSpec

-----------------------------------------------------------------------------
(* Sequences: steps taken one after the other, folds and concatenations.   *)

\* Induction up to N, from the least number that is not in T.
LEMMA UpTo ==
  ASSUME NEW N \in Nat, NEW T, 0 \in T, \A k \in 1..N : k - 1 \in T => k \in T
  PROVE  \A k \in 0..N : k \in T
<1>. DEFINE Out == {k \in 0..N : k \notin T}
<1>. SUFFICES ASSUME Out # {} PROVE FALSE
  OBVIOUS
<1>1. Out \subseteq Nat
  OBVIOUS
<1>2. PICK k \in Out : \A j \in Out : ~(<<j, k>> \in OpToRel(<, Nat))
  BY <1>1, WFMin, NatLessThanWellFounded
<1>3. k \in 1..N
  <2>1. k \in 0..N /\ k # 0
    BY <1>2
  <2>. QED
    BY <2>1
<1>4. k - 1 \in 0..N /\ k - 1 \in Nat /\ k \in Nat /\ k - 1 < k
  BY <1>3
<1>5. <<k - 1, k>> \in OpToRel(<, Nat)
  BY <1>4 DEF OpToRel
<1>6. k - 1 \notin Out
  BY <1>2, <1>5
<1>7. k - 1 \in T
  BY <1>4, <1>6
<1>. QED
  BY <1>2, <1>3, <1>7

\* A state that each of N steps, one after the other, turns into the next one.
FoldTable(S, base, N, G, h) ==
    /\ h \in [SUBSET (1..N) -> S]
    /\ h[{}] = base
    /\ \A s \in SUBSET (1..N) : s # {} => h[s] = G[Max(s)][h[s \ {Max(s)}]]
Run(S, base, N, G, g) ==
    /\ g \in [0..N -> S]
    /\ g[0] = base
    /\ \A k \in 1..N : g[k] = G[k][g[k - 1]]
Joined(S, seqs, g) ==
    /\ g \in [0..Len(seqs) -> Seq(S)]
    /\ g[0] = <<>>
    /\ \A k \in 1..Len(seqs) : g[k] = g[k - 1] \o seqs[k]
    /\ FlattenSeq(seqs) = g[Len(seqs)]

LEMMA Iterated ==
  ASSUME NEW S, NEW base \in S, NEW N \in Nat, NEW G \in [1..N -> [S -> S]]
  PROVE  \E h : FoldTable(S, base, N, G, h)
<1>. DEFINE Good(k, h) == /\ h \in [SUBSET (1..k) -> S]
                          /\ h[{}] = base
                          /\ \A s \in SUBSET (1..k) : s # {} => h[s] = G[Max(s)][h[s \ {Max(s)}]]
            T == {k \in 0..N : \E h : Good(k, h)}
<1>1. 0 \in T
  <2>. DEFINE h == [s \in SUBSET (1..0) |-> base]
  <2>1. SUBSET (1..0) = {{}}
    OBVIOUS
  <2>2. Good(0, h)
    BY <2>1
  <2>. HIDE DEF Good, h
  <2>. QED
    BY <2>2
<1>2. ASSUME NEW k \in 1..N, k - 1 \in T PROVE k \in T
  <2>1. PICK h : Good(k - 1, h)
    BY <1>2
  <2>. DEFINE j == [s \in SUBSET (1..k) |-> IF k \in s THEN G[k][h[s \ {k}]] ELSE h[s]]
  <2>2. ASSUME NEW s \in SUBSET (1..k) PROVE s \ {k} \in SUBSET (1..(k - 1))
    OBVIOUS
  <2>3. ASSUME NEW s \in SUBSET (1..k), k \in s PROVE Max(s) = k
    <3>1. k \in s /\ \A y \in s : k >= y
      BY <2>3
    <3>2. \A x \in s : (\A y \in s : x >= y) => x = k
      <4>1. s \subseteq Int
        OBVIOUS
      <4>. QED
        BY <3>1, <4>1
    <3>. QED
      BY <3>1, <3>2 DEF Max
  <2>4. ASSUME NEW s \in SUBSET (1..k), k \notin s PROVE s \in SUBSET (1..(k - 1))
    BY <2>2, <2>4
  <2>5. j \in [SUBSET (1..k) -> S]
    <3>1. ASSUME NEW s \in SUBSET (1..k) PROVE (IF k \in s THEN G[k][h[s \ {k}]] ELSE h[s]) \in S
      <4>1. CASE k \in s
        <5>1. h[s \ {k}] \in S
          BY <2>1, <2>2
        <5>2. G[k] \in [S -> S]
          OBVIOUS
        <5>. QED
          BY <4>1, <5>1, <5>2
      <4>2. CASE k \notin s
        <5>1. h[s] \in S
          BY <2>1, <2>4, <4>2
        <5>. QED
          BY <4>2, <5>1
      <4>. QED
        BY <4>1, <4>2
    <3>. QED
      BY <3>1
  <2>6. j[{}] = base
    BY <2>1
  <2>7. ASSUME NEW s \in SUBSET (1..k), s # {} PROVE j[s] = G[Max(s)][j[s \ {Max(s)}]]
    <3>1. CASE k \in s
      <4>1. j[s \ {k}] = h[s \ {k}]
        OBVIOUS
      <4>2. j[s] = G[k][h[s \ {k}]]
        BY <3>1
      <4>. QED
        BY <4>1, <4>2, <3>1, <2>3
    <3>2. CASE k \notin s
      <4>1. j[s] = h[s] /\ j[s \ {Max(s)}] = h[s \ {Max(s)}]
        BY <3>2
      <4>2. s \in SUBSET (1..(k - 1))
        BY <2>4, <3>2
      <4>3. h[s] = G[Max(s)][h[s \ {Max(s)}]]
        BY <2>1, <2>7, <4>2
      <4>. QED
        BY <4>1, <4>3
    <3>. QED
      BY <3>1, <3>2
  <2>8. Good(k, j)
    <3>. HIDE DEF j
    <3>. QED
      BY <2>5, <2>6, <2>7
  <2>. HIDE DEF Good, j
  <2>. QED
    BY <2>8
<1>3. N \in T
  <2>. HIDE DEF T
  <2>1. \A k \in 0..N : k \in T
    BY <1>1, <1>2, UpTo
  <2>. QED
    BY <2>1
<1>. QED
  BY <1>3 DEF FoldTable

LEMMA LastOf == ASSUME NEW k \in Nat \ {0} PROVE Max(1..k) = k /\ (1..k) \ {k} = 1..(k - 1)
<1>1. Max(1..k) = k
  <2>1. k \in 1..k /\ \A y \in 1..k : k >= y
    OBVIOUS
  <2>2. \A x \in 1..k : (\A y \in 1..k : x >= y) => x = k
    BY <2>1
  <2>. QED
    BY <2>1, <2>2 DEF Max
<1>. QED
  BY <1>1

LEMMA Steps ==
  ASSUME NEW S, NEW base \in S, NEW N \in Nat, NEW G \in [1..N -> [S -> S]]
  PROVE  \E g : Run(S, base, N, G, g)
<1>0. PICK h : FoldTable(S, base, N, G, h)
  BY Iterated
<1>1. /\ h \in [SUBSET (1..N) -> S]
      /\ h[{}] = base
      /\ \A s \in SUBSET (1..N) : s # {} => h[s] = G[Max(s)][h[s \ {Max(s)}]]
  BY <1>0 DEF FoldTable
<1>. DEFINE g == [k \in 0..N |-> h[1..k]]
<1>2. \A k \in 0..N : (1..k) \in SUBSET (1..N)
  OBVIOUS
<1>3. g \in [0..N -> S]
  BY <1>1, <1>2
<1>4. g[0] = base
  <2>1. 1..0 = {}
    OBVIOUS
  <2>. QED
    BY <1>1, <2>1
<1>5. ASSUME NEW k \in 1..N PROVE g[k] = G[k][g[k - 1]]
  <2>1. (1..k) \in SUBSET (1..N) /\ k \in Nat \ {0} /\ k \in 0..N /\ k - 1 \in 0..N
    OBVIOUS
  <2>4. 1..k # {}
    <3>1. k \in 1..k
      BY <2>1
    <3>. QED
      BY <3>1
  <2>2. Max(1..k) = k /\ (1..k) \ {k} = 1..(k - 1)
    BY <2>1, LastOf
  <2>3. h[1..k] = G[Max(1..k)][h[(1..k) \ {Max(1..k)}]]
    BY <1>1, <2>1, <2>4
  <2>. QED
    BY <2>1, <2>2, <2>3
<1>. HIDE DEF g
<1>. QED
  BY <1>3, <1>4, <1>5 DEF Run

\* A sequence is flattened from its first element to its last.
LEMMA Flattened ==
  ASSUME NEW S, NEW seqs \in Seq(Seq(S))
  PROVE  \E g : Joined(S, seqs, g)
<1>. DEFINE N == Len(seqs)
            G == [k \in 1..N |-> [s \in Seq(S) |-> s \o seqs[k]]]
<1>1. N \in Nat /\ \A k \in 1..N : seqs[k] \in Seq(S)
  OBVIOUS
<1>2. G \in [1..N -> [Seq(S) -> Seq(S)]]
  BY <1>1
<1>3. <<>> \in Seq(S)
  OBVIOUS
<1>0. PICK g : Run(Seq(S), <<>>, N, G, g)
  <2>. HIDE DEF G, N
  <2>. QED
    BY <1>1, <1>2, <1>3, Steps
<1>4. g \in [0..N -> Seq(S)] /\ g[0] = <<>> /\ \A k \in 1..N : g[k] = G[k][g[k - 1]]
  BY <1>0 DEF Run
<1>5. ASSUME NEW k \in 1..N PROVE g[k] = g[k - 1] \o seqs[k]
  <2>1. k - 1 \in 0..N
    BY <1>1
  <2>2. g[k - 1] \in Seq(S)
    BY <1>4, <2>1
  <2>. QED
    BY <1>4, <2>2
<1>6. FlattenSeq(seqs) = g[N]
  <2>1. CASE N = 0
    <3>1. seqs = <<>>
      BY <2>1
    <3>. QED
      BY <1>4, <2>1, <3>1 DEF FlattenSeq
  <2>2. CASE N # 0
    <3>. DEFINE r == [i \in 1..N |-> g[i]]
    <3>1. r = [i \in 1..N |-> IF i = 1 THEN seqs[i] ELSE r[i - 1] \o seqs[i]]
      <4>1. ASSUME NEW i \in 1..N PROVE g[i] = IF i = 1 THEN seqs[i] ELSE r[i - 1] \o seqs[i]
        <5>1. CASE i = 1
          <6>1. g[1] = <<>> \o seqs[1] /\ seqs[1] \in Seq(S)
            <7>1. g[1] = g[1 - 1] \o seqs[1]
              BY <1>5, <5>1
            <7>. QED
              BY <1>1, <1>4, <5>1, <7>1
          <6>2. <<>> \o seqs[1] = seqs[1]
            BY <6>1, ConcatEmptySeq
          <6>. QED
            BY <5>1, <6>1, <6>2
        <5>2. CASE i # 1
          <6>1. i - 1 \in 1..N
            BY <1>1, <5>2
          <6>. QED
            BY <1>5, <5>2, <6>1
        <5>. QED
          BY <5>1, <5>2
      <4>. QED
        BY <4>1
    <3>2. PICK f : /\ f = [i \in 1..N |-> IF i = 1 THEN seqs[i] ELSE f[i - 1] \o seqs[i]]
                   /\ FlattenSeq(seqs) = f[N]
      <4>. HIDE DEF r
      <4>. QED
        BY <2>2, <3>1 DEF FlattenSeq
    <3>. DEFINE T == {k \in 0..N : k = 0 \/ f[k] = g[k]}
    <3>3. ASSUME NEW k \in 1..N, k - 1 \in T PROVE k \in T
      <4>1. f[k] = IF k = 1 THEN seqs[k] ELSE f[k - 1] \o seqs[k]
        BY <3>2
      <4>2. r[k] = IF k = 1 THEN seqs[k] ELSE r[k - 1] \o seqs[k]
        <5>. HIDE DEF r
        <5>. QED
          BY <3>1
      <4>3. CASE k = 1
        BY <4>1, <4>2, <4>3
      <4>4. CASE k # 1
        <5>1. k - 1 \in 1..N /\ k \in 0..N
          BY <1>1, <4>4
        <5>2. f[k - 1] = g[k - 1]
          BY <3>3, <5>1
        <5>3. f[k] = g[k - 1] \o seqs[k]
          BY <4>1, <4>4, <5>2
        <5>. QED
          BY <5>1, <5>3, <1>5
      <4>. QED
        BY <4>3, <4>4
    <3>4. 0 \in T
      BY <1>1
    <3>5. \A k \in 0..N : k \in T
      <4>. HIDE DEF T, N
      <4>. QED
        BY <1>1, <3>3, <3>4, UpTo
    <3>6. N \in 0..N
      BY <1>1
    <3>. QED
      BY <3>2, <3>5, <3>6, <2>2
  <2>. QED
    BY <2>1, <2>2
<1>. HIDE DEF G, N
<1>. QED
  BY <1>4, <1>5, <1>6 DEF N, Joined

LEMMA MaxIn ==
  ASSUME NEW N \in Nat, NEW s \in SUBSET (1..N), s # {}
  PROVE  Max(s) \in 1..N
<1>. DEFINE T == {N - y : y \in s}
<1>1. \A y \in s : y \in Nat /\ N - y \in Nat
  OBVIOUS
<1>2. T \subseteq Nat /\ T # {}
  BY <1>1
<1>3. PICK t \in T : \A u \in T : ~(<<u, t>> \in OpToRel(<, Nat))
  BY <1>2, WFMin, NatLessThanWellFounded
<1>4. PICK x \in s : t = N - x
  BY <1>3
<1>5. ASSUME NEW y \in s PROVE x >= y
  <2>1. N - y \in T /\ N - y \in Nat /\ t \in Nat
    BY <1>1, <1>2, <1>3
  <2>2. ~(N - y < t)
    BY <2>1, <1>3 DEF OpToRel
  <2>. QED
    BY <1>1, <1>4, <2>2
<1>6. \E z \in s : \A y \in s : z >= y
  BY <1>5
<1>. QED
  BY <1>6 DEF Max

LEMMA FlatType == ASSUME NEW S, NEW seqs \in Seq(Seq(S)) PROVE FlattenSeq(seqs) \in Seq(S)
<1>1. PICK g : Joined(S, seqs, g)
  BY Flattened
<1>2. Len(seqs) \in 0..Len(seqs)
  OBVIOUS
<1>. QED
  BY <1>1, <1>2 DEF Joined

\* What is in a concatenation.
LEMMA ConcatSet ==
  ASSUME NEW S, NEW s \in Seq(S), NEW t \in Seq(S)
  PROVE  ToSet(s \o t) = ToSet(s) \cup ToSet(t)
<1>1. /\ s \o t \in Seq(S) /\ Len(s \o t) = Len(s) + Len(t)
      /\ \A i \in 1..(Len(s) + Len(t)) : (s \o t)[i] = IF i <= Len(s) THEN s[i] ELSE t[i - Len(s)]
  BY ConcatProperties
<1>2. /\ Len(s) \in Nat /\ DOMAIN s = 1..Len(s) /\ Len(t) \in Nat /\ DOMAIN t = 1..Len(t)
      /\ DOMAIN (s \o t) = 1..(Len(s) + Len(t))
  BY <1>1
<1>3. ASSUME NEW i \in 1..Len(s) PROVE s[i] \in ToSet(s \o t)
  <2>1. i \in 1..(Len(s) + Len(t)) /\ i <= Len(s)
    BY <1>2
  <2>. QED
    BY <1>1, <1>2, <2>1 DEF ToSet
<1>4. ASSUME NEW i \in 1..Len(t) PROVE t[i] \in ToSet(s \o t)
  <2>1. i + Len(s) \in 1..(Len(s) + Len(t)) /\ ~(i + Len(s) <= Len(s)) /\ i + Len(s) - Len(s) = i
    BY <1>2
  <2>. QED
    BY <1>1, <1>2, <2>1 DEF ToSet
<1>5. ASSUME NEW i \in 1..(Len(s) + Len(t)) PROVE (s \o t)[i] \in ToSet(s) \cup ToSet(t)
  <2>1. CASE i <= Len(s)
    BY <1>1, <1>2, <2>1 DEF ToSet
  <2>2. CASE ~(i <= Len(s))
    <3>1. i - Len(s) \in 1..Len(t)
      BY <1>2, <2>2
    <3>. QED
      BY <1>1, <1>2, <2>2, <3>1 DEF ToSet
  <2>. QED
    BY <2>1, <2>2
<1>. QED
  BY <1>2, <1>3, <1>4, <1>5 DEF ToSet

LEMMA ConcatInjective ==
  ASSUME NEW S, NEW s \in Seq(S), NEW t \in Seq(S),
         IsInjective(s), IsInjective(t), ToSet(s) \cap ToSet(t) = {}
  PROVE  IsInjective(s \o t)
<1>1. /\ s \o t \in Seq(S) /\ Len(s \o t) = Len(s) + Len(t)
      /\ \A i \in 1..(Len(s) + Len(t)) : (s \o t)[i] = IF i <= Len(s) THEN s[i] ELSE t[i - Len(s)]
  BY ConcatProperties
<1>2. /\ Len(s) \in Nat /\ DOMAIN s = 1..Len(s) /\ Len(t) \in Nat /\ DOMAIN t = 1..Len(t)
      /\ DOMAIN (s \o t) = 1..(Len(s) + Len(t))
  BY <1>1
<1>3. ASSUME NEW i \in 1..(Len(s) + Len(t)), NEW j \in 1..(Len(s) + Len(t)),
             (s \o t)[i] = (s \o t)[j]
      PROVE  i = j
  <2>1. ASSUME NEW k \in 1..(Len(s) + Len(t)), ~(k <= Len(s)) PROVE k - Len(s) \in 1..Len(t)
    BY <1>2, <2>1
  <2>2. ASSUME NEW k \in 1..(Len(s) + Len(t)), k <= Len(s) PROVE k \in 1..Len(s)
    BY <1>2, <2>2
  <2>3. CASE i <= Len(s) /\ j <= Len(s)
    BY <1>1, <1>2, <1>3, <2>2, <2>3 DEF IsInjective
  <2>4. CASE ~(i <= Len(s)) /\ ~(j <= Len(s))
    <3>1. t[i - Len(s)] = t[j - Len(s)]
      BY <1>1, <1>3, <2>4
    <3>2. i - Len(s) = j - Len(s)
      BY <1>2, <2>1, <2>4, <3>1 DEF IsInjective
    <3>. QED
      BY <1>2, <3>2
  <2>5. CASE i <= Len(s) /\ ~(j <= Len(s))
    <3>1. s[i] = t[j - Len(s)] /\ i \in DOMAIN s /\ j - Len(s) \in DOMAIN t
      BY <1>1, <1>2, <1>3, <2>1, <2>2, <2>5
    <3>. QED
      BY <3>1 DEF ToSet
  <2>6. CASE ~(i <= Len(s)) /\ j <= Len(s)
    <3>1. s[j] = t[i - Len(s)] /\ j \in DOMAIN s /\ i - Len(s) \in DOMAIN t
      BY <1>1, <1>2, <1>3, <2>1, <2>2, <2>6
    <3>. QED
      BY <3>1 DEF ToSet
  <2>. QED
    BY <2>3, <2>4, <2>5, <2>6
<1>. QED
  BY <1>2, <1>3 DEF IsInjective

LEMMA FlatSet ==
  ASSUME NEW S, NEW seqs \in Seq(Seq(S))
  PROVE  ToSet(FlattenSeq(seqs)) = UNION {ToSet(seqs[i]) : i \in DOMAIN seqs}
<1>. DEFINE N == Len(seqs)
<1>1. PICK g : Joined(S, seqs, g)
  BY Flattened
<1>2. /\ g \in [0..N -> Seq(S)] /\ g[0] = <<>> /\ FlattenSeq(seqs) = g[N]
      /\ \A k \in 1..N : g[k] = g[k - 1] \o seqs[k]
  BY <1>1 DEF Joined
<1>3. N \in Nat /\ DOMAIN seqs = 1..N /\ \A k \in 1..N : seqs[k] \in Seq(S)
  OBVIOUS
<1>. DEFINE T == {k \in 0..N : \A x : x \in ToSet(g[k]) <=> \E i \in 1..k : x \in ToSet(seqs[i])}
<1>. HIDE DEF N
<1>4. 0 \in T
  <2>1. ToSet(<<>>) = {} /\ 1..0 = {} /\ 0 \in 0..N
    BY <1>3 DEF ToSet
  <2>. QED
    BY <1>2, <2>1
<1>5. ASSUME NEW k \in 1..N, k - 1 \in T PROVE k \in T
  <2>1. k - 1 \in 0..N /\ k \in 0..N /\ 1..k = (1..(k - 1)) \cup {k}
    BY <1>3
  <2>2. \A x : x \in ToSet(g[k - 1]) <=> \E i \in 1..(k - 1) : x \in ToSet(seqs[i])
    BY <1>5
  <2>3. ToSet(g[k]) = ToSet(g[k - 1]) \cup ToSet(seqs[k])
    <3>1. g[k - 1] \in Seq(S) /\ seqs[k] \in Seq(S)
      BY <1>2, <1>3, <2>1
    <3>2. ToSet(g[k - 1] \o seqs[k]) = ToSet(g[k - 1]) \cup ToSet(seqs[k])
      BY <3>1, ConcatSet
    <3>3. g[k] = g[k - 1] \o seqs[k]
      BY <1>2
    <3>. QED
      BY <3>2, <3>3
  <2>. QED
    BY <2>1, <2>2, <2>3
<1>6. \A k \in 0..N : k \in T
  <2>. HIDE DEF T
  <2>. QED
    BY <1>3, <1>4, <1>5, UpTo
<1>. QED
  BY <1>2, <1>3, <1>6

LEMMA FlatInjective ==
  ASSUME NEW S, NEW seqs \in Seq(Seq(S)),
         \A i \in DOMAIN seqs : IsInjective(seqs[i]),
         \A i, j \in DOMAIN seqs : i # j => ToSet(seqs[i]) \cap ToSet(seqs[j]) = {}
  PROVE  IsInjective(FlattenSeq(seqs))
<1>. DEFINE N == Len(seqs)
<1>1. PICK g : Joined(S, seqs, g)
  BY Flattened
<1>2. /\ g \in [0..N -> Seq(S)] /\ g[0] = <<>> /\ FlattenSeq(seqs) = g[N]
      /\ \A k \in 1..N : g[k] = g[k - 1] \o seqs[k]
  BY <1>1 DEF Joined
<1>3. N \in Nat /\ DOMAIN seqs = 1..N /\ \A k \in 1..N : seqs[k] \in Seq(S)
  OBVIOUS
<1>. DEFINE T == {k \in 0..N : IsInjective(g[k])
                       /\ \A x \in ToSet(g[k]) : \E i \in 1..k : x \in ToSet(seqs[i])}
<1>. HIDE DEF N
<1>4. 0 \in T
  <2>1. IsInjective(<<>>) /\ ToSet(<<>>) = {} /\ 0 \in 0..N
    BY <1>3 DEF IsInjective, ToSet
  <2>. QED
    BY <1>2, <2>1
<1>5. ASSUME NEW k \in 1..N, k - 1 \in T PROVE k \in T
  <2>1. k - 1 \in 0..N /\ k \in 0..N /\ 1..k = (1..(k - 1)) \cup {k} /\ k \notin 1..(k - 1)
         /\ 1..k \subseteq DOMAIN seqs
    BY <1>3
  <2>2. IsInjective(g[k - 1]) /\ \A x \in ToSet(g[k - 1]) : \E i \in 1..(k - 1) : x \in ToSet(seqs[i])
    BY <1>5
  <2>3. ToSet(g[k]) = ToSet(g[k - 1]) \cup ToSet(seqs[k])
    <3>1. g[k - 1] \in Seq(S) /\ seqs[k] \in Seq(S)
      BY <1>2, <1>3, <2>1
    <3>2. ToSet(g[k - 1] \o seqs[k]) = ToSet(g[k - 1]) \cup ToSet(seqs[k])
      BY <3>1, ConcatSet
    <3>3. g[k] = g[k - 1] \o seqs[k]
      BY <1>2
    <3>. QED
      BY <3>2, <3>3
  <2>5. ToSet(g[k - 1]) \cap ToSet(seqs[k]) = {}
    <3>1. \A i \in 1..(k - 1) : ToSet(seqs[i]) \cap ToSet(seqs[k]) = {}
      BY <2>1
    <3>. QED
      BY <2>2, <3>1
  <2>6. IsInjective(g[k - 1] \o seqs[k])
    <3>1. g[k - 1] \in Seq(S) /\ seqs[k] \in Seq(S) /\ IsInjective(seqs[k])
      BY <1>2, <1>3, <2>1
    <3>. QED
      BY <3>1, <2>2, <2>5, ConcatInjective
  <2>. QED
    BY <1>2, <2>1, <2>2, <2>3, <2>6
<1>6. \A k \in 0..N : k \in T
  <2>. HIDE DEF T
  <2>. QED
    BY <1>3, <1>4, <1>5, UpTo
<1>. QED
  BY <1>2, <1>3, <1>6

IsList(S, n, s) == s \in Seq(S) /\ Len(s) = n /\ DOMAIN s = 1..n
LEMMA MakesList ==
  ASSUME NEW S, NEW n \in Nat, NEW s \in [1..n -> S]
  PROVE  IsList(S, n, s)
  BY DEF IsList

-----------------------------------------------------------------------------
(* check_ibex_uvm_log: the verdict on a log.                               *)

\* The reader's states, one for every set of lines that the fold goes through.
LogRun(lines, f) ==
    f = [s \in SUBSET DOMAIN lines |->
            IF s = {} THEN StartReading
            ELSE ReadLine(f[s \ {Max(s)}], lines[Max(s)])]
Verdict(r) ==
    [passed  |-> r.passed /\ ~r.failed,
     mode    |-> CASE ~r.failed -> "NONE"
                   [] r.failed /\ r.error_line = "wall" -> "TIMEOUT"
                   [] OTHER -> "LOG_ERROR",
     crashed |-> r.failed /\ r.error_line = "None"]

LEMMA FoldLog ==
  ASSUME NEW lines, \E g : LogRun(lines, g)
  PROVE  \E f : LogRun(lines, f) /\ check_ibex_uvm_log(lines) = Verdict(f[DOMAIN lines])
  BY DEF check_ibex_uvm_log, Verdict, FoldLeft, MapThenFoldSet, LogRun

LEMMA ReadLineType ==
  ASSUME NEW r \in Reader, NEW line \in Line
  PROVE  ReadLine(r, line) \in Reader
  BY DEF Reader, Line, ErrorLine, ReadLine

\* The reader after each line.
Reading(lines, g) ==
    /\ g \in [0..Len(lines) -> Reader] /\ g[0] = StartReading
    /\ \A k \in 1..Len(lines) : g[k] = ReadLine(g[k - 1], lines[k])
    /\ check_ibex_uvm_log(lines) = Verdict(g[Len(lines)])

LEMMA LogIsRead ==
  ASSUME NEW lines \in Seq(Line)
  PROVE  \E g : Reading(lines, g)
<1>. DEFINE N == Len(lines)
            G == [k \in 1..N |-> [r \in Reader |-> ReadLine(r, lines[k])]]
<1>1. N \in Nat /\ DOMAIN lines = 1..N /\ \A k \in 1..N : lines[k] \in Line
  OBVIOUS
<1>2. G \in [1..N -> [Reader -> Reader]]
  BY <1>1, ReadLineType
<1>3. StartReading \in Reader
  BY DEF StartReading, Reader
<1>4. PICK h : FoldTable(Reader, StartReading, N, G, h)
  <2>. HIDE DEF G, N
  <2>. QED
    BY <1>1, <1>2, <1>3, Iterated
<1>5. /\ h \in [SUBSET (1..N) -> Reader] /\ h[{}] = StartReading
      /\ \A s \in SUBSET (1..N) : s # {} => h[s] = G[Max(s)][h[s \ {Max(s)}]]
  BY <1>4 DEF FoldTable
<1>6. ASSUME NEW s \in SUBSET (1..N), s # {}
      PROVE  h[s] = ReadLine(h[s \ {Max(s)}], lines[Max(s)])
  <2>1. Max(s) \in 1..N
    BY <1>1, <1>6, MaxIn
  <2>2. h[s \ {Max(s)}] \in Reader
    BY <1>5
  <2>3. h[s] = G[Max(s)][h[s \ {Max(s)}]]
    BY <1>5, <1>6
  <2>. QED
    BY <2>1, <2>2, <2>3
<1>7. LogRun(lines, h)
  BY <1>1, <1>5, <1>6 DEF LogRun
<1>8. PICK f : LogRun(lines, f) /\ check_ibex_uvm_log(lines) = Verdict(f[DOMAIN lines])
  BY <1>7, FoldLog
<1>. DEFINE g == [k \in 0..N |-> f[1..k]]
<1>9. \A k \in 0..N : (1..k) \in SUBSET (1..N)
  BY <1>1
<1>10. f[{}] = StartReading /\ \A s \in SUBSET (1..N) : s # {} => f[s] = ReadLine(f[s \ {Max(s)}], lines[Max(s)])
  BY <1>1, <1>8 DEF LogRun
<1>. HIDE DEF N
<1>11. g[0] = StartReading
  <2>1. 1..0 = {} /\ 0 \in 0..N
    BY <1>1
  <2>. QED
    BY <1>10, <2>1
<1>12. ASSUME NEW k \in 1..N PROVE g[k] = ReadLine(g[k - 1], lines[k])
  <2>1. (1..k) \in SUBSET (1..N) /\ k \in Nat \ {0} /\ k \in 0..N /\ k - 1 \in 0..N /\ 1..k # {}
    BY <1>1
  <2>2. Max(1..k) = k /\ (1..k) \ {k} = 1..(k - 1)
    BY <2>1, LastOf
  <2>3. f[1..k] = ReadLine(f[1..(k - 1)], lines[k])
    BY <1>10, <2>1, <2>2
  <2>. QED
    BY <2>1, <2>3
<1>13. check_ibex_uvm_log(lines) = Verdict(g[N])
  <2>1. N \in 0..N
    BY <1>1
  <2>. QED
    BY <1>1, <1>8, <2>1
<1>14. \A k \in 0..N : g[k] \in Reader
  <2>. DEFINE T == {k \in 0..N : g[k] \in Reader}
  <2>. HIDE DEF g
  <2>1. 0 \in T
    BY <1>1, <1>3, <1>11
  <2>2. ASSUME NEW k \in 1..N, k - 1 \in T PROVE k \in T
    BY <1>1, <1>12, <2>2, ReadLineType
  <2>. HIDE DEF T
  <2>3. \A k \in 0..N : k \in T
    BY <1>1, <2>1, <2>2, UpTo
  <2>. QED
    BY <2>3 DEF T
<1>15. g \in [0..N -> Reader]
  BY <1>14
<1>. HIDE DEF g
<1>16. Reading(lines, g)
  BY <1>11, <1>12, <1>13, <1>15 DEF Reading, N
<1>. QED
  BY <1>16

\* What the reader knows after the first k lines.
Known(lines, k, r) ==
    LET early == {i \in 1..k : i \in EarlyErrors(lines)} IN
    /\ r.seen <=> \E i \in 1..k : i \in Results(lines)
    /\ r.over <=> \E i \in 1..k : i \in Fails(lines)
    /\ r.failed <=> r.over \/ early # {}
    /\ ~r.over => (r.passed <=> \E i \in 1..k : i \in Passes(lines))
    /\ \/ r.error_line = "None" /\ early = {}
       \/ \E i \in early : r.error_line = lines[i] /\ \A j \in early : j <= i

LEMMA KnownOnward ==
  ASSUME NEW lines \in Seq(Line), NEW k \in 1..Len(lines), NEW r \in Reader, Known(lines, k - 1, r)
  PROVE  Known(lines, k, ReadLine(r, lines[k]))
<1>. DEFINE q == ReadLine(r, lines[k])
            early(n) == {i \in 1..n : i \in EarlyErrors(lines)}
<1>1. /\ DOMAIN lines = 1..Len(lines) /\ k \in DOMAIN lines /\ Len(lines) \in Nat
      /\ lines[k] \in Line /\ 1..k = (1..(k - 1)) \cup {k}
      /\ \A i \in 1..(k - 1) : i < k
  OBVIOUS
<1>2. /\ r.seen <=> \E i \in 1..(k - 1) : i \in Results(lines)
      /\ r.over <=> \E i \in 1..(k - 1) : i \in Fails(lines)
      /\ r.failed <=> r.over \/ early(k - 1) # {}
      /\ ~r.over => (r.passed <=> \E i \in 1..(k - 1) : i \in Passes(lines))
      /\ \/ r.error_line = "None" /\ early(k - 1) = {}
         \/ \E i \in early(k - 1) : r.error_line = lines[i] /\ \A j \in early(k - 1) : j <= i
  BY DEF Known
<1>3. k \in EarlyErrors(lines) <=> lines[k] \in ErrorLine /\ ~r.seen
  <2>1. ASSUME lines[k] \in ErrorLine, ~r.seen PROVE k \in EarlyErrors(lines)
    <3>1. k \notin Results(lines)
      BY <2>1 DEF Results, ErrorLine
    <3>2. \A j \in Results(lines) : j \in DOMAIN lines /\ j \notin 1..(k - 1) /\ j # k
      BY <1>2, <2>1, <3>1 DEF Results
    <3>3. \A j \in Results(lines) : k < j
      BY <1>1, <3>2
    <3>. QED
      BY <1>1, <2>1, <3>3 DEF EarlyErrors
  <2>2. ASSUME k \in EarlyErrors(lines) PROVE lines[k] \in ErrorLine /\ ~r.seen
    <3>1. \A j \in Results(lines) : k < j
      BY <2>2 DEF EarlyErrors
    <3>2. \A j \in 1..(k - 1) : j \notin Results(lines)
      BY <1>1, <3>1
    <3>. QED
      BY <1>2, <2>2, <3>2 DEF EarlyErrors
  <2>. QED
    BY <2>1, <2>2
<1>4. /\ k \in Results(lines) <=> lines[k] \in {"passed", "failed"}
      /\ k \in Fails(lines) <=> lines[k] = "failed"
      /\ k \in Passes(lines) <=> lines[k] = "passed"
  BY <1>1 DEF Results, Fails, Passes
<1>5. r.over => r.seen
  BY <1>1, <1>2 DEF Results, Fails
<1>6. early(k) = early(k - 1) \cup (IF k \in EarlyErrors(lines) THEN {k} ELSE {})
  BY <1>1
<1>7. /\ r = [seen |-> r.seen, passed |-> r.passed, failed |-> r.failed, over |-> r.over,
             error_line |-> r.error_line]
      /\ r.seen \in BOOLEAN /\ r.passed \in BOOLEAN /\ r.failed \in BOOLEAN /\ r.over \in BOOLEAN
  BY DEF Reader
<1>8. CASE r.over
  <2>1. q = r /\ k \notin EarlyErrors(lines)
    BY <1>3, <1>5, <1>8 DEF ReadLine
  <2>2. early(k) = early(k - 1)
    BY <1>6, <2>1
  <2>. QED
    BY <1>1, <1>2, <1>5, <1>8, <2>1, <2>2 DEF Known
<1>9. CASE ~r.over /\ lines[k] \in ErrorLine /\ ~r.seen
  <2>1. q = [r EXCEPT !.failed = TRUE, !.error_line = lines[k]]
    <3>1. lines[k] # "passed" /\ lines[k] # "failed"
      BY <1>9 DEF ErrorLine
    <3>. QED
      BY <1>9, <3>1 DEF ReadLine
  <2>2. q.seen = r.seen /\ q.over = r.over /\ q.failed = TRUE /\ q.passed = r.passed /\ q.error_line = lines[k]
    BY <2>1, <1>7
  <2>3. early(k) = early(k - 1) \cup {k} /\ k \in early(k) /\ \A j \in early(k) : j <= k
    BY <1>1, <1>3, <1>6, <1>9
  <2>4. k \notin Results(lines) /\ k \notin Fails(lines) /\ k \notin Passes(lines)
    BY <1>4, <1>9 DEF ErrorLine
  <2>. HIDE DEF q
  <2>. QED
    BY <1>1, <1>2, <2>2, <2>3, <2>4 DEF Known, q
<1>10. CASE ~r.over /\ ~(lines[k] \in ErrorLine /\ ~r.seen)
  <2>1. early(k) = early(k - 1)
    BY <1>3, <1>6, <1>10
  <2>2. CASE lines[k] = "passed"
    <3>1. q = [r EXCEPT !.seen = TRUE, !.passed = TRUE]
      BY <1>10, <2>2 DEF ReadLine, ErrorLine
    <3>2. q.seen = TRUE /\ q.over = r.over /\ q.failed = r.failed /\ q.passed = TRUE /\ q.error_line = r.error_line
      BY <3>1, <1>7
    <3>3. k \in Results(lines) /\ k \notin Fails(lines) /\ k \in Passes(lines)
      BY <1>4, <2>2
    <3>. HIDE DEF q
    <3>. QED
      BY <1>1, <1>2, <2>1, <3>2, <3>3 DEF Known, q
  <2>3. CASE lines[k] = "failed"
    <3>1. q = [r EXCEPT !.seen = TRUE, !.failed = TRUE, !.over = TRUE]
      BY <1>10, <2>3 DEF ReadLine, ErrorLine
    <3>2. q.seen = TRUE /\ q.over = TRUE /\ q.failed = TRUE /\ q.passed = r.passed /\ q.error_line = r.error_line
      BY <3>1, <1>7
    <3>3. k \in Results(lines) /\ k \in Fails(lines) /\ k \notin Passes(lines)
      BY <1>4, <2>3
    <3>. HIDE DEF q
    <3>. QED
      BY <1>1, <1>2, <2>1, <3>2, <3>3 DEF Known, q
  <2>4. CASE lines[k] \notin {"passed", "failed"}
    <3>1. q = r
      BY <1>10, <2>4 DEF ReadLine
    <3>3. k \notin Results(lines) /\ k \notin Fails(lines) /\ k \notin Passes(lines)
      BY <1>4, <2>4
    <3>. HIDE DEF q
    <3>. QED
      BY <1>1, <1>2, <2>1, <3>1, <3>3 DEF Known, q
  <2>. QED
    BY <2>2, <2>3, <2>4
<1>. QED
  BY <1>8, <1>9, <1>10

LEMMA VerdictGiven == ASSUME NEW lines \in Seq(Line) PROVE VerdictOf(lines)
<1>. DEFINE N == Len(lines)
<1>1. PICK g : Reading(lines, g)
  BY LogIsRead
<1>2. /\ g \in [0..N -> Reader] /\ g[0] = StartReading
      /\ \A k \in 1..N : g[k] = ReadLine(g[k - 1], lines[k])
      /\ check_ibex_uvm_log(lines) = Verdict(g[N])
  BY <1>1 DEF Reading
<1>3. N \in Nat /\ DOMAIN lines = 1..N
  OBVIOUS
<1>. DEFINE T == {k \in 0..N : Known(lines, k, g[k])}
<1>4. 0 \in T
  <2>1. 1..0 = {} /\ 0 \in 0..N
    BY <1>3
  <2>. QED
    BY <1>2, <2>1 DEF StartReading, Known
<1>5. ASSUME NEW k \in 1..N, k - 1 \in T PROVE k \in T
  <2>1. k - 1 \in 0..N /\ k \in 0..N
    BY <1>3
  <2>2. g[k - 1] \in Reader
    BY <1>2, <2>1
  <2>. QED
    BY <1>2, <1>5, <2>1, <2>2, KnownOnward
<1>6. Known(lines, N, g[N]) /\ g[N] \in Reader
  <2>. HIDE DEF T, N
  <2>1. \A k \in 0..N : k \in T
    BY <1>3, <1>4, <1>5, UpTo
  <2>2. N \in 0..N
    BY <1>3
  <2>. QED
    BY <1>2, <2>1, <2>2 DEF T
<1>. DEFINE r == g[N]
<1>7. \A i : (i \in Fails(lines) \/ i \in Passes(lines) \/ i \in EarlyErrors(lines)) => i \in 1..N
  BY <1>3 DEF Fails, Passes, EarlyErrors
<1>8. {i \in 1..N : i \in EarlyErrors(lines)} = EarlyErrors(lines)
  BY <1>7
<1>9. /\ r.over <=> Fails(lines) # {}
      /\ r.failed <=> r.over \/ EarlyErrors(lines) # {}
      /\ ~r.over => (r.passed <=> Passes(lines) # {})
      /\ \/ r.error_line = "None" /\ EarlyErrors(lines) = {}
         \/ \E i \in EarlyErrors(lines) :
                r.error_line = lines[i] /\ \A j \in EarlyErrors(lines) : j <= i
  BY <1>6, <1>7, <1>8 DEF Known
<1>. DEFINE v == check_ibex_uvm_log(lines)
<1>10. /\ v.passed <=> r.passed /\ ~r.failed
       /\ v.mode = "TIMEOUT" <=> r.failed /\ r.error_line = "wall"
       /\ v.crashed <=> r.failed /\ r.error_line = "None"
  <2>. HIDE DEF r
  <2>. QED
    BY <1>2 DEF Verdict, r
<1>11. \A i \in EarlyErrors(lines) : lines[i] # "None" /\ i \in Nat
  BY <1>3 DEF EarlyErrors, ErrorLine
<1>. HIDE DEF r, v
<1>12. v.passed <=> Passes(lines) # {} /\ Fails(lines) = {} /\ EarlyErrors(lines) = {}
  BY <1>9, <1>10
<1>13. v.crashed <=> Fails(lines) # {} /\ EarlyErrors(lines) = {}
  BY <1>9, <1>10, <1>11
<1>14. v.mode = "TIMEOUT" <=> \E i \in EarlyErrors(lines) :
           lines[i] = "wall" /\ \A j \in EarlyErrors(lines) : j <= i
  BY <1>9, <1>10, <1>11
<1>. QED
  BY <1>12, <1>13, <1>14 DEF VerdictOf, v

-----------------------------------------------------------------------------
(* get_tests_and_counts: the tests of a regression.                        *)

\* What is left of a list, in a sequence s, when only some of it is kept.
PickedAre(S, c, keep, s) ==
    /\ s \in Seq(S) /\ ToSet(s) = {c[i] : i \in keep}
    /\ (\A i, j \in keep : c[i] = c[j] => i = j) => IsInjective(s)

LEMMA Picked ==
  ASSUME NEW S, NEW n \in Nat, NEW c \in [1..n -> S], NEW keep \in SUBSET (1..n)
  PROVE  PickedAre(S, c, keep, FlattenSeq([i \in 1..n |-> IF i \in keep THEN <<c[i]>> ELSE <<>>]))
<1>. DEFINE seqs == [i \in 1..n |-> IF i \in keep THEN <<c[i]>> ELSE <<>>]
<1>1. \A i \in 1..n : seqs[i] = IF i \in keep THEN <<c[i]>> ELSE <<>>
  OBVIOUS
<1>2. ASSUME NEW i \in 1..n
      PROVE  /\ seqs[i] \in Seq(S) /\ ToSet(seqs[i]) = {x \in {c[i]} : i \in keep}
             /\ IsInjective(seqs[i])
  <2>1. CASE i \in keep
    <3>1. seqs[i] = <<c[i]>> /\ c[i] \in S
      BY <1>1, <2>1
    <3>2. <<c[i]>> \in Seq(S) /\ DOMAIN <<c[i]>> = {1} /\ <<c[i]>>[1] = c[i]
      BY <3>1
    <3>3. ToSet(<<c[i]>>) = {c[i]} /\ IsInjective(<<c[i]>>)
      BY <3>2 DEF ToSet, IsInjective
    <3>. QED
      BY <2>1, <3>1, <3>2, <3>3
  <2>2. CASE i \notin keep
    <3>1. seqs[i] = <<>>
      BY <1>1, <2>2
    <3>2. <<>> \in Seq(S) /\ DOMAIN <<>> = {}
      OBVIOUS
    <3>3. ToSet(<<>>) = {} /\ IsInjective(<<>>)
      BY <3>2 DEF ToSet, IsInjective
    <3>. QED
      BY <2>2, <3>1, <3>2, <3>3
  <2>. QED
    BY <2>1, <2>2
<1>3. seqs \in [1..n -> Seq(S)]
  <2>1. DOMAIN seqs = 1..n /\ seqs = [i \in 1..n |-> seqs[i]]
    OBVIOUS
  <2>. HIDE DEF seqs
  <2>. QED
    BY <1>2, <2>1
<1>. HIDE DEF seqs
<1>4. seqs \in Seq(Seq(S)) /\ DOMAIN seqs = 1..n
  BY <1>3, MakesList DEF IsList
<1>5. FlattenSeq(seqs) \in Seq(S)
  BY <1>4, FlatType
<1>6. ToSet(FlattenSeq(seqs)) = {c[i] : i \in keep}
  <2>1. ToSet(FlattenSeq(seqs)) = UNION {ToSet(seqs[i]) : i \in DOMAIN seqs}
    BY <1>4, FlatSet
  <2>. QED
    BY <1>2, <1>4, <2>1
<1>7. ASSUME \A i, j \in keep : c[i] = c[j] => i = j PROVE IsInjective(FlattenSeq(seqs))
  <2>1. \A i, j \in DOMAIN seqs : i # j => ToSet(seqs[i]) \cap ToSet(seqs[j]) = {}
    BY <1>2, <1>4, <1>7
  <2>. QED
    BY <1>2, <1>4, <2>1, FlatInjective
<1>8. PickedAre(S, c, keep, FlattenSeq(seqs))
  BY <1>5, <1>6, <1>7 DEF PickedAre
<1>. QED
  BY <1>8 DEF seqs

\* What comes of a list when each of its elements is written m times.
RepeatedAre(S, list, m, s) ==
    /\ s \in Seq(S) /\ ToSet(s) = {list[i] : i \in {j \in DOMAIN list : m[j] # 0}}
    /\ IsInjective(list) /\ (\A i \in DOMAIN list : m[i] <= 1) => IsInjective(s)

LEMMA Repeated ==
  ASSUME NEW S, NEW list \in Seq(S), NEW m \in [DOMAIN list -> Nat]
  PROVE  RepeatedAre(S, list, m, FlattenSeq([i \in DOMAIN list |-> [n \in 1..m[i] |-> list[i]]]))
<1>. DEFINE seqs == [i \in DOMAIN list |-> [n \in 1..m[i] |-> list[i]]]
<1>0. DOMAIN list = 1..Len(list) /\ Len(list) \in Nat /\ \A i \in DOMAIN list : list[i] \in S
  OBVIOUS
<1>2. ASSUME NEW i \in DOMAIN list
      PROVE  /\ seqs[i] \in Seq(S) /\ DOMAIN seqs[i] = 1..m[i]
             /\ ToSet(seqs[i]) = {x \in {list[i]} : m[i] # 0}
             /\ m[i] <= 1 => IsInjective(seqs[i])
  <2>1. seqs[i] = [n \in 1..m[i] |-> list[i]] /\ m[i] \in Nat
    OBVIOUS
  <2>2. seqs[i] \in [1..m[i] -> S]
    BY <1>0, <2>1
  <2>3. seqs[i] \in Seq(S) /\ DOMAIN seqs[i] = 1..m[i]
    <3>. HIDE DEF seqs
    <3>. QED
      BY <2>1, <2>2, MakesList DEF IsList
  <2>4. \A n \in 1..m[i] : seqs[i][n] = list[i]
    BY <2>1
  <2>5. m[i] # 0 => 1 \in 1..m[i]
    BY <2>1
  <2>6. m[i] = 0 => 1..m[i] = {}
    BY <2>1
  <2>7. m[i] <= 1 => \A n, k \in 1..m[i] : n = k
    BY <2>1
  <2>. HIDE DEF seqs
  <2>8. ToSet(seqs[i]) = {x \in {list[i]} : m[i] # 0}
    BY <2>3, <2>4, <2>5, <2>6 DEF ToSet
  <2>9. m[i] <= 1 => IsInjective(seqs[i])
    BY <2>3, <2>7 DEF IsInjective
  <2>. QED
    BY <2>3, <2>8, <2>9
<1>3. seqs \in [1..Len(list) -> Seq(S)]
  <2>1. DOMAIN seqs = 1..Len(list) /\ seqs = [i \in 1..Len(list) |-> seqs[i]]
    BY <1>0
  <2>. HIDE DEF seqs
  <2>. QED
    BY <1>0, <1>2, <2>1
<1>. HIDE DEF seqs
<1>4. seqs \in Seq(Seq(S)) /\ DOMAIN seqs = DOMAIN list
  BY <1>0, <1>3, MakesList DEF IsList
<1>5. FlattenSeq(seqs) \in Seq(S)
  BY <1>4, FlatType
<1>6. ToSet(FlattenSeq(seqs)) = {list[i] : i \in {j \in DOMAIN list : m[j] # 0}}
  <2>1. ToSet(FlattenSeq(seqs)) = UNION {ToSet(seqs[i]) : i \in DOMAIN seqs}
    BY <1>4, FlatSet
  <2>. QED
    BY <1>2, <1>4, <2>1
<1>7. ASSUME IsInjective(list), \A i \in DOMAIN list : m[i] <= 1
      PROVE  IsInjective(FlattenSeq(seqs))
  <2>1. \A i, j \in DOMAIN seqs : i # j => ToSet(seqs[i]) \cap ToSet(seqs[j]) = {}
    BY <1>2, <1>4, <1>7 DEF IsInjective
  <2>2. \A i \in DOMAIN seqs : IsInjective(seqs[i])
    BY <1>2, <1>4, <1>7
  <2>. QED
    BY <1>4, <2>1, <2>2, FlatInjective
<1>8. RepeatedAre(S, list, m, FlattenSeq(seqs))
  BY <1>5, <1>6, <1>7 DEF RepeatedAre
<1>. QED
  BY <1>8 DEF seqs

\* An entry as the scripts hand it on: rtl_params is a sequence.
HasParams(e) == e.has_params \in BOOLEAN /\ (~e.has_params => e.rtl_params = <<>>)
                /\ Len(e.rtl_params) \in Nat /\ DOMAIN e.rtl_params = 1..Len(e.rtl_params)
                /\ (Len(e.rtl_params) = 0 => e.rtl_params = <<>>)

LEMMA LeastIn ==
  ASSUME NEW s \in SUBSET Nat, s # {}
  PROVE  \E x \in s : \A y \in s : x <= y
<1>1. PICK x \in s : \A y \in s : ~(<<y, x>> \in OpToRel(<, Nat))
  BY WFMin, NatLessThanWellFounded
<1>2. \A y \in s : ~(y < x)
  BY <1>1 DEF OpToRel
<1>. QED
  BY <1>2

Simple(e) == ~e.has_params \/ Len(e.rtl_params) = 1

LEMMA CopiesFacts ==
  ASSUME NEW cfg, NEW e, HasParams(e)
  PROVE  /\ copies(cfg, e) \in Nat
         /\ Supported(cfg, e) /\ (e.has_params => e.rtl_params # <<>>) => copies(cfg, e) # 0
         /\ Simple(e) => copies(cfg, e) <= 1
         /\ Simple(e) => (copies(cfg, e) # 0 <=> Supported(cfg, e))
<1>. DEFINE ps == e.rtl_params
            bad == {i \in DOMAIN ps : ~Meets(cfg, ps[i])}
<1>1. Len(ps) \in Nat /\ DOMAIN ps = 1..Len(ps) /\ (Len(ps) = 0 => ps = <<>>)
      /\ e.has_params \in BOOLEAN /\ (~e.has_params => ps = <<>>)
  BY DEF HasParams
<1>2. Supported(cfg, e) <=> bad = {}
  BY DEF Supported
<1>3. CASE ~e.has_params
  <2>1. copies(cfg, e) = 1
    BY <1>3 DEF copies
  <2>2. bad = {}
    BY <1>1, <1>3
  <2>. QED
    BY <1>2, <1>3, <2>1, <2>2
<1>4. CASE e.has_params /\ bad = {}
  <2>1. copies(cfg, e) = Len(ps)
    BY <1>4 DEF copies
  <2>. QED
    BY <1>1, <1>2, <1>4, <2>1 DEF Simple
<1>5. CASE e.has_params /\ bad # {}
  <2>. DEFINE least == CHOOSE i \in bad : \A j \in bad : i <= j
  <2>1. copies(cfg, e) = least - 1
    BY <1>5 DEF copies
  <2>2. bad \subseteq Nat /\ bad \subseteq 1..Len(ps)
    BY <1>1
  <2>3. \E i \in bad : \A j \in bad : i <= j
    BY <1>5, <2>2, LeastIn
  <2>4. least \in bad
    BY <2>3
  <2>. HIDE DEF least, bad
  <2>5. least \in 1..Len(ps)
    BY <2>2, <2>4
  <2>6. copies(cfg, e) \in Nat /\ (Len(ps) = 1 => copies(cfg, e) = 0)
    <3>1. PICK n \in Nat : n = Len(ps)
      BY <1>1
    <3>2. PICK k \in 1..n : k = least
      BY <2>5, <3>1
    <3>3. k - 1 \in Nat /\ (n = 1 => k - 1 = 0)
      OBVIOUS
    <3>. HIDE DEF ps
    <3>. QED
      BY <2>1, <3>1, <3>2, <3>3
  <2>7. ~Supported(cfg, e)
    BY <1>2, <1>5
  <2>8. Simple(e) => Len(ps) = 1
    BY <1>5 DEF Simple
  <2>. QED
    BY <2>6, <2>7, <2>8
<1>. QED
  BY <1>1, <1>3, <1>4, <1>5

\* An entry with ITERATIONS applied.
Counted(e, iterations) == IF iterations > 0 THEN [e EXCEPT !.iterations = iterations] ELSE e

LEMMA CountedFacts ==
  ASSUME NEW e, IsEntry(e), NEW iterations \in Nat
  PROVE  LET c == Counted(e, iterations) IN
         /\ c.test = e.test /\ c.rtl_params = e.rtl_params /\ HasParams(c)
         /\ c.has_params = e.has_params
         /\ c.iterations = (IF iterations > 0 THEN iterations ELSE e.iterations)
         /\ c.iterations \in Nat
<1>. DEFINE c == Counted(e, iterations)
<1>1. e.iterations \in Nat /\ e.rtl_params \in Seq(Range(e.rtl_params))
      /\ e.has_params \in BOOLEAN /\ (~e.has_params => e.rtl_params = <<>>)
      /\ DOMAIN e = {"test", "iterations", "has_params", "rtl_params"}
  BY DEF IsEntry
<1>2. c.test = e.test /\ c.rtl_params = e.rtl_params /\ c.has_params = e.has_params
      /\ c.iterations = (IF iterations > 0 THEN iterations ELSE e.iterations)
  BY <1>1 DEF Counted
<1>3. HasParams(e)
  <2>1. PICK R : e.rtl_params \in Seq(R)
    BY <1>1
  <2>2. \A q \in Seq(R) : Len(q) \in Nat /\ DOMAIN q = 1..Len(q) /\ (Len(q) = 0 => q = <<>>)
    BY EmptySeq
  <2>. QED
    BY <1>1, <2>1, <2>2 DEF HasParams
<1>. HIDE DEF c
<1>4. HasParams(c)
  BY <1>2, <1>3 DEF HasParams
<1>5. c.iterations \in Nat
  BY <1>1, <1>2
<1>. QED
  BY <1>2, <1>4, <1>5 DEF c

LEMMA EntryListed ==
  ASSUME NEW list, IsSeq(list)
  PROVE  Len(list) \in Nat /\ DOMAIN list = 1..Len(list) /\ list \in [1..Len(list) -> Entries(list)]
<1>1. list \in Seq(Range(list))
  BY DEF IsSeq
<1>2. PICK R : list \in Seq(R)
  BY <1>1
<1>3. Len(list) \in Nat /\ DOMAIN list = 1..Len(list) /\ list = [i \in 1..Len(list) |-> list[i]]
  BY <1>2
<1>. QED
  BY <1>3 DEF Entries

\* What a process_*_testlist makes of a list: the entries it asks for, once each.
AskedAre(S, asked, iterations, s) ==
    /\ s \in Seq(S) /\ IsInjective(s)
    /\ ToSet(s) = {Counted(e, iterations) : e \in asked}

Named(list) == \A i, j \in DOMAIN list : list[i].test = list[j].test => i = j

LEMMA Asked ==
  ASSUME NEW list, IsSeq(list), Named(list), \A e \in Entries(list) : IsEntry(e),
         NEW iterations \in Nat, NEW S, \A e \in Entries(list) : Counted(e, iterations) \in S,
         NEW keep \in SUBSET DOMAIN list
  PROVE  AskedAre(S, {list[i] : i \in keep}, iterations,
                  FlattenSeq([i \in DOMAIN list |->
                      IF i \in keep THEN <<Counted(list[i], iterations)>> ELSE <<>>]))
<1>. DEFINE N == Len(list)
            c == [i \in 1..N |-> Counted(list[i], iterations)]
<1>1. N \in Nat /\ DOMAIN list = 1..N /\ \A i \in 1..N : list[i] \in Entries(list)
  BY EntryListed
<1>2. c \in [1..N -> S]
  BY <1>1
<1>3. [i \in DOMAIN list |-> IF i \in keep THEN <<Counted(list[i], iterations)>> ELSE <<>>]
      = [i \in 1..N |-> IF i \in keep THEN <<c[i]>> ELSE <<>>]
  BY <1>1
<1>4. \A i \in 1..N : c[i] = Counted(list[i], iterations) /\ c[i].test = list[i].test
  BY <1>1, CountedFacts
<1>. DEFINE s == FlattenSeq([i \in DOMAIN list |->
                     IF i \in keep THEN <<Counted(list[i], iterations)>> ELSE <<>>])
<1>5. PickedAre(S, c, keep, s)
  <2>1. PickedAre(S, c, keep, FlattenSeq([i \in 1..N |-> IF i \in keep THEN <<c[i]>> ELSE <<>>]))
    <3>. HIDE DEF c, N
    <3>. QED
      BY <1>1, <1>2, Picked
  <2>. QED
    BY <2>1, <1>3
<1>. HIDE DEF s, c
<1>6. \A i, j \in keep : c[i] = c[j] => i = j
  BY <1>1, <1>4 DEF Named
<1>7. s \in Seq(S) /\ IsInjective(s) /\ ToSet(s) = {c[i] : i \in keep}
  BY <1>5, <1>6 DEF PickedAre
<1>8. {c[i] : i \in keep} = {Counted(e, iterations) : e \in {list[i] : i \in keep}}
  BY <1>1, <1>4
<1>. QED
  BY <1>7, <1>8 DEF AskedAre, s

LEMMA AskedRiscvdv ==
  ASSUME NEW list, IsSeq(list), Named(list), \A e \in Entries(list) : IsEntry(e), NEW test,
         NEW iterations \in Nat, NEW S, \A e \in Entries(list) : Counted(e, iterations) \in S
  PROVE  AskedAre(S, {e \in Entries(list) : e.iterations > 0 /\ riscvdv_matches(e, test)},
                  iterations, process_riscvdv_testlist(list, test, iterations))
<1>. DEFINE keep == {i \in DOMAIN list : riscvdv_matches(list[i], test) /\ list[i].iterations > 0}
<1>1. process_riscvdv_testlist(list, test, iterations)
      = FlattenSeq([i \in DOMAIN list |->
            IF i \in keep THEN <<Counted(list[i], iterations)>> ELSE <<>>])
  BY DEF process_riscvdv_testlist, Counted
<1>2. {list[i] : i \in keep} = {e \in Entries(list) : e.iterations > 0 /\ riscvdv_matches(e, test)}
  BY DEF Entries
<1>3. keep \in SUBSET DOMAIN list
  OBVIOUS
<1>. HIDE DEF keep
<1>4. AskedAre(S, {list[i] : i \in keep}, iterations,
               FlattenSeq([i \in DOMAIN list |->
                   IF i \in keep THEN <<Counted(list[i], iterations)>> ELSE <<>>]))
  BY <1>3, Asked
<1>. QED
  BY <1>1, <1>2, <1>4

LEMMA AskedDirected ==
  ASSUME NEW list, IsSeq(list), Named(list), \A e \in Entries(list) : IsEntry(e), NEW test,
         NEW iterations \in Nat, NEW S, \A e \in Entries(list) : Counted(e, iterations) \in S
  PROVE  AskedAre(S, {e \in Entries(list) :
                         directed_matches(e, test) /\ Counted(e, iterations).iterations > 0},
                  iterations, process_directed_testlist(list, test, iterations))
<1>. DEFINE keep == {i \in DOMAIN list : directed_matches(list[i], test)
                                          /\ Counted(list[i], iterations).iterations > 0}
<1>1. process_directed_testlist(list, test, iterations)
      = FlattenSeq([i \in DOMAIN list |->
            IF i \in keep THEN <<Counted(list[i], iterations)>> ELSE <<>>])
  BY DEF process_directed_testlist, Counted
<1>2. {list[i] : i \in keep} = {e \in Entries(list) :
          directed_matches(e, test) /\ Counted(e, iterations).iterations > 0}
  BY DEF Entries
<1>3. keep \in SUBSET DOMAIN list
  OBVIOUS
<1>. HIDE DEF keep
<1>4. AskedAre(S, {list[i] : i \in keep}, iterations,
               FlattenSeq([i \in DOMAIN list |->
                   IF i \in keep THEN <<Counted(list[i], iterations)>> ELSE <<>>]))
  BY <1>3, Asked
<1>. QED
  BY <1>1, <1>2, <1>4

\* What filter_tests_by_config leaves of a list.
FilteredAre(S, cfg, list, s) ==
    /\ s \in Seq(S)
    /\ ToSet(s) = {e \in ToSet(list) : copies(cfg, e) # 0}
    /\ IsInjective(list) /\ (\A e \in ToSet(list) : Simple(e)) => IsInjective(s)

LEMMA Filtered ==
  ASSUME NEW cfg, NEW S, \A e \in S : HasParams(e), NEW list \in Seq(S)
  PROVE  FilteredAre(S, cfg, list, filter_tests_by_config(cfg, list))
<1>. DEFINE m == [i \in DOMAIN list |-> copies(cfg, list[i])]
            s == filter_tests_by_config(cfg, list)
<1>1. \A i \in DOMAIN list : list[i] \in S /\ HasParams(list[i])
  OBVIOUS
<1>2. m \in [DOMAIN list -> Nat]
  BY <1>1, CopiesFacts
<1>3. [i \in DOMAIN list |-> [n \in 1..copies(cfg, list[i]) |-> list[i]]]
      = [i \in DOMAIN list |-> [n \in 1..m[i] |-> list[i]]]
  OBVIOUS
<1>4. RepeatedAre(S, list, m, s)
  <2>1. RepeatedAre(S, list, m, FlattenSeq([i \in DOMAIN list |-> [n \in 1..m[i] |-> list[i]]]))
    <3>. HIDE DEF m
    <3>. QED
      BY <1>2, Repeated
  <2>. QED
    BY <2>1, <1>3 DEF filter_tests_by_config
<1>5. \A i \in DOMAIN list : m[i] = copies(cfg, list[i])
  OBVIOUS
<1>. HIDE DEF m, s
<1>6. s \in Seq(S) /\ ToSet(s) = {list[i] : i \in {j \in DOMAIN list : m[j] # 0}}
      /\ (IsInjective(list) /\ (\A i \in DOMAIN list : m[i] <= 1) => IsInjective(s))
  BY <1>4 DEF RepeatedAre
<1>7. {list[i] : i \in {j \in DOMAIN list : m[j] # 0}} = {e \in ToSet(list) : copies(cfg, e) # 0}
  BY <1>5 DEF ToSet
<1>8. ASSUME \A e \in ToSet(list) : Simple(e)
      PROVE  \A i \in DOMAIN list : m[i] <= 1
  BY <1>1, <1>5, <1>8, CopiesFacts DEF ToSet
<1>. QED
  BY <1>6, <1>7, <1>8 DEF FilteredAre, s

\* The TEST.SEED of a list of entries.
PickledAre(list, seed, s) ==
    /\ ToSet(s) = UNION {{<<e.test, seed + n>> : n \in 0..(e.iterations - 1)} : e \in ToSet(list)}
    /\ IsInjective(list) /\ (\A e, f \in ToSet(list) : e.test = f.test => e = f) => IsInjective(s)

LEMMA Pickled ==
  ASSUME NEW S, \A e \in S : e.iterations \in Nat, NEW list \in Seq(S), NEW seed \in Nat
  PROVE  PickledAre(list, seed, tests_pickle_files(list, seed))
<1>. DEFINE N == Len(list)
            Pairs == {list[i].test : i \in 1..N} \X Nat
            seqs == [i \in DOMAIN list |->
                        [n \in 1..list[i].iterations |-> <<list[i].test, seed + n - 1>>]]
            Block(e) == {<<e.test, seed + n>> : n \in 0..(e.iterations - 1)}
<1>1. N \in Nat /\ DOMAIN list = 1..N /\ \A i \in 1..N : list[i] \in S /\ list[i].iterations \in Nat
  OBVIOUS
<1>2. ASSUME NEW i \in 1..N
      PROVE  /\ seqs[i] \in Seq(Pairs) /\ ToSet(seqs[i]) = Block(list[i])
             /\ IsInjective(seqs[i])
  <2>. DEFINE K == list[i].iterations
  <2>1. seqs[i] = [n \in 1..K |-> <<list[i].test, seed + n - 1>>] /\ K \in Nat
    BY <1>1
  <2>2. \A n \in 1..K : seed + n - 1 \in Nat /\ seqs[i][n] = <<list[i].test, seed + n - 1>>
    BY <2>1
  <2>3. seqs[i] \in [1..K -> Pairs]
    BY <2>1, <2>2
  <2>4. seqs[i] \in Seq(Pairs) /\ DOMAIN seqs[i] = 1..K
    <3>. HIDE DEF seqs, Pairs, K
    <3>. QED
      BY <2>1, <2>3, MakesList DEF IsList
  <2>. HIDE DEF seqs
  <2>5. ToSet(seqs[i]) = {<<list[i].test, seed + n - 1>> : n \in 1..K}
    BY <2>2, <2>4 DEF ToSet
  <2>6. \A n \in 1..K : n - 1 \in 0..(K - 1) /\ seed + n - 1 = seed + (n - 1)
    BY <2>1
  <2>7. \A n \in 0..(K - 1) : n + 1 \in 1..K /\ seed + (n + 1) - 1 = seed + n
    BY <2>1
  <2>8. ToSet(seqs[i]) = Block(list[i])
    <3>1. \A x \in ToSet(seqs[i]) : x \in Block(list[i])
      BY <2>5, <2>6
    <3>2. \A x \in Block(list[i]) : x \in ToSet(seqs[i])
      BY <2>5, <2>7
    <3>. QED
      BY <3>1, <3>2
  <2>9. IsInjective(seqs[i])
    <3>1. ASSUME NEW n \in 1..K, NEW k \in 1..K, seqs[i][n] = seqs[i][k] PROVE n = k
      <4>1. seed + n - 1 = seed + k - 1
        BY <2>2, <3>1
      <4>. QED
        BY <4>1, <2>1
    <3>. QED
      BY <2>4, <3>1 DEF IsInjective
  <2>. QED
    BY <2>4, <2>8, <2>9
<1>3. seqs \in [1..N -> Seq(Pairs)]
  <2>1. DOMAIN seqs = 1..N /\ seqs = [i \in 1..N |-> seqs[i]]
    BY <1>1
  <2>. HIDE DEF seqs, Pairs
  <2>. QED
    BY <1>2, <2>1
<1>. HIDE DEF seqs, Pairs
<1>4. seqs \in Seq(Seq(Pairs)) /\ DOMAIN seqs = 1..N
  BY <1>1, <1>3, MakesList DEF IsList
<1>5. ToSet(FlattenSeq(seqs)) = UNION {Block(e) : e \in ToSet(list)}
  <2>1. ToSet(FlattenSeq(seqs)) = UNION {ToSet(seqs[i]) : i \in DOMAIN seqs}
    BY <1>4, FlatSet
  <2>. HIDE DEF Block
  <2>2. ToSet(list) = {list[i] : i \in 1..N}
    BY <1>1 DEF ToSet
  <2>. QED
    BY <1>2, <1>4, <2>1, <2>2
<1>6. ASSUME IsInjective(list), \A e, f \in ToSet(list) : e.test = f.test => e = f
      PROVE  IsInjective(FlattenSeq(seqs))
  <2>1. ASSUME NEW i \in 1..N, NEW j \in 1..N, i # j PROVE Block(list[i]) \cap Block(list[j]) = {}
    <3>1. list[i] # list[j] /\ list[i] \in ToSet(list) /\ list[j] \in ToSet(list)
      BY <1>1, <1>6, <2>1 DEF IsInjective, ToSet
    <3>2. list[i].test # list[j].test
      BY <1>6, <3>1
    <3>. QED
      BY <3>2
  <2>. HIDE DEF Block
  <2>2. \A i, j \in DOMAIN seqs : i # j => ToSet(seqs[i]) \cap ToSet(seqs[j]) = {}
    BY <1>2, <1>4, <2>1
  <2>3. \A i \in DOMAIN seqs : IsInjective(seqs[i])
    BY <1>2, <1>4
  <2>. QED
    BY <1>4, <2>2, <2>3, FlatInjective
<1>7. tests_pickle_files(list, seed) = FlattenSeq(seqs)
  BY DEF tests_pickle_files, seqs
<1>. QED
  BY <1>5, <1>6, <1>7 DEF PickledAre

LEMMA NoneIn == ASSUME NEW S, NEW list \in Seq(S) PROVE list = <<>> <=> ToSet(list) = {}
<1>1. Len(list) \in Nat /\ DOMAIN list = 1..Len(list) /\ (Len(list) = 0 => list = <<>>)
  BY EmptySeq
<1>2. list # <<>> => 1 \in DOMAIN list
  BY <1>1
<1>3. list = <<>> => DOMAIN list = {}
  OBVIOUS
<1>. QED
  BY <1>2, <1>3 DEF ToSet

\* With one parameter at most, every one is looked at.
LEMMA Raises ==
  ASSUME NEW cfg, NEW list, \A e \in ToSet(list) : HasParams(e) /\ Simple(e)
  PROVE  filter_raises(cfg, list) <=>
            \E e \in ToSet(list) : \E i \in DOMAIN e.rtl_params :
                e.rtl_params[i].name \notin DOMAIN cfg
<1>1. ASSUME NEW e \in ToSet(list), NEW i \in DOMAIN e.rtl_params PROVE 1..(i - 1) = {}
  <2>1. Len(e.rtl_params) \in Nat /\ DOMAIN e.rtl_params = 1..Len(e.rtl_params)
        /\ (~e.has_params => e.rtl_params = <<>>) /\ (~e.has_params \/ Len(e.rtl_params) = 1)
    BY DEF HasParams, Simple
  <2>2. e.rtl_params # <<>>
    <3>1. DOMAIN <<>> = {}
      OBVIOUS
    <3>. QED
      BY <3>1
  <2>3. Len(e.rtl_params) = 1
    BY <2>1, <2>2
  <2>4. i = 1
    BY <2>1, <2>3
  <2>. QED
    BY <2>4
<1>2. \A n \in DOMAIN list : list[n] \in ToSet(list)
  BY DEF ToSet
<1>3. \A e \in ToSet(list) : \E n \in DOMAIN list : list[n] = e
  BY DEF ToSet
<1>4. ASSUME filter_raises(cfg, list)
      PROVE  \E e \in ToSet(list) : \E i \in DOMAIN e.rtl_params :
                e.rtl_params[i].name \notin DOMAIN cfg
  BY <1>2, <1>4 DEF filter_raises
<1>5. ASSUME NEW e \in ToSet(list), NEW i \in DOMAIN e.rtl_params,
             e.rtl_params[i].name \notin DOMAIN cfg
      PROVE  filter_raises(cfg, list)
  <2>1. PICK n \in DOMAIN list : list[n] = e
    BY <1>3
  <2>. QED
    BY <1>1, <1>5, <2>1 DEF filter_raises
<1>. QED
  BY <1>4, <1>5

LEMMA TestsSelected ==
  ASSUME NEW cfg, NEW riscvdv, NEW directed, AreTestLists(riscvdv, directed), NEW test,
         NEW iterations \in Nat, NEW seed \in Nat
  PROVE  EachTestOnce(cfg, riscvdv, directed, test, iterations, seed)
<1>. DEFINE U == Entries(riscvdv) \cup Entries(directed)
            C(e) == Counted(e, iterations)
            S == {C(e) : e \in U}
            WantedR == {e \in Entries(riscvdv) : e.iterations > 0 /\ riscvdv_matches(e, test)}
            WantedD == {e \in Entries(directed) : directed_matches(e, test)}
            matched == WantedR \cup WantedD
            supported == {e \in matched : Supported(cfg, e)}
            unknown == \E e \in matched : \E i \in DOMAIN e.rtl_params :
                           e.rtl_params[i].name \notin DOMAIN cfg
            simple == \A e \in matched : ~e.has_params \/ Len(e.rtl_params) = 1
            times(e) == IF iterations > 0 THEN iterations ELSE e.iterations
            runs(R) == UNION {{<<e.test, seed + n>> : n \in 0..(times(e) - 1)} : e \in R}
            pr == process_riscvdv_testlist(riscvdv, test, iterations)
            pd == process_directed_testlist(directed, test, iterations)
            fr == filter_tests_by_config(cfg, pr)
            fd == filter_tests_by_config(cfg, pd)
            out == tests_pickle_files(fr \o fd, seed)
            refused == \/ pr = <<>> /\ pd = <<>>
                       \/ filter_raises(cfg, pr) \/ filter_raises(cfg, pd)
            got == create_metadata(cfg, riscvdv, directed, test, iterations, seed)
            Block(e) == {<<e.test, seed + n>> : n \in 0..(e.iterations - 1)}
<1>1. /\ IsSeq(riscvdv) /\ IsSeq(directed) /\ Named(riscvdv) /\ Named(directed)
      /\ \A e \in U : IsEntry(e)
      /\ \A e \in Entries(directed) : e.iterations > 0
  BY DEF AreTestLists, Named
<1>2. \A e, f \in U : e.test = f.test => e = f
  <2>1. \A i \in DOMAIN riscvdv : \A j \in DOMAIN directed : riscvdv[i].test # directed[j].test
    BY DEF AreTestLists
  <2>. QED
    BY <1>1, <2>1 DEF Named, Entries
<1>3. \A e \in U : /\ C(e).test = e.test /\ C(e).rtl_params = e.rtl_params /\ HasParams(C(e))
                   /\ C(e).has_params = e.has_params
                   /\ C(e).iterations = times(e) /\ C(e).iterations \in Nat
  BY <1>1, CountedFacts
<1>. HIDE DEF C
<1>4. \A c \in S : HasParams(c) /\ c.iterations \in Nat
  BY <1>3
<1>5. \A c, d \in S : c.test = d.test => c = d
  BY <1>2, <1>3
<1>6. AskedAre(S, WantedR, iterations, pr) /\ AskedAre(S, WantedD, iterations, pd)
  <2>1. \A e \in Entries(riscvdv) : IsEntry(e) /\ Counted(e, iterations) \in S
    BY <1>1 DEF C
  <2>2. \A e \in Entries(directed) : IsEntry(e) /\ Counted(e, iterations) \in S
    BY <1>1 DEF C
  <2>3. AskedAre(S, WantedR, iterations, pr)
    <3>. HIDE DEF S
    <3>. QED
      BY <1>1, <2>1, AskedRiscvdv
  <2>4. AskedAre(S, WantedD, iterations, pd)
    <3>1. AskedAre(S, {e \in Entries(directed) :
                          directed_matches(e, test) /\ Counted(e, iterations).iterations > 0},
                   iterations, pd)
      <4>. HIDE DEF S
      <4>. QED
        BY <1>1, <2>2, AskedDirected
    <3>2. \A e \in Entries(directed) : Counted(e, iterations).iterations > 0
      BY <1>1, <1>3 DEF C
    <3>3. WantedD = {e \in Entries(directed) :
                        directed_matches(e, test) /\ Counted(e, iterations).iterations > 0}
      BY <3>2
    <3>. HIDE DEF S, WantedD
    <3>. QED
      BY <3>1, <3>3
  <2>. QED
    BY <2>3, <2>4
<1>. HIDE DEF pr, pd
<1>7. /\ pr \in Seq(S) /\ IsInjective(pr) /\ ToSet(pr) = {C(e) : e \in WantedR}
      /\ pd \in Seq(S) /\ IsInjective(pd) /\ ToSet(pd) = {C(e) : e \in WantedD}
  BY <1>6 DEF AskedAre, C
<1>8. FilteredAre(S, cfg, pr, fr) /\ FilteredAre(S, cfg, pd, fd)
  <2>. HIDE DEF S
  <2>. QED
    BY <1>4, <1>7, Filtered
<1>. HIDE DEF fr, fd
<1>9. /\ fr \in Seq(S) /\ ToSet(fr) = {e \in ToSet(pr) : copies(cfg, e) # 0}
      /\ fd \in Seq(S) /\ ToSet(fd) = {e \in ToSet(pd) : copies(cfg, e) # 0}
  BY <1>8 DEF FilteredAre
<1>10. fr \o fd \in Seq(S) /\ ToSet(fr \o fd) = ToSet(fr) \cup ToSet(fd)
  <2>. HIDE DEF S
  <2>. QED
    BY <1>9, ConcatSet, ConcatProperties
<1>11. PickledAre(fr \o fd, seed, out)
  <2>. HIDE DEF S
  <2>. QED
    BY <1>4, <1>10, Pickled
<1>. HIDE DEF out
<1>12. ToSet(out) = UNION {Block(c) : c \in ToSet(fr \o fd)}
  BY <1>11 DEF PickledAre
<1>13. ToSet(fr \o fd) = {c \in {C(e) : e \in matched} : copies(cfg, c) # 0}
  BY <1>7, <1>9, <1>10
<1>14. \A e \in U : Supported(cfg, C(e)) <=> Supported(cfg, e)
  BY <1>3 DEF Supported
<1>15. \A c \in S : /\ Supported(cfg, c) /\ (c.has_params => c.rtl_params # <<>>) => copies(cfg, c) # 0
                    /\ Simple(c) => copies(cfg, c) <= 1
                    /\ Simple(c) => (copies(cfg, c) # 0 <=> Supported(cfg, c))
  BY <1>4, CopiesFacts
<1>16. \A R \in SUBSET U : runs(R) = UNION {Block(C(e)) : e \in R}
  <2>1. \A e \in U : Block(C(e)) = {<<e.test, seed + n>> : n \in 0..(times(e) - 1)}
    BY <1>3
  <2>. QED
    BY <2>1
<1>17. matched \subseteq U
  OBVIOUS
<1>. HIDE DEF Block, runs, matched
<1>18. runs({e \in supported : e.has_params => e.rtl_params # <<>>}) \subseteq ToSet(out)
  <2>1. \A e \in supported : (e.has_params => e.rtl_params # <<>>) => C(e) \in ToSet(fr \o fd)
    BY <1>3, <1>13, <1>14, <1>15, <1>17
  <2>2. {e \in supported : e.has_params => e.rtl_params # <<>>} \in SUBSET U
    BY <1>17
  <2>. QED
    BY <1>12, <1>16, <2>1, <2>2
<1>19. ASSUME simple PROVE ToSet(fr \o fd) = {C(e) : e \in supported}
  <2>1. \A e \in matched : Simple(C(e)) /\ C(e) \in S
    BY <1>3, <1>17, <1>19 DEF Simple
  <2>2. \A e \in matched : copies(cfg, C(e)) # 0 <=> Supported(cfg, e)
    BY <1>14, <1>15, <1>17, <2>1
  <2>. QED
    BY <1>13, <2>2
<1>20. ASSUME simple PROVE ToSet(out) = runs(supported)
  <2>1. supported \in SUBSET U
    BY <1>17
  <2>2. runs(supported) = UNION {Block(C(e)) : e \in supported}
    BY <1>16, <2>1
  <2>3. ToSet(fr \o fd) = {C(e) : e \in supported}
    BY <1>19, <1>20
  <2>. HIDE DEF supported
  <2>. QED
    BY <1>12, <2>2, <2>3
<1>21. ASSUME simple PROVE IsInjective(out)
  <2>1. /\ \A c \in ToSet(pr) : Simple(c) /\ c \in S
        /\ \A c \in ToSet(pd) : Simple(c) /\ c \in S
    BY <1>3, <1>7, <1>17, <1>21 DEF Simple, matched
  <2>3. IsInjective(fr) /\ IsInjective(fd)
    BY <1>7, <1>8, <2>1 DEF FilteredAre
  <2>4. ToSet(fr) \cap ToSet(fd) = {}
    <3>1. \A e \in Entries(riscvdv) : \A f \in Entries(directed) : e.test # f.test
      BY DEF AreTestLists, Entries
    <3>2. \A e \in WantedR : \A f \in WantedD : C(e).test # C(f).test
      BY <1>3, <3>1
    <3>. QED
      BY <1>7, <1>9, <3>2
  <2>5. IsInjective(fr \o fd)
    <3>. HIDE DEF S
    <3>. QED
      BY <1>9, <2>3, <2>4, ConcatInjective
  <2>6. \A e, f \in ToSet(fr \o fd) : e.test = f.test => e = f
    BY <1>5, <1>9, <1>10, <2>1
  <2>. QED
    BY <1>11, <2>5, <2>6 DEF PickledAre
<1>22. ASSUME simple PROVE filter_raises(cfg, pr) \/ filter_raises(cfg, pd) <=> unknown
  <2>1. /\ \A c \in ToSet(pr) : HasParams(c) /\ Simple(c)
        /\ \A c \in ToSet(pd) : HasParams(c) /\ Simple(c)
    BY <1>3, <1>7, <1>17, <1>22 DEF Simple, matched
  <2>2. filter_raises(cfg, pr) \/ filter_raises(cfg, pd) <=>
          \E c \in ToSet(pr) \cup ToSet(pd) : \E i \in DOMAIN c.rtl_params :
             c.rtl_params[i].name \notin DOMAIN cfg
    BY <2>1, Raises
  <2>3. ToSet(pr) \cup ToSet(pd) = {C(e) : e \in matched}
    BY <1>7 DEF matched
  <2>. QED
    BY <1>3, <1>17, <2>2, <2>3
<1>23. /\ pr = <<>> /\ pd = <<>> => matched = {}
       /\ fr \o fd = <<>> <=> ToSet(fr \o fd) = {}
  <2>. HIDE DEF S
  <2>1. /\ pr = <<>> <=> ToSet(pr) = {}
        /\ pd = <<>> <=> ToSet(pd) = {}
        /\ fr \o fd = <<>> <=> ToSet(fr \o fd) = {}
    BY <1>7, <1>10, NoneIn
  <2>. QED
    BY <1>7, <2>1 DEF matched
<1>24. /\ got.error <=> refused \/ fr \o fd = <<>>
       /\ ~got.error => got.runs = out
  <2>1. get_tests_and_counts(cfg, riscvdv, directed, test, iterations)
          = [error |-> refused, tests |-> IF refused THEN <<>> ELSE fr \o fd]
    BY DEF get_tests_and_counts, fr, fd, pr, pd
  <2>. DEFINE tg == get_tests_and_counts(cfg, riscvdv, directed, test, iterations)
  <2>2. tg.error = refused /\ tg.tests = IF refused THEN <<>> ELSE fr \o fd
    BY <2>1
  <2>. HIDE DEF tg
  <2>3. got.error = (tg.error \/ tg.tests = <<>>) /\ got.runs = tests_pickle_files(tg.tests, seed)
    BY DEF create_metadata, tg
  <2>4. refused \in BOOLEAN
    BY DEF filter_raises
  <2>5. out = tests_pickle_files(fr \o fd, seed)
    BY DEF out
  <2>. HIDE DEF refused, got
  <2>. QED
    BY <2>2, <2>3, <2>4, <2>5
<1>. HIDE DEF got
<1>25. ASSUME simple PROVE got.error <=> unknown \/ supported = {}
  <2>1. fr \o fd = <<>> <=> supported = {}
    BY <1>19, <1>23, <1>25
  <2>. QED
    BY <1>22, <1>23, <1>24, <1>25, <2>1
<1>. HIDE DEF simple, supported, unknown
<1>26. /\ simple => (got.error <=> unknown \/ supported = {})
       /\ simple /\ ~got.error => ToSet(got.runs) = runs(supported) /\ IsInjective(got.runs)
       /\ ~got.error => runs({e \in supported : e.has_params => e.rtl_params # <<>>})
                           \subseteq ToSet(got.runs)
  BY <1>18, <1>20, <1>21, <1>24, <1>25
<1>. QED
  BY <1>26 DEF EachTestOnce, got, simple, supported, unknown, runs, matched

-----------------------------------------------------------------------------
(* ibex_config.py: the options of a configuration.                         *)

Setters == {"param", "define"}

\* The stage at which a field is set: strings are macros, which the compiler takes; of
\* the rest, a simulator that has two stages takes the parameters at the second.
StageOf(simulator, setter) ==
    IF simulator \in {"riviera", "questa"} /\ setter = "param" THEN "sim" ELSE "compile"

LEMMA Apart ==
    \A a, b, c, d, e : <<a, b>> # <<c, d, e>>
<1>. SUFFICES ASSUME NEW a, NEW b, NEW c, NEW d, NEW e, <<a, b>> = <<c, d, e>> PROVE FALSE
  OBVIOUS
<1>1. Len(<<a, b>>) = 2 /\ Len(<<c, d, e>>) = 3
  OBVIOUS
<1>. QED
  BY <1>1

Simulators == {"riviera", "questa", "vcs", "xlm", "dsim"}

LEMMA SetAtStage ==
  ASSUME NEW simulator \in Simulators, NEW stage \in {"compile", "sim"}, NEW setter \in Setters
  PROVE  (stage \in SIM_CFGS[simulator] /\ output_type(simulator, stage) \in outputters[setter])
         <=> stage = StageOf(simulator, setter)
<1>1. /\ outputters["param"] = {<<s, "opts">> : s \in {"vcs", "xlm", "dsim"}}
                               \cup {<<s, "sim", "opts">> : s \in {"riviera", "questa"}}
      /\ outputters["define"] = {<<s, "opts">> : s \in {"vcs", "xlm", "dsim"}}
                               \cup {<<s, "compile", "opts">> : s \in {"riviera", "questa"}}
  BY DEF outputters
<1>2. CASE simulator \in {"vcs", "xlm", "dsim"}
  <2>1. SIM_CFGS[simulator] = {"compile"}
    BY <1>2 DEF SIM_CFGS
  <2>2. output_type(simulator, stage) = <<simulator, "opts">>
    BY <2>1 DEF output_type
  <2>3. <<simulator, "opts">> \in outputters[setter]
    BY <1>1, <1>2 DEF Setters
  <2>. QED
    BY <1>2, <2>1, <2>2, <2>3 DEF StageOf
<1>3. CASE simulator \in {"riviera", "questa"}
  <2>1. SIM_CFGS[simulator] = {"compile", "sim"}
    BY <1>3 DEF SIM_CFGS
  <2>2. output_type(simulator, stage) = <<simulator, stage, "opts">>
    BY <2>1 DEF output_type
  <2>3. \A s : <<simulator, stage, "opts">> # <<s, "opts">>
    BY Apart
  <2>4. \A s, t : <<simulator, stage, "opts">> = <<s, t, "opts">> <=> simulator = s /\ stage = t
    OBVIOUS
  <2>5. CASE setter = "param"
    BY <1>1, <1>3, <2>1, <2>2, <2>3, <2>4, <2>5 DEF StageOf
  <2>6. CASE setter = "define"
    BY <1>1, <1>3, <2>1, <2>2, <2>3, <2>4, <2>6 DEF StageOf
  <2>. QED
    BY <2>5, <2>6 DEF Setters
<1>. QED
  BY <1>2, <1>3 DEF Simulators

LEMMA SetAsConfigured ==
  ASSUME NEW yml, \A fld \in DOMAIN yml : yml[fld].type = "bool" => yml[fld].v \in {"0", "1"}
  PROVE  OptionsMatchConfig(yml)
<1>. SUFFICES ASSUME Config(yml), NEW simulator \in DOMAIN SIM_CFGS, NEW fld \in DOMAIN known_fields
              PROVE  LET opts == [s \in {"compile", "sim"} |-> get_x_opts(yml, simulator, s)] IN
                     /\ Cardinality({x \in {"compile", "sim"} \X (opts["compile"] \cup opts["sim"]) :
                                        x[2] \in opts[x[1]] /\ x[2].fld = fld}) = 1
                     /\ \A o \in opts["compile"] \cup opts["sim"] :
                           o.fld = fld => /\ o.v = yml[fld].v
                                          /\ known_fields[fld] = "bool" => o.v \in {"0", "1"}
  BY DEF OptionsMatchConfig
<1>. DEFINE opts == [s \in {"compile", "sim"} |-> get_x_opts(yml, simulator, s)]
            Opt(f) == [fld |-> f, how |-> Setter(f), v |-> yml[f].v]
            Stage(f) == StageOf(simulator, Setter(f))
            both == opts["compile"] \cup opts["sim"]
            here == {x \in {"compile", "sim"} \X both : x[2] \in opts[x[1]] /\ x[2].fld = fld}
<1>1. simulator \in Simulators
  BY DEF SIM_CFGS, Simulators
<1>2. \A f : Setter(f) \in Setters /\ Stage(f) \in {"compile", "sim"}
  BY DEF Setter, Setters, StageOf
<1>3. ASSUME NEW s \in {"compile", "sim"}
      PROVE  opts[s] = {Opt(f) : f \in {f \in DOMAIN known_fields : Stage(f) = s}}
  <2>1. opts[s] = get_x_opts(yml, simulator, s)
    OBVIOUS
  <2>2. \A f : Setter(f) \in Setters => ((s \in SIM_CFGS[simulator]
            /\ output_type(simulator, s) \in outputters[Setter(f)]) <=> s = Stage(f))
    BY <1>1, SetAtStage
  <2>3. CASE s \in SIM_CFGS[simulator]
    <3>1. get_x_opts(yml, simulator, s) = {Opt(f) :
              f \in {f \in DOMAIN known_fields : output_type(simulator, s) \in outputters[Setter(f)]}}
      BY <2>3 DEF get_x_opts, output
    <3>2. {f \in DOMAIN known_fields : output_type(simulator, s) \in outputters[Setter(f)]}
          = {f \in DOMAIN known_fields : Stage(f) = s}
      <4>. HIDE DEF Stage
      <4>. QED
        BY <1>2, <2>2, <2>3
    <3>. QED
      BY <2>1, <3>1, <3>2
  <2>4. CASE s \notin SIM_CFGS[simulator]
    <3>1. get_x_opts(yml, simulator, s) = {}
      BY <2>4 DEF get_x_opts
    <3>2. {f \in DOMAIN known_fields : Stage(f) = s} = {}
      <4>. HIDE DEF Stage
      <4>. QED
        BY <1>2, <2>2, <2>4
    <3>. HIDE DEF Opt, Stage, opts
    <3>. QED
      BY <2>1, <3>1, <3>2
  <2>. QED
    BY <2>3, <2>4
<1>4. \A f : Opt(f).fld = f /\ Opt(f).v = yml[f].v
  OBVIOUS
<1>. HIDE DEF opts, Opt, Stage
<1>5. here = {<<Stage(fld), Opt(fld)>>}
  <2>1. Stage(fld) \in {"compile", "sim"} /\ Opt(fld) \in opts[Stage(fld)] /\ Opt(fld) \in both
    BY <1>2, <1>3
  <2>2. <<Stage(fld), Opt(fld)>> \in here
    BY <1>4, <2>1
  <2>3. ASSUME NEW x \in here PROVE x = <<Stage(fld), Opt(fld)>>
    <3>1. x[1] \in {"compile", "sim"} /\ x[2] \in opts[x[1]] /\ x[2].fld = fld /\ x = <<x[1], x[2]>>
      OBVIOUS
    <3>2. PICK f \in DOMAIN known_fields : Stage(f) = x[1] /\ x[2] = Opt(f)
      BY <1>3, <3>1
    <3>3. f = fld
      BY <1>4, <3>1, <3>2
    <3>. QED
      BY <3>1, <3>2, <3>3
  <2>. QED
    BY <2>2, <2>3
<1>6. Cardinality(here) = 1
  BY <1>5, FS_Singleton
<1>7. ASSUME NEW o \in both, o.fld = fld
      PROVE  o.v = yml[fld].v /\ (known_fields[fld] = "bool" => o.v \in {"0", "1"})
  <2>1. o = Opt(fld)
    BY <1>3, <1>4, <1>7
  <2>2. ASSUME known_fields[fld] = "bool" PROVE yml[fld].v \in {"0", "1"}
    <3>1. fld \in DOMAIN yml /\ read("bool", yml[fld])
      BY <2>2 DEF Config
    <3>2. yml[fld].type = "bool" \/ yml[fld].v \in {"0", "1"}
      BY <3>1 DEF read
    <3>. QED
      BY <3>1, <3>2
  <2>. QED
    BY <1>4, <2>1, <2>2
<1>. HIDE DEF here, both
<1>. QED
  BY <1>6, <1>7 DEF opts, here, both

LEMMA IsasInSync ==
  ASSUME NEW rv32e, NEW rv32m, NEW rv32b \in DOMAIN bitmanip_mapping
  PROVE  IsaInSync(rv32e, rv32m, rv32b)
<1>. DEFINE base == base_isa(rv32e, rv32m)
<1>1. get_isas_for_config(rv32e, rv32m, rv32b).iss = base \o bitmanip_mapping[rv32b]
  BY DEF get_isas_for_config
<1>2. base = <<"rv32", IF rv32e THEN "e" ELSE "i">>
             \o (IF rv32m = "RV32MNone" THEN <<>> ELSE <<"m">>) \o <<"c">>
  BY DEF base_isa
<1>3. bitmanip_mapping[rv32b] =
          CASE rv32b = "RV32BNone"       -> <<>>
            [] rv32b = "RV32BBalanced"   -> <<"Zba", "Zbb", "Zbs", "XZbf", "XZbt">>
            [] rv32b = "RV32BOTEarlGrey" ->
                <<"Zba", "Zbb", "Zbc", "Zbs", "XZbf", "XZbp", "XZbr", "XZbt">>
            [] rv32b = "RV32BFull"       ->
                <<"Zba", "Zbb", "Zbc", "Zbs", "XZbe", "XZbf", "XZbp", "XZbr", "XZbt">>
  BY DEF bitmanip_mapping
<1>4. (IF rv32m # "RV32MNone" THEN <<"m">> ELSE <<>>) = (IF rv32m = "RV32MNone" THEN <<>> ELSE <<"m">>)
  OBVIOUS
<1>5. get_isa_string(rv32e, rv32m, rv32b) = base \o bitmanip_mapping[rv32b]
  <2>. HIDE DEF base
  <2>. QED
    BY <1>2, <1>3, <1>4, Zenon DEF get_isa_string
<1>. HIDE DEF base
<1>. QED
  BY <1>1, <1>5 DEF IsaInSync

-----------------------------------------------------------------------------
(* get_tool_cmd: the commands of a simulator.                              *)

\* Each word replaced by the text f has for it.
Apply(f, ws) == FlattenSeq([i \in DOMAIN ws |-> f[ws[i]]])

Applied(S, f, ws, g) ==
    /\ g \in [0..Len(ws) -> Seq(S)] /\ g[0] = <<>>
    /\ \A k \in 1..Len(ws) : g[k] = g[k - 1] \o f[ws[k]]
    /\ Apply(f, ws) = g[Len(ws)]

LEMMA ApplyRun ==
  ASSUME NEW S, NEW f \in [S -> Seq(S)], NEW ws \in Seq(S)
  PROVE  \E g : Applied(S, f, ws, g)
<1>. DEFINE seqs == [i \in DOMAIN ws |-> f[ws[i]]]
<1>1. DOMAIN ws = 1..Len(ws) /\ Len(ws) \in Nat /\ \A i \in DOMAIN ws : f[ws[i]] \in Seq(S)
  OBVIOUS
<1>2. seqs \in [1..Len(ws) -> Seq(S)]
  BY <1>1
<1>3. seqs \in Seq(Seq(S)) /\ Len(seqs) = Len(ws)
  <2>1. IsList(Seq(S), Len(ws), seqs)
    <3>. HIDE DEF seqs
    <3>. QED
      BY <1>1, <1>2, MakesList
  <2>. QED
    BY <2>1 DEF IsList
<1>4. PICK g : Joined(S, seqs, g)
  <2>. HIDE DEF seqs
  <2>. QED
    BY <1>3, Flattened
<1>5. \A k \in 1..Len(ws) : seqs[k] = f[ws[k]]
  BY <1>1
<1>6. Apply(f, ws) = FlattenSeq(seqs)
  BY DEF Apply
<1>7. /\ g \in [0..Len(ws) -> Seq(S)] /\ g[0] = <<>>
      /\ \A k \in 1..Len(ws) : g[k] = g[k - 1] \o f[ws[k]]
      /\ Apply(f, ws) = g[Len(ws)]
  <2>. HIDE DEF seqs
  <2>. QED
    BY <1>3, <1>4, <1>5, <1>6 DEF Joined
<1>. QED
  BY <1>7 DEF Applied

LEMMA ApplyType ==
  ASSUME NEW S, NEW f \in [S -> Seq(S)], NEW ws \in Seq(S)
  PROVE  Apply(f, ws) \in Seq(S)
<1>1. PICK g : Applied(S, f, ws, g)
  BY ApplyRun
<1>2. Len(ws) \in 0..Len(ws)
  OBVIOUS
<1>. QED
  BY <1>1, <1>2 DEF Applied

LEMMA ApplyNone ==
  ASSUME NEW S, NEW f \in [S -> Seq(S)] PROVE Apply(f, <<>>) = <<>>
<1>1. <<>> \in Seq(S) /\ Len(<<>>) = 0
  OBVIOUS
<1>2. PICK g : Applied(S, f, <<>>, g)
  BY <1>1, ApplyRun
<1>. QED
  BY <1>1, <1>2 DEF Applied

LEMMA ApplyOne ==
  ASSUME NEW S, NEW f \in [S -> Seq(S)], NEW w \in S PROVE Apply(f, <<w>>) = f[w]
<1>1. <<w>> \in Seq(S) /\ Len(<<w>>) = 1 /\ <<w>>[1] = w /\ 1 \in 1..1
  OBVIOUS
<1>2. PICK g : Applied(S, f, <<w>>, g)
  BY <1>1, ApplyRun
<1>3. g[0] = <<>> /\ Apply(f, <<w>>) = g[1] /\ g[1] = g[0] \o f[w]
  <2>1. \A k \in 1..1 : g[k] = g[k - 1] \o f[<<w>>[k]]
    BY <1>1, <1>2 DEF Applied
  <2>2. \A k \in 1..1 : k - 1 = 0 /\ <<w>>[k] = w
    OBVIOUS
  <2>3. \A k \in 1..1 : g[k] = g[0] \o f[w]
    BY <2>1, <2>2
  <2>. QED
    BY <2>3, <1>1, <1>2 DEF Applied
<1>4. f[w] \in Seq(S)
  OBVIOUS
<1>5. <<>> \o f[w] = f[w]
  BY <1>4, ConcatEmptySeq
<1>. QED
  BY <1>3, <1>5

\* A text of words that stand for themselves.
Keeps(f, ws) == \A i \in DOMAIN ws : f[ws[i]] = <<ws[i]>>
LEMMA ApplySame ==
  ASSUME NEW S, NEW f \in [S -> Seq(S)], NEW ws \in Seq(S), Keeps(f, ws)
  PROVE  Apply(f, ws) = ws
<1>. DEFINE N == Len(ws)
<1>0. PICK g : Applied(S, f, ws, g)
  BY ApplyRun
<1>1. /\ g \in [0..N -> Seq(S)] /\ g[0] = <<>>
      /\ \A k \in 1..N : g[k] = g[k - 1] \o f[ws[k]]
      /\ Apply(f, ws) = g[N]
  BY <1>0 DEF Applied
<1>2. N \in Nat /\ DOMAIN ws = 1..N /\ \A k \in 1..N : ws[k] \in S
  OBVIOUS
<1>12. \A k \in 1..N : f[ws[k]] = <<ws[k]>>
  BY <1>2 DEF Keeps
<1>. DEFINE T == {k \in 0..N : Len(g[k]) = k /\ \A i \in 1..k : g[k][i] = ws[i]}
<1>. HIDE DEF N
<1>3. 0 \in T
  BY <1>1, <1>2
<1>4. ASSUME NEW k \in 1..N, k - 1 \in T PROVE k \in T
  <2>1. k - 1 \in 0..N /\ k \in 0..N /\ k \in DOMAIN ws
    BY <1>2
  <2>2. g[k - 1] \in Seq(S) /\ Len(g[k - 1]) = k - 1 /\ \A i \in 1..(k - 1) : g[k - 1][i] = ws[i]
    BY <1>1, <1>4, <2>1
  <2>3. <<ws[k]>> \in Seq(S) /\ Len(<<ws[k]>>) = 1 /\ <<ws[k]>>[1] = ws[k]
    BY <1>2
  <2>4. g[k] = g[k - 1] \o <<ws[k]>>
    BY <1>1, <1>12
  <2>5. Len(g[k]) = k - 1 + 1 /\ \A i \in 1..(k - 1 + 1) :
            g[k][i] = IF i <= k - 1 THEN g[k - 1][i] ELSE <<ws[k]>>[i - (k - 1)]
    <3>1. /\ Len(g[k - 1] \o <<ws[k]>>) = Len(g[k - 1]) + Len(<<ws[k]>>)
          /\ \A i \in 1..(Len(g[k - 1]) + Len(<<ws[k]>>)) : (g[k - 1] \o <<ws[k]>>)[i] =
                 IF i <= Len(g[k - 1]) THEN g[k - 1][i] ELSE <<ws[k]>>[i - Len(g[k - 1])]
      BY <2>2, <2>3, ConcatProperties
    <3>. QED
      BY <2>2, <2>3, <2>4, <3>1
  <2>6. ASSUME NEW i \in 1..k PROVE g[k][i] = ws[i]
    <3>1. CASE i <= k - 1
      BY <2>1, <2>2, <2>5, <3>1
    <3>2. CASE i = k
      <4>1. i - (k - 1) = 1 /\ ~(i <= k - 1) /\ i \in 1..(k - 1 + 1)
        BY <2>1, <3>2
      <4>. QED
        BY <2>3, <2>5, <3>2, <4>1
    <3>. QED
      BY <2>1, <3>1, <3>2
  <2>. QED
    BY <2>1, <2>5, <2>6
<1>5. \A k \in 0..N : k \in T
  <2>. HIDE DEF T
  <2>. QED
    BY <1>2, <1>3, <1>4, UpTo
<1>6. N \in 0..N
  BY <1>2
<1>7. g[N] \in Seq(S) /\ Len(g[N]) = N /\ \A i \in 1..N : g[N][i] = ws[i]
  BY <1>1, <1>5, <1>6
<1>. QED
  BY <1>1, <1>7, SeqEqual DEF N

Associates(S) == \A a \in Seq(S) : \A b \in Seq(S) : \A c \in Seq(S) : (a \o b) \o c = a \o (b \o c)
LEMMA Associative == \A S : Associates(S)
  BY DEF Associates

LEMMA ApplyConcat ==
  ASSUME NEW S, NEW f \in [S -> Seq(S)], NEW s \in Seq(S), NEW t \in Seq(S)
  PROVE  Apply(f, s \o t) = Apply(f, s) \o Apply(f, t)
<1>. DEFINE M == Len(s)
            N == Len(t)
            u == s \o t
<1>1. /\ u \in Seq(S) /\ Len(u) = M + N
      /\ \A i \in 1..(M + N) : u[i] = IF i <= M THEN s[i] ELSE t[i - M]
  BY ConcatProperties
<1>2. M \in Nat /\ N \in Nat /\ (\A i \in 1..M : f[s[i]] \in Seq(S)) /\ \A i \in 1..N : f[t[i]] \in Seq(S)
  OBVIOUS
<1>. HIDE DEF u
<1>3. PICK gs : Applied(S, f, s, gs)
  BY ApplyRun
<1>4. PICK gt : Applied(S, f, t, gt)
  BY ApplyRun
<1>5. PICK g : Applied(S, f, u, g)
  BY <1>1, ApplyRun
<1>6. /\ gs \in [0..M -> Seq(S)] /\ gs[0] = <<>> /\ Apply(f, s) = gs[M]
      /\ \A k \in 1..M : gs[k] = gs[k - 1] \o f[s[k]]
  BY <1>3 DEF Applied
<1>7. /\ gt \in [0..N -> Seq(S)] /\ gt[0] = <<>> /\ Apply(f, t) = gt[N]
      /\ \A k \in 1..N : gt[k] = gt[k - 1] \o f[t[k]]
  BY <1>4 DEF Applied
<1>8. /\ g \in [0..(M + N) -> Seq(S)] /\ g[0] = <<>> /\ Apply(f, u) = g[M + N]
      /\ \A k \in 1..(M + N) : g[k] = g[k - 1] \o f[u[k]]
  BY <1>1, <1>5 DEF Applied
<1>. HIDE DEF M, N
<1>. DEFINE T1 == {k \in 0..M : g[k] = gs[k]}
<1>9. 0 \in T1
  BY <1>2, <1>6, <1>8
<1>10. ASSUME NEW k \in 1..M, k - 1 \in T1 PROVE k \in T1
  <2>1. k \in 1..(M + N) /\ k <= M /\ k \in 0..M
    BY <1>2
  <2>2. u[k] = s[k]
    BY <1>1, <2>1
  <2>. QED
    BY <1>6, <1>8, <1>10, <2>1, <2>2
<1>11. \A k \in 0..M : k \in T1
  <2>. HIDE DEF T1
  <2>. QED
    BY <1>2, <1>9, <1>10, UpTo
<1>12. g[M] = gs[M] /\ gs[M] \in Seq(S)
  BY <1>2, <1>6, <1>11
<1>. DEFINE T2 == {k \in 0..N : g[M + k] = gs[M] \o gt[k]}
<1>13. 0 \in T2
  <2>1. gs[M] \o <<>> = gs[M]
    BY <1>12, ConcatEmptySeq
  <2>2. M + 0 = M /\ 0 \in 0..N
    BY <1>2
  <2>3. g[M + 0] = gs[M] \o gt[0]
    BY <1>7, <1>12, <2>1, <2>2
  <2>. QED
    BY <2>2, <2>3
<1>14. ASSUME NEW k \in 1..N, k - 1 \in T2 PROVE k \in T2
  <2>0. PICK n \in 1..(M + N) : n = M + k
    BY <1>2
  <2>1. ~(n <= M) /\ n - M = k /\ n - 1 = M + (k - 1) /\ k \in 0..N /\ k - 1 \in 0..N
    BY <1>2, <2>0
  <2>2. u[n] = t[k]
    BY <1>1, <2>1
  <2>3. g[M + k] = g[M + (k - 1)] \o f[t[k]]
    <3>1. g[n] = g[n - 1] \o f[u[n]]
      BY <1>8
    <3>. QED
      BY <2>0, <2>1, <2>2, <3>1
  <2>4. gt[k - 1] \in Seq(S) /\ f[t[k]] \in Seq(S)
    BY <1>2, <1>7, <2>1
  <2>5. (gs[M] \o gt[k - 1]) \o f[t[k]] = gs[M] \o (gt[k - 1] \o f[t[k]])
    <3>1. Associates(S)
      BY Associative
    <3>. QED
      BY <1>12, <2>4, <3>1 DEF Associates
  <2>6. g[M + (k - 1)] = gs[M] \o gt[k - 1]
    BY <1>14
  <2>7. gt[k] = gt[k - 1] \o f[t[k]]
    BY <1>7
  <2>8. g[M + k] = gs[M] \o gt[k]
    BY <2>3, <2>5, <2>6, <2>7
  <2>. QED
    BY <2>1, <2>8
<1>15. \A k \in 0..N : k \in T2
  <2>. HIDE DEF T2
  <2>. QED
    BY <1>2, <1>13, <1>14, UpTo
<1>16. g[M + N] = gs[M] \o gt[N]
  <2>1. N \in 0..N
    BY <1>2
  <2>. QED
    BY <1>15, <2>1
<1>. QED
  BY <1>6, <1>7, <1>8, <1>16 DEF u

LEMMA ApplyApply ==
  ASSUME NEW S, NEW f \in [S -> Seq(S)], NEW h \in [S -> Seq(S)], NEW e \in [S -> Seq(S)],
         \A w \in S : e[w] = Apply(h, f[w]), NEW ws \in Seq(S)
  PROVE  Apply(h, Apply(f, ws)) = Apply(e, ws)
<1>. DEFINE N == Len(ws)
<1>3. N \in Nat /\ \A k \in 1..N : ws[k] \in S /\ f[ws[k]] \in Seq(S)
  OBVIOUS
<1>4. PICK g : Applied(S, f, ws, g)
  BY ApplyRun
<1>5. PICK j : Applied(S, e, ws, j)
  BY ApplyRun
<1>6. /\ g \in [0..N -> Seq(S)] /\ g[0] = <<>> /\ Apply(f, ws) = g[N]
      /\ \A k \in 1..N : g[k] = g[k - 1] \o f[ws[k]]
  BY <1>4 DEF Applied
<1>7. /\ j[0] = <<>> /\ Apply(e, ws) = j[N]
      /\ \A k \in 1..N : j[k] = j[k - 1] \o e[ws[k]]
  BY <1>5 DEF Applied
<1>. HIDE DEF N
<1>. DEFINE T == {k \in 0..N : Apply(h, g[k]) = j[k]}
<1>8. 0 \in T
  BY <1>3, <1>6, <1>7, ApplyNone
<1>9. ASSUME NEW k \in 1..N, k - 1 \in T PROVE k \in T
  <2>1. k \in 0..N /\ k - 1 \in 0..N
    BY <1>3
  <2>2. g[k - 1] \in Seq(S) /\ f[ws[k]] \in Seq(S)
    BY <1>3, <1>6, <2>1
  <2>3. Apply(h, g[k - 1] \o f[ws[k]]) = Apply(h, g[k - 1]) \o Apply(h, f[ws[k]])
    <3>1. PICK a \in Seq(S), b \in Seq(S) : a = g[k - 1] /\ b = f[ws[k]]
      BY <2>2
    <3>2. Apply(h, a \o b) = Apply(h, a) \o Apply(h, b)
      BY ApplyConcat
    <3>. QED
      BY <3>1, <3>2
  <2>4. e[ws[k]] = Apply(h, f[ws[k]])
    BY <1>3
  <2>5. g[k] = g[k - 1] \o f[ws[k]] /\ j[k] = j[k - 1] \o e[ws[k]] /\ Apply(h, g[k - 1]) = j[k - 1]
    BY <1>6, <1>7, <1>9
  <2>6. Apply(h, g[k]) = j[k]
    BY <2>3, <2>4, <2>5
  <2>. QED
    BY <2>1, <2>6
<1>10. \A k \in 0..N : k \in T
  <2>. HIDE DEF T
  <2>. QED
    BY <1>3, <1>8, <1>9, UpTo
<1>11. Apply(h, g[N]) = j[N]
  <2>1. N \in 0..N
    BY <1>3
  <2>. QED
    BY <1>10, <2>1
<1>. QED
  BY <1>6, <1>7, <1>11

DictRun(words, dict, f) ==
    f = [s \in SUBSET DOMAIN dict |->
            IF s = {} THEN words
            ELSE subst_opt(f[s \ {Max(s)}], dict[Max(s)].k, dict[Max(s)].v)]

LEMMA FoldDict ==
  ASSUME NEW words, NEW dict, \E g : DictRun(words, dict, g)
  PROVE  \E f : DictRun(words, dict, f) /\ subst_dict(words, dict) = f[DOMAIN dict]
  BY DEF subst_dict, FoldLeft, MapThenFoldSet, DictRun

OneWord(S, name, replacement) == [w \in S |-> IF w = Hole(name) THEN replacement ELSE <<w>>]

LEMMA OneWordType ==
  ASSUME NEW S, NEW name, NEW replacement \in Seq(S)
  PROVE  OneWord(S, name, replacement) \in [S -> Seq(S)]
  BY DEF OneWord

LEMMA SubstIsApply ==
  ASSUME NEW S, NEW name, NEW replacement, NEW ws \in Seq(S)
  PROVE  subst_opt(ws, name, replacement) = Apply(OneWord(S, name, replacement), ws)
<1>1. \A i \in DOMAIN ws : ws[i] \in S
  OBVIOUS
<1>2. [i \in DOMAIN ws |-> IF ws[i] = Hole(name) THEN replacement ELSE <<ws[i]>>]
        = [i \in DOMAIN ws |-> OneWord(S, name, replacement)[ws[i]]]
  BY <1>1 DEF OneWord
<1>. QED
  BY <1>2 DEF subst_opt, Apply

\* The dictionary's texts have none of its keys, and a key has one text.
DictOver(S, dict) ==
    /\ Len(dict) \in Nat /\ DOMAIN dict = 1..Len(dict)
    /\ \A i \in DOMAIN dict : dict[i].v \in Seq(S)
    /\ \A i, j \in DOMAIN dict : dict[i].k = dict[j].k => dict[i].v = dict[j].v
    /\ \A i, j \in DOMAIN dict : \A n \in DOMAIN dict[i].v : dict[i].v[n] # Hole(dict[j].k)

\* What the first k entries of a dictionary make of a word.
Value(S, dict, k) ==
    [w \in S |-> IF \E i \in 1..k : w = Hole(dict[i].k) THEN Lookup(dict, w[2]) ELSE <<w>>]

Fills(S, dict, k, v) ==
    /\ \A w \in S : \A i \in 1..k : w = Hole(dict[i].k) => v[w] = dict[i].v
    /\ \A w \in S : (\A i \in 1..k : w # Hole(dict[i].k)) => v[w] = <<w>>

LEMMA ValueFacts ==
  ASSUME NEW S, NEW dict, DictOver(S, dict), NEW k \in 0..Len(dict)
  PROVE  Value(S, dict, k) \in [S -> Seq(S)] /\ Fills(S, dict, k, Value(S, dict, k))
<1>1. 1..k \subseteq DOMAIN dict
  BY DEF DictOver
<1>2. ASSUME NEW w \in S, NEW i \in 1..k, w = Hole(dict[i].k)
      PROVE  Lookup(dict, w[2]) = dict[i].v
  <2>1. w[2] = dict[i].k /\ i \in DOMAIN dict
    BY <1>1, <1>2 DEF Hole
  <2>2. \E n \in DOMAIN dict : dict[n].k = w[2]
    BY <2>1
  <2>. DEFINE n == CHOOSE j \in DOMAIN dict : dict[j].k = w[2]
  <2>3. n \in DOMAIN dict /\ dict[n].k = w[2]
    BY <2>2
  <2>4. Lookup(dict, w[2]) = dict[n].v
    BY DEF Lookup
  <2>. HIDE DEF n
  <2>. QED
    BY <2>1, <2>3, <2>4 DEF DictOver
<1>3. \A w \in S : \A i \in 1..k : w = Hole(dict[i].k) => Value(S, dict, k)[w] = dict[i].v
  BY <1>2 DEF Value
<1>4. \A w \in S : (\A i \in 1..k : w # Hole(dict[i].k)) => Value(S, dict, k)[w] = <<w>>
  BY DEF Value
<1>5. \A w \in S : Value(S, dict, k)[w] \in Seq(S)
  <2>. TAKE w \in S
  <2>1. CASE \E i \in 1..k : w = Hole(dict[i].k)
    <3>1. PICK i \in 1..k : w = Hole(dict[i].k)
      BY <2>1
    <3>. QED
      BY <1>1, <1>3, <3>1 DEF DictOver
  <2>2. CASE \A i \in 1..k : w # Hole(dict[i].k)
    <3>1. <<w>> \in Seq(S)
      OBVIOUS
    <3>2. Value(S, dict, k)[w] = <<w>>
      BY <1>4, <2>2
    <3>. QED
      BY <3>1, <3>2
  <2>. QED
    BY <2>1, <2>2
<1>6. DOMAIN Value(S, dict, k) = S /\ Value(S, dict, k) = [w \in S |-> Value(S, dict, k)[w]]
  BY DEF Value
<1>. QED
  BY <1>3, <1>4, <1>5, <1>6 DEF Fills

LEMMA DictRunExists ==
  ASSUME NEW S, NEW ws \in Seq(S), NEW dict, DictOver(S, dict)
  PROVE  \E g : DictRun(ws, dict, g)
<1>. DEFINE N == Len(dict)
            G == [k \in 1..N |-> [x \in Seq(S) |-> subst_opt(x, dict[k].k, dict[k].v)]]
<1>1. N \in Nat /\ DOMAIN dict = 1..N /\ \A k \in 1..N : dict[k].v \in Seq(S)
  BY DEF DictOver
<1>2. ASSUME NEW k \in 1..N, NEW x \in Seq(S)
      PROVE  subst_opt(x, dict[k].k, dict[k].v) \in Seq(S)
  <2>1. OneWord(S, dict[k].k, dict[k].v) \in [S -> Seq(S)]
    BY <1>1, OneWordType
  <2>2. Apply(OneWord(S, dict[k].k, dict[k].v), x) \in Seq(S)
    BY <2>1, ApplyType
  <2>. QED
    BY <2>2, SubstIsApply
<1>3. G \in [1..N -> [Seq(S) -> Seq(S)]]
  BY <1>2
<1>4. PICK h : FoldTable(Seq(S), ws, N, G, h)
  <2>. HIDE DEF G, N
  <2>. QED
    BY <1>1, <1>3, Iterated
<1>5. /\ h \in [SUBSET (1..N) -> Seq(S)] /\ h[{}] = ws
      /\ \A s \in SUBSET (1..N) : s # {} => h[s] = G[Max(s)][h[s \ {Max(s)}]]
  BY <1>4 DEF FoldTable
<1>6. ASSUME NEW s \in SUBSET (1..N), s # {}
      PROVE  h[s] = subst_opt(h[s \ {Max(s)}], dict[Max(s)].k, dict[Max(s)].v)
  <2>1. Max(s) \in 1..N
    BY <1>1, <1>6, MaxIn
  <2>2. h[s \ {Max(s)}] \in Seq(S)
    BY <1>5
  <2>3. h[s] = G[Max(s)][h[s \ {Max(s)}]]
    BY <1>5, <1>6
  <2>. QED
    BY <2>1, <2>2, <2>3
<1>7. h = [s \in SUBSET (1..N) |->
            IF s = {} THEN ws
            ELSE subst_opt(h[s \ {Max(s)}], dict[Max(s)].k, dict[Max(s)].v)]
  <2>. HIDE DEF G, N
  <2>. QED
    BY <1>5, <1>6
<1>8. DictRun(ws, dict, h)
  BY <1>1, <1>7 DEF DictRun
<1>. QED
  BY <1>8

\* A dictionary is filled in as if all its entries were at once.
LEMMA SubstDict ==
  ASSUME NEW S, NEW ws \in Seq(S), NEW dict, DictOver(S, dict)
  PROVE  subst_dict(ws, dict) = Apply(Value(S, dict, Len(dict)), ws)
<1>. DEFINE N == Len(dict)
<1>1. N \in Nat /\ DOMAIN dict = 1..N /\ \A k \in 1..N : dict[k].v \in Seq(S)
  BY DEF DictOver
<1>2. PICK f : DictRun(ws, dict, f) /\ subst_dict(ws, dict) = f[DOMAIN dict]
  BY DictRunExists, FoldDict
<1>. HIDE DEF N
<1>3. /\ f[{}] = ws
      /\ \A s \in SUBSET (1..N) : s # {} =>
            f[s] = subst_opt(f[s \ {Max(s)}], dict[Max(s)].k, dict[Max(s)].v)
  BY <1>1, <1>2 DEF DictRun
<1>4. ASSUME NEW k \in 1..N
      PROVE  f[1..k] = subst_opt(f[1..(k - 1)], dict[k].k, dict[k].v)
  <2>1. (1..k) \in SUBSET (1..N) /\ k \in 1..k /\ k \in Nat \ {0}
    BY <1>1
  <2>2. 1..k # {}
    BY <2>1
  <2>3. Max(1..k) = k /\ (1..k) \ {k} = 1..(k - 1)
    BY <2>1, LastOf
  <2>4. f[1..k] = subst_opt(f[(1..k) \ {Max(1..k)}], dict[Max(1..k)].k, dict[Max(1..k)].v)
    BY <1>3, <2>1, <2>2
  <2>. QED
    BY <2>3, <2>4
<1>. DEFINE T == {k \in 0..N : f[1..k] = Apply(Value(S, dict, k), ws)}
<1>5. 0 \in T
  <2>1. 1..0 = {} /\ 0 \in 0..N /\ 0 \in 0..Len(dict)
    BY <1>1 DEF N
  <2>2. Value(S, dict, 0) \in [S -> Seq(S)]
    BY <2>1, ValueFacts
  <2>3. \A i \in DOMAIN ws : Value(S, dict, 0)[ws[i]] = <<ws[i]>>
    <3>1. Fills(S, dict, 0, Value(S, dict, 0))
      BY <2>1, ValueFacts
    <3>2. \A i \in DOMAIN ws : ws[i] \in S
      OBVIOUS
    <3>. QED
      BY <2>1, <3>1, <3>2 DEF Fills
  <2>4. Apply(Value(S, dict, 0), ws) = ws
    <3>1. PICK v \in [S -> Seq(S)] : v = Value(S, dict, 0)
      BY <2>2
    <3>2. Keeps(v, ws)
      BY <2>3, <3>1 DEF Keeps
    <3>3. Apply(v, ws) = ws
      BY <3>2, ApplySame
    <3>. QED
      BY <3>1, <3>3
  <2>. QED
    BY <1>3, <2>1, <2>4
<1>6. ASSUME NEW k \in 1..N, k - 1 \in T PROVE k \in T
  <2>. DEFINE v == Value(S, dict, k - 1)
              o == OneWord(S, dict[k].k, dict[k].v)
  <2>1. k \in 0..N /\ k - 1 \in 0..N /\ k - 1 \in 0..Len(dict) /\ k \in 0..Len(dict)
         /\ 1..k = (1..(k - 1)) \cup {k} /\ 1..k \subseteq DOMAIN dict /\ k \in DOMAIN dict
    BY <1>1 DEF N
  <2>2. v \in [S -> Seq(S)] /\ Fills(S, dict, k - 1, v)
    BY <2>1, ValueFacts
  <2>3. Value(S, dict, k) \in [S -> Seq(S)] /\ Fills(S, dict, k, Value(S, dict, k))
    BY <2>1, ValueFacts
  <2>4. o \in [S -> Seq(S)] /\ \A w \in S : o[w] = IF w = Hole(dict[k].k) THEN dict[k].v ELSE <<w>>
    BY <1>1, OneWordType DEF OneWord
  <2>. HIDE DEF v, o
  <2>5. ASSUME NEW w \in S PROVE Apply(o, v[w]) = Value(S, dict, k)[w]
    <3>1. CASE \E i \in 1..(k - 1) : w = Hole(dict[i].k)
      <4>1. PICK i \in 1..(k - 1) : w = Hole(dict[i].k)
        BY <3>1
      <4>2. i \in DOMAIN dict /\ i \in 1..k /\ v[w] = dict[i].v /\ dict[i].v \in Seq(S)
        BY <1>1, <2>1, <2>2, <4>1 DEF Fills
      <4>3. \A n \in DOMAIN dict[i].v : dict[i].v[n] # Hole(dict[k].k) /\ dict[i].v[n] \in S
        BY <2>1, <4>2 DEF DictOver
      <4>4. Keeps(o, dict[i].v)
        BY <2>4, <4>3 DEF Keeps
      <4>5. Apply(o, dict[i].v) = dict[i].v
        <5>1. o \in [S -> Seq(S)] /\ dict[i].v \in Seq(S)
          BY <2>4, <4>2
        <5>. QED
          BY <5>1, <4>4, ApplySame
      <4>. QED
        BY <2>3, <4>1, <4>2, <4>5 DEF Fills
    <3>2. CASE \A i \in 1..(k - 1) : w # Hole(dict[i].k)
      <4>1. v[w] = <<w>>
        BY <2>2, <3>2 DEF Fills
      <4>2. Apply(o, <<w>>) = o[w]
        BY <2>4, ApplyOne
      <4>3. CASE w = Hole(dict[k].k)
        <5>1. k \in 1..k
          BY <2>1
        <5>. QED
          BY <2>3, <2>4, <4>1, <4>2, <4>3, <5>1 DEF Fills
      <4>4. CASE w # Hole(dict[k].k)
        <5>1. \A i \in 1..k : w # Hole(dict[i].k)
          BY <2>1, <3>2, <4>4
        <5>. QED
          BY <2>3, <2>4, <4>1, <4>2, <4>4, <5>1 DEF Fills
      <4>. QED
        BY <4>3, <4>4
    <3>. QED
      BY <3>1, <3>2
  <2>7. Apply(o, Apply(v, ws)) = Apply(Value(S, dict, k), ws)
    <3>1. v \in [S -> Seq(S)] /\ o \in [S -> Seq(S)] /\ Value(S, dict, k) \in [S -> Seq(S)]
      BY <2>2, <2>3, <2>4
    <3>. QED
      BY <2>5, <3>1, ApplyApply
  <2>8. Apply(v, ws) \in Seq(S)
    BY <2>2, ApplyType
  <2>9. f[1..k] = Apply(o, Apply(v, ws))
    <3>1. f[1..(k - 1)] = Apply(v, ws)
      BY <1>6 DEF v
    <3>2. f[1..k] = subst_opt(Apply(v, ws), dict[k].k, dict[k].v)
      BY <1>4, <3>1
    <3>3. subst_opt(Apply(v, ws), dict[k].k, dict[k].v) = Apply(o, Apply(v, ws))
      BY <2>8, SubstIsApply DEF o
    <3>. QED
      BY <3>2, <3>3
  <2>. QED
    BY <2>1, <2>7, <2>9
<1>7. \A k \in 0..N : k \in T
  <2>. HIDE DEF T
  <2>. QED
    BY <1>1, <1>5, <1>6, UpTo
<1>8. f[1..N] = Apply(Value(S, dict, N), ws)
  <2>1. N \in 0..N
    BY <1>1
  <2>. QED
    BY <1>7, <2>1
<1>. QED
  BY <1>1, <1>2, <1>8 DEF N

EnvDict(env_var, environ) ==
    [i \in DOMAIN env_var |-> [k |-> env_var[i], v |-> environ[env_var[i]]]]

LEMMA ListLen ==
  ASSUME NEW s, IsSeq(s)
  PROVE  Len(s) \in Nat /\ DOMAIN s = 1..Len(s)
  BY DEF IsSeq

\* A text without holes.
LEMMA NoHole ==
  ASSUME NEW ws, Holes(ws) = {}, NEW n \in DOMAIN ws, NEW key
  PROVE  ws[n] # Hole(key)
<1>1. ws[n] \in Range(ws)
  BY DEF Range
<1>2. ws[n][1] # "hole"
  BY <1>1 DEF Holes
<1>. QED
  BY <1>2 DEF Hole

TextsIn(S, dict) == \A n \in DOMAIN dict : dict[n].v \in Seq(S)
OptionsApart(opts) ==
    \A n \in DOMAIN opts : \A key \in Keys(opts) : Hole(key) \notin Range(opts[n].v)
Blanked(opts, enables, o) ==
    /\ Len(o) = Len(opts)
    /\ \A n \in DOMAIN opts :
          o[n].k = opts[n].k /\ o[n].v = IF opts[n].k \in enables THEN opts[n].v ELSE <<>>

LEMMA OptsDict ==
  ASSUME NEW S, NEW opts, NEW enables, IsDict(opts), TextsIn(S, opts), OptionsApart(opts)
  PROVE  /\ DictOver(S, enabled_opts(opts, enables))
         /\ Blanked(opts, enables, enabled_opts(opts, enables))
<1>. DEFINE d == enabled_opts(opts, enables)
<1>1. Len(opts) \in Nat /\ DOMAIN opts = 1..Len(opts)
  BY ListLen DEF IsDict
<1>2. d = [i \in 1..Len(opts) |-> IF opts[i].k \in enables THEN opts[i]
                                  ELSE [opts[i] EXCEPT !.v = <<>>]]
  BY <1>1 DEF enabled_opts
<1>3. Len(d) = Len(opts) /\ DOMAIN d = 1..Len(opts)
  BY <1>1, <1>2
<1>4. ASSUME NEW n \in DOMAIN opts
      PROVE  d[n].k = opts[n].k /\ d[n].v = IF opts[n].k \in enables THEN opts[n].v ELSE <<>>
  <2>1. opts[n] \in [k : {opts[n].k}, v : {opts[n].v}]
    BY DEF IsDict
  <2>2. /\ [opts[n] EXCEPT !.v = <<>>].k = opts[n].k
        /\ [opts[n] EXCEPT !.v = <<>>].v = <<>>
    BY <2>1
  <2>3. d[n] = IF opts[n].k \in enables THEN opts[n] ELSE [opts[n] EXCEPT !.v = <<>>]
    BY <1>1, <1>2
  <2>. HIDE DEF d
  <2>. QED
    BY <2>2, <2>3
<1>. HIDE DEF d
<1>5. \A i \in DOMAIN d : d[i].v \in Seq(S)
  <2>. TAKE i \in DOMAIN d
  <2>1. i \in DOMAIN opts /\ opts[i].v \in Seq(S) /\ <<>> \in Seq(S)
    BY <1>1, <1>3 DEF TextsIn
  <2>. QED
    BY <1>4, <2>1
<1>6. \A i, j \in DOMAIN d : d[i].k = d[j].k => d[i].v = d[j].v
  <2>1. \A i, j \in DOMAIN opts : opts[i].k = opts[j].k => i = j
    BY DEF IsDict
  <2>. QED
    BY <1>1, <1>3, <1>4, <2>1
<1>7. ASSUME NEW i \in DOMAIN d, NEW j \in DOMAIN d, NEW n \in DOMAIN d[i].v
      PROVE  d[i].v[n] # Hole(d[j].k)
  <2>1. i \in DOMAIN opts /\ j \in DOMAIN opts /\ d[j].k \in Keys(opts)
    BY <1>1, <1>3, <1>4 DEF Keys
  <2>2. CASE d[i].v = <<>>
    BY <1>7, <2>2
  <2>3. CASE d[i].v = opts[i].v
    <3>1. opts[i].v[n] \in Range(opts[i].v)
      BY <1>7, <2>3 DEF Range
    <3>. QED
      BY <2>1, <2>3, <3>1 DEF OptionsApart
  <2>. QED
    BY <1>4, <2>1, <2>2, <2>3
<1>. QED
  BY <1>1, <1>3, <1>4, <1>5, <1>6, <1>7 DEF DictOver, Blanked, d

Complete(dict) == \A n \in DOMAIN dict : Holes(dict[n].v) = {}
LEMMA UserDict ==
  ASSUME NEW S, NEW user, IsDict(user), TextsIn(S, user), Complete(user)
  PROVE  DictOver(S, user)
<1>1. Len(user) \in Nat /\ DOMAIN user = 1..Len(user)
  BY ListLen DEF IsDict
<1>2. \A i, j \in DOMAIN user : user[i].k = user[j].k => user[i].v = user[j].v
  BY DEF IsDict
<1>3. \A i, j \in DOMAIN user : \A n \in DOMAIN user[i].v : user[i].v[n] # Hole(user[j].k)
  BY NoHole DEF Complete
<1>. QED
  BY <1>1, <1>2, <1>3 DEF DictOver, TextsIn

EnvironOver(S, environ) ==
    \A x \in DOMAIN environ : environ[x] \in Seq(S) /\ Holes(environ[x]) = {}
FromEnviron(env_var, environ, d) ==
    /\ Len(d) = Len(env_var)
    /\ \A i \in DOMAIN env_var : d[i].k = env_var[i] /\ d[i].v = environ[env_var[i]]

LEMMA EnvironDict ==
  ASSUME NEW S, NEW env_var, NEW environ, IsSeq(env_var), ~env_missing(env_var, environ),
         EnvironOver(S, environ)
  PROVE  /\ DictOver(S, EnvDict(env_var, environ))
         /\ FromEnviron(env_var, environ, EnvDict(env_var, environ))
<1>. DEFINE d == EnvDict(env_var, environ)
<1>1. Len(env_var) \in Nat /\ DOMAIN env_var = 1..Len(env_var)
  BY ListLen
<1>2. \A i \in DOMAIN env_var : env_var[i] \in DOMAIN environ
  BY DEF env_missing
<1>3. Len(d) = Len(env_var) /\ DOMAIN d = 1..Len(env_var)
  BY <1>1 DEF EnvDict
<1>4. \A i \in DOMAIN env_var : d[i].k = env_var[i] /\ d[i].v = environ[env_var[i]]
  BY DEF EnvDict
<1>. HIDE DEF d
<1>5. \A i \in DOMAIN d : d[i].v \in Seq(S) /\ Holes(d[i].v) = {}
  BY <1>1, <1>2, <1>3, <1>4 DEF EnvironOver
<1>6. \A i, j \in DOMAIN d : d[i].k = d[j].k => d[i].v = d[j].v
  BY <1>1, <1>3, <1>4
<1>7. \A i, j \in DOMAIN d : \A n \in DOMAIN d[i].v : d[i].v[n] # Hole(d[j].k)
  BY <1>5, NoHole
<1>. QED
  BY <1>1, <1>3, <1>4, <1>5, <1>6, <1>7 DEF DictOver, FromEnviron, d

\* What FilledIn takes the word w for, when no option has it.
Standing(user, env_var, environ, w) ==
    IF w[1] = "text" THEN <<w>>
    ELSE IF w[2] \in Keys(user) THEN Lookup(user, w[2])
    ELSE IF w[2] \in Range(env_var) \cap DOMAIN environ THEN environ[w[2]] ELSE <<w>>

LEMMA Resolved ==
  ASSUME NEW S, NEW user, NEW env_var, NEW environ, NEW d,
         IsDict(user), DictOver(S, user), Complete(user),
         IsSeq(env_var), ~env_missing(env_var, environ),
         DictOver(S, d), FromEnviron(env_var, environ, d),
         NEW w \in S, w \in {Hole(w[2]), Text(w[2])}
  PROVE  Apply(Value(S, d, Len(d)), Value(S, user, Len(user))[w])
           = Standing(user, env_var, environ, w)
<1>1. PICK u : u = Value(S, user, Len(user))
  OBVIOUS
<1>2. PICK e : e = Value(S, d, Len(d))
  OBVIOUS
<1>3. /\ Len(user) \in 0..Len(user) /\ Len(d) \in 0..Len(d)
      /\ DOMAIN user = 1..Len(user) /\ DOMAIN d = 1..Len(d) /\ DOMAIN d = DOMAIN env_var
  BY ListLen DEF DictOver, FromEnviron
<1>4. u \in [S -> Seq(S)] /\ Fills(S, user, Len(user), u)
  BY <1>1, <1>3, ValueFacts
<1>5. e \in [S -> Seq(S)] /\ Fills(S, d, Len(d), e)
  BY <1>2, <1>3, ValueFacts
<1>6. /\ w = Text(w[2]) => w[1] = "text" /\ \A key : w # Hole(key)
      /\ w = Hole(w[2]) => w[1] = "hole" /\ \A key : w = Hole(key) <=> key = w[2]
  BY DEF Text, Hole
<1>7. CASE \E i \in DOMAIN user : w = Hole(user[i].k)
  <2>1. PICK i \in DOMAIN user : w = Hole(user[i].k)
    BY <1>7
  <2>2. u[w] = user[i].v /\ user[i].v \in Seq(S)
    BY <1>3, <1>4, <2>1 DEF Fills, DictOver
  <2>3. w[1] = "hole" /\ w[2] = user[i].k /\ w[2] \in Keys(user)
    BY <2>1 DEF Hole, Keys
  <2>4. Lookup(user, w[2]) = user[i].v
    BY <2>1, <2>3 DEF Lookup, IsDict
  <2>5. Keeps(e, user[i].v)
    <3>1. ASSUME NEW n \in DOMAIN user[i].v PROVE e[user[i].v[n]] = <<user[i].v[n]>>
      <4>1. user[i].v[n] \in S
        BY <2>2
      <4>2. \A key : user[i].v[n] # Hole(key)
        BY <2>1, NoHole DEF Complete
      <4>. QED
        BY <1>5, <4>1, <4>2 DEF Fills
    <3>. QED
      BY <3>1 DEF Keeps
  <2>6. Apply(e, user[i].v) = user[i].v
    BY <1>5, <2>2, <2>5, ApplySame
  <2>. QED
    BY <1>1, <1>2, <2>2, <2>3, <2>4, <2>6 DEF Standing
<1>8. CASE \A i \in DOMAIN user : w # Hole(user[i].k)
  <2>1. u[w] = <<w>>
    BY <1>3, <1>4, <1>8 DEF Fills
  <2>2. Apply(e, <<w>>) = e[w]
    BY <1>5, ApplyOne
  <2>3. CASE w = Text(w[2])
    <3>1. e[w] = <<w>>
      BY <1>5, <1>6, <2>3 DEF Fills
    <3>. QED
      BY <1>1, <1>2, <1>6, <2>1, <2>2, <2>3, <3>1 DEF Standing
  <2>4. CASE w = Hole(w[2])
    <3>1. w[2] \notin Keys(user) /\ w[1] # "text"
      BY <1>6, <1>8, <2>4 DEF Keys
    <3>2. CASE w[2] \in Range(env_var)
      <4>1. PICK i \in DOMAIN env_var : env_var[i] = w[2]
        BY <3>2 DEF Range
      <4>2. i \in 1..Len(d) /\ w = Hole(d[i].k) /\ d[i].v = environ[w[2]]
        BY <1>3, <2>4, <4>1 DEF FromEnviron
      <4>3. e[w] = environ[w[2]]
        BY <1>5, <4>2 DEF Fills
      <4>4. w[2] \in DOMAIN environ
        BY <4>1 DEF env_missing
      <4>. QED
        BY <1>1, <1>2, <2>1, <2>2, <3>1, <3>2, <4>3, <4>4 DEF Standing
    <3>3. CASE w[2] \notin Range(env_var)
      <4>1. \A i \in 1..Len(d) : w # Hole(d[i].k)
        <5>1. ASSUME NEW i \in 1..Len(d), w = Hole(d[i].k) PROVE FALSE
          <6>1. i \in DOMAIN env_var /\ d[i].k = w[2]
            BY <1>3, <1>6, <2>4, <5>1 DEF FromEnviron
          <6>. QED
            BY <3>3, <6>1 DEF Range, FromEnviron
        <5>. QED
          BY <5>1
      <4>2. e[w] = <<w>>
        BY <1>5, <4>1 DEF Fills
      <4>. QED
        BY <1>1, <1>2, <2>1, <2>2, <3>1, <3>3, <4>2 DEF Standing
    <3>. QED
      BY <3>2, <3>3
  <2>. QED
    BY <2>3, <2>4
<1>. QED
  BY <1>7, <1>8

\* All the words of a command, its options and its values.
ValueWords(dict) == UNION {Range(dict[n].v) : n \in DOMAIN dict}
EnvironWords(environ) == UNION {Range(environ[n]) : n \in DOMAIN environ}
WordsOf(i) ==
    Range(i.cmd) \cup ValueWords(i.opts) \cup ValueWords(i.user) \cup EnvironWords(i.environ)

LEMMA OverWords ==
  ASSUME NEW i, IsCommand(i)
  PROVE  /\ i.cmd \in Seq(WordsOf(i))
         /\ \A n \in DOMAIN i.opts : i.opts[n].v \in Seq(WordsOf(i))
         /\ \A n \in DOMAIN i.user : i.user[n].v \in Seq(WordsOf(i))
         /\ \A n \in DOMAIN i.environ : i.environ[n] \in Seq(WordsOf(i))
         /\ \A w \in WordsOf(i) : w \in {Hole(w[2]), Text(w[2])}
<1>1. \A ws : IsText(ws) /\ Range(ws) \subseteq WordsOf(i) => ws \in Seq(WordsOf(i))
  BY SeqMonotonic DEF IsText, IsSeq
<1>2. IsText(i.cmd) /\ Range(i.cmd) \subseteq WordsOf(i)
  BY DEF IsCommand, WordsOf
<1>3. ASSUME NEW n \in DOMAIN i.opts
      PROVE  IsText(i.opts[n].v) /\ Range(i.opts[n].v) \subseteq WordsOf(i)
  <2>1. IsText(i.opts[n].v)
    BY DEF IsCommand, IsDict
  <2>2. Range(i.opts[n].v) \subseteq ValueWords(i.opts)
    BY DEF ValueWords
  <2>. QED
    BY <2>1, <2>2 DEF WordsOf
<1>4. ASSUME NEW n \in DOMAIN i.user
      PROVE  IsText(i.user[n].v) /\ Range(i.user[n].v) \subseteq WordsOf(i)
  <2>1. IsText(i.user[n].v)
    BY DEF IsCommand, IsDict
  <2>2. Range(i.user[n].v) \subseteq ValueWords(i.user)
    BY DEF ValueWords
  <2>. QED
    BY <2>1, <2>2 DEF WordsOf
<1>5. ASSUME NEW n \in DOMAIN i.environ
      PROVE  IsText(i.environ[n]) /\ Range(i.environ[n]) \subseteq WordsOf(i)
  <2>1. IsText(i.environ[n])
    BY DEF IsCommand
  <2>2. Range(i.environ[n]) \subseteq EnvironWords(i.environ)
    BY DEF EnvironWords
  <2>. QED
    BY <2>1, <2>2 DEF WordsOf
<1>6. \A w \in WordsOf(i) : w \in {Hole(w[2]), Text(w[2])}
  <2>1. \A ws : IsText(ws) => \A w \in Range(ws) : w \in {Hole(w[2]), Text(w[2])}
    BY DEF IsText
  <2>2. ASSUME NEW w \in WordsOf(i) PROVE \E ws : IsText(ws) /\ w \in Range(ws)
    <3>1. CASE w \in Range(i.cmd)
      BY <1>2, <3>1
    <3>2. CASE w \in ValueWords(i.opts)
      BY <1>3, <3>2 DEF ValueWords
    <3>3. CASE w \in ValueWords(i.user)
      BY <1>4, <3>3 DEF ValueWords
    <3>4. CASE w \in EnvironWords(i.environ)
      BY <1>5, <3>4 DEF EnvironWords
    <3>. QED
      BY <3>1, <3>2, <3>3, <3>4 DEF WordsOf
  <2>. QED
    BY <2>1, <2>2
<1>. QED
  BY <1>1, <1>2, <1>3, <1>4, <1>5, <1>6

\* What FilledIn takes the command for.
Expanded(i) ==
    FlattenSeq([n \in DOMAIN i.cmd |->
        IF i.cmd[n][1] = "hole" /\ i.cmd[n][2] \in Keys(i.opts)
        THEN IF i.cmd[n][2] \in i.enables
             THEN FlattenSeq([m \in DOMAIN Lookup(i.opts, i.cmd[n][2]) |->
                      Standing(i.user, i.env_var, i.environ, Lookup(i.opts, i.cmd[n][2])[m])])
             ELSE <<>>
        ELSE Standing(i.user, i.env_var, i.environ, i.cmd[n])])

LEMMA FilledIs ==
  ASSUME NEW i
  PROVE  FilledIn(i.cmd, i.opts, i.enables, i.user, i.env_var, i.environ) <=>
            LET got == get_tool_cmd(i.cmd, i.opts, i.enables, i.user, i.env_var, i.environ) IN
            /\ ~got.error => got.words = Expanded(i)
            /\ Holes(Expanded(i)) # {} => got.error
            /\ got.error => Holes(Expanded(i)) # {} \/ env_missing(i.env_var, i.environ)
  BY DEF FilledIn, Expanded, Standing

LEMMA FillIs ==
  ASSUME NEW i, IsCommand(i), ~env_missing(i.env_var, i.environ)
  PROVE  fill(i.cmd, i.opts, i.enables, i.user, i.env_var, i.environ) = Expanded(i)
<1>. DEFINE S == WordsOf(i)
<1>1. PICK o : o = enabled_opts(i.opts, i.enables)
  OBVIOUS
<1>2. PICK d : d = EnvDict(i.env_var, i.environ)
  OBVIOUS
<1>3. /\ i.cmd \in Seq(S)
      /\ \A n \in DOMAIN i.opts : i.opts[n].v \in Seq(S)
      /\ \A n \in DOMAIN i.user : i.user[n].v \in Seq(S)
      /\ \A n \in DOMAIN i.environ : i.environ[n] \in Seq(S)
      /\ \A w \in S : w \in {Hole(w[2]), Text(w[2])}
  BY OverWords
<1>. HIDE DEF S
<1>25. /\ IsDict(i.opts) /\ TextsIn(S, i.opts) /\ OptionsApart(i.opts)
       /\ IsDict(i.user) /\ TextsIn(S, i.user) /\ Complete(i.user)
       /\ IsSeq(i.env_var) /\ EnvironOver(S, i.environ)
  BY <1>3 DEF IsCommand, TextsIn, OptionsApart, Complete, EnvironOver
<1>26. DictOver(S, o) /\ Blanked(i.opts, i.enables, o)
  BY <1>1, <1>25, OptsDict
<1>4. /\ DictOver(S, o) /\ Len(o) = Len(i.opts)
      /\ \A n \in DOMAIN i.opts :
            o[n].k = i.opts[n].k /\ o[n].v = IF i.opts[n].k \in i.enables THEN i.opts[n].v ELSE <<>>
  BY <1>26 DEF Blanked
<1>5. DictOver(S, i.user)
  BY <1>25, UserDict
<1>27. DictOver(S, d) /\ FromEnviron(i.env_var, i.environ, d)
  BY <1>2, <1>25, EnvironDict
<1>6. DictOver(S, d) /\ Len(d) = Len(i.env_var)
  BY <1>27 DEF FromEnviron
<1>7. /\ DOMAIN i.opts = 1..Len(i.opts) /\ DOMAIN i.env_var = 1..Len(i.env_var)
      /\ DOMAIN o = 1..Len(o) /\ DOMAIN d = 1..Len(d)
      /\ Len(o) \in 0..Len(o) /\ Len(d) \in 0..Len(d) /\ Len(i.user) \in 0..Len(i.user)
  BY <1>4, <1>5, <1>6, ListLen DEF IsCommand, IsDict, DictOver
<1>8. PICK vo : vo = Value(S, o, Len(o))
  OBVIOUS
<1>9. PICK vu : vu = Value(S, i.user, Len(i.user))
  OBVIOUS
<1>10. PICK vd : vd = Value(S, d, Len(d))
  OBVIOUS
<1>11. vo \in [S -> Seq(S)] /\ Fills(S, o, Len(o), vo)
  BY <1>4, <1>7, <1>8, ValueFacts
<1>12. vu \in [S -> Seq(S)]
  BY <1>5, <1>7, <1>9, ValueFacts
<1>13. vd \in [S -> Seq(S)]
  BY <1>6, <1>7, <1>10, ValueFacts
<1>14. fill(i.cmd, i.opts, i.enables, i.user, i.env_var, i.environ)
         = Apply(vd, Apply(vu, Apply(vo, i.cmd)))
  <2>1. subst_dict(i.cmd, o) = Apply(vo, i.cmd)
    BY <1>3, <1>4, <1>8, SubstDict
  <2>2. Apply(vo, i.cmd) \in Seq(S)
    BY <1>3, <1>11, ApplyType
  <2>3. subst_dict(Apply(vo, i.cmd), i.user) = Apply(vu, Apply(vo, i.cmd))
    BY <1>5, <1>9, <2>2, SubstDict
  <2>4. Apply(vu, Apply(vo, i.cmd)) \in Seq(S)
    BY <1>12, <2>2, ApplyType
  <2>5. subst_dict(Apply(vu, Apply(vo, i.cmd)), d) = Apply(vd, Apply(vu, Apply(vo, i.cmd)))
    BY <1>6, <1>10, <2>4, SubstDict
  <2>6. fill(i.cmd, i.opts, i.enables, i.user, i.env_var, i.environ)
          = subst_dict(subst_dict(subst_dict(i.cmd, o), i.user), d)
    BY <1>1, <1>2 DEF fill, EnvDict
  <2>. QED
    BY <2>1, <2>3, <2>5, <2>6
<1>15. PICK vs : vs = [w \in S |-> Apply(vd, vu[w])]
  OBVIOUS
<1>16. vs \in [S -> Seq(S)] /\ \A w \in S : vs[w] = Apply(vd, vu[w])
  <2>1. \A w \in S : Apply(vd, vu[w]) \in Seq(S)
    BY <1>12, <1>13, ApplyType
  <2>. QED
    BY <1>15, <2>1
<1>17. \A w \in S : vs[w] = Standing(i.user, i.env_var, i.environ, w)
  <2>3. ASSUME NEW w \in S
        PROVE  Apply(Value(S, d, Len(d)), Value(S, i.user, Len(i.user))[w])
                 = Standing(i.user, i.env_var, i.environ, w)
    <3>1. w \in {Hole(w[2]), Text(w[2])}
      BY <1>3
    <3>. QED
      BY <1>5, <1>25, <1>27, <3>1, Resolved
  <2>. QED
    BY <1>9, <1>10, <1>16, <2>3
<1>18. \A ws \in Seq(S) : Apply(vd, Apply(vu, ws)) = Apply(vs, ws)
  BY <1>12, <1>13, <1>16, ApplyApply
<1>19. PICK vf : vf = [w \in S |-> Apply(vs, vo[w])]
  OBVIOUS
<1>20. vf \in [S -> Seq(S)] /\ \A w \in S : vf[w] = Apply(vs, vo[w])
  <2>1. \A w \in S : Apply(vs, vo[w]) \in Seq(S)
    BY <1>11, <1>16, ApplyType
  <2>. QED
    BY <1>19, <2>1
<1>21. Apply(vd, Apply(vu, Apply(vo, i.cmd))) = Apply(vf, i.cmd)
  <2>1. Apply(vo, i.cmd) \in Seq(S)
    BY <1>3, <1>11, ApplyType
  <2>2. Apply(vs, Apply(vo, i.cmd)) = Apply(vf, i.cmd)
    BY <1>3, <1>11, <1>16, <1>20, ApplyApply
  <2>. QED
    BY <1>18, <2>1, <2>2
<1>22. \A ws \in Seq(S) : Apply(vs, ws) =
          FlattenSeq([m \in DOMAIN ws |-> Standing(i.user, i.env_var, i.environ, ws[m])])
  <2>1. ASSUME NEW ws \in Seq(S)
        PROVE  [m \in DOMAIN ws |-> vs[ws[m]]]
                 = [m \in DOMAIN ws |-> Standing(i.user, i.env_var, i.environ, ws[m])]
    <3>1. \A m \in DOMAIN ws : ws[m] \in S
      OBVIOUS
    <3>. QED
      BY <1>17, <3>1
  <2>. QED
    BY <2>1 DEF Apply
<1>23. ASSUME NEW w \in S
       PROVE  vf[w] = IF w[1] = "hole" /\ w[2] \in Keys(i.opts)
                      THEN IF w[2] \in i.enables
                           THEN FlattenSeq([m \in DOMAIN Lookup(i.opts, w[2]) |->
                                  Standing(i.user, i.env_var, i.environ, Lookup(i.opts, w[2])[m])])
                           ELSE <<>>
                      ELSE Standing(i.user, i.env_var, i.environ, w)
  <2>1. vf[w] = Apply(vs, vo[w])
    BY <1>20
  <2>2. CASE w[1] = "hole" /\ w[2] \in Keys(i.opts)
    <3>1. PICK n \in DOMAIN i.opts : i.opts[n].k = w[2]
      BY <2>2 DEF Keys
    <3>2. w = Hole(w[2])
      BY <1>3, <2>2 DEF Hole, Text
    <3>3. n \in 1..Len(o) /\ w = Hole(o[n].k) /\ o[n].v = IF w[2] \in i.enables THEN i.opts[n].v ELSE <<>>
      BY <1>4, <1>7, <3>1, <3>2
    <3>4. vo[w] = o[n].v
      BY <1>11, <3>3 DEF Fills
    <3>5. \A j \in DOMAIN i.opts : i.opts[j].k = w[2] => j = n
      BY <3>1 DEF IsCommand, IsDict
    <3>6. Lookup(i.opts, w[2]) = i.opts[n].v
      BY <3>1, <3>5 DEF Lookup
    <3>7. CASE w[2] \in i.enables
      <4>1. vf[w] = Apply(vs, Lookup(i.opts, w[2])) /\ Lookup(i.opts, w[2]) \in Seq(S)
        BY <1>3, <2>1, <3>1, <3>3, <3>4, <3>6, <3>7
      <4>2. vf[w] = FlattenSeq([m \in DOMAIN Lookup(i.opts, w[2]) |->
                        Standing(i.user, i.env_var, i.environ, Lookup(i.opts, w[2])[m])])
        BY <1>22, <4>1
      <4>. QED
        BY <2>2, <3>7, <4>2
    <3>8. CASE w[2] \notin i.enables
      <4>1. vf[w] = Apply(vs, <<>>)
        BY <2>1, <3>3, <3>4, <3>8
      <4>2. Apply(vs, <<>>) = <<>>
        BY <1>16, ApplyNone
      <4>. QED
        BY <2>2, <3>8, <4>1, <4>2
    <3>. QED
      BY <3>7, <3>8
  <2>3. CASE ~(w[1] = "hole" /\ w[2] \in Keys(i.opts))
    <3>1. \A n \in 1..Len(o) : w # Hole(o[n].k)
      <4>1. ASSUME NEW n \in 1..Len(o), w = Hole(o[n].k) PROVE FALSE
        <5>1. n \in DOMAIN i.opts /\ o[n].k = i.opts[n].k
          BY <1>4, <1>7
        <5>2. w[1] = "hole" /\ w[2] = i.opts[n].k
          BY <4>1, <5>1 DEF Hole
        <5>. QED
          BY <2>3, <5>1, <5>2 DEF Keys
      <4>. QED
        BY <4>1
    <3>2. vo[w] = <<w>>
      BY <1>11, <3>1 DEF Fills
    <3>3. Apply(vs, <<w>>) = vs[w]
      BY <1>16, ApplyOne
    <3>. QED
      BY <1>17, <2>1, <2>3, <3>2, <3>3
  <2>. QED
    BY <2>2, <2>3
<1>24. Apply(vf, i.cmd) = Expanded(i)
  <2>1. \A n \in DOMAIN i.cmd : i.cmd[n] \in S
    BY <1>3
  <2>2. [n \in DOMAIN i.cmd |-> vf[i.cmd[n]]] = [n \in DOMAIN i.cmd |->
        IF i.cmd[n][1] = "hole" /\ i.cmd[n][2] \in Keys(i.opts)
        THEN IF i.cmd[n][2] \in i.enables
             THEN FlattenSeq([m \in DOMAIN Lookup(i.opts, i.cmd[n][2]) |->
                      Standing(i.user, i.env_var, i.environ, Lookup(i.opts, i.cmd[n][2])[m])])
             ELSE <<>>
        ELSE Standing(i.user, i.env_var, i.environ, i.cmd[n])]
    BY <1>23, <2>1
  <2>. QED
    BY <2>2 DEF Apply, Expanded
<1>. QED
  BY <1>14, <1>21, <1>24

LEMMA CommandFilled ==
  ASSUME NEW i, IsCommand(i)
  PROVE  FilledIn(i.cmd, i.opts, i.enables, i.user, i.env_var, i.environ)
<1>1. CASE env_missing(i.env_var, i.environ)
  BY <1>1, FilledIs DEF get_tool_cmd, Error
<1>2. CASE ~env_missing(i.env_var, i.environ)
  BY <1>2, FilledIs, FillIs DEF get_tool_cmd, Error
<1>. QED
  BY <1>1, <1>2

-----------------------------------------------------------------------------
(* check_tool_requirements.py: versions.                                   *)

LEMMA VersionFacts ==
  ASSUME NEW tool, NEW v \in VersionsOf(tool)
  PROVE  /\ v # Unreadable /\ v # Absent
         /\ \A i \in 1..4 : At(v, i) \in Nat
         /\ tool # "vcs" => \E n \in 1..3 : v \in [1..n -> Nat]
         /\ tool = "vcs" => v \in [1..4 -> Nat] /\ v[3] \in 0..99 /\ v[4] \in 0..99
<1>1. tool # "vcs" => \E n \in 1..3 : v \in [1..n -> Nat]
  BY DEF VersionsOf
<1>2. tool = "vcs" => v \in [1..4 -> Nat] /\ v[3] \in 0..99 /\ v[4] \in 0..99
  BY DEF VersionsOf
<1>3. PICK n \in 1..4 : v \in [1..n -> Nat]
  BY <1>1, <1>2
<1>4. DOMAIN v = 1..n /\ v[1] \in Nat /\ 1 \in DOMAIN v
  BY <1>3
<1>5. v # Unreadable
  <2>1. DOMAIN <<>> = {}
    OBVIOUS
  <2>. QED
    BY <1>4, <2>1 DEF Unreadable
<1>6. \A i \in 1..4 : At(v, i) \in Nat
  BY <1>3, <1>4 DEF At
<1>7. v # Absent
  <2>1. <<-1>>[1] = -1 /\ -1 \notin Nat
    OBVIOUS
  <2>. QED
    BY <1>4, <2>1 DEF Absent
<1>. QED
  BY <1>1, <1>2, <1>5, <1>6, <1>7

LEMMA WidthIs ==
  \A k \in Nat : /\ k < 10 => Width(k) = 10
                 /\ k >= 10 /\ k < 100 => Width(k) = 100
                 /\ k >= 100 /\ k < 1000 => Width(k) = 1000
                 /\ k >= 1000 => Width(k) = 10000
BY DEF Width

LEMMA WidthFacts ==
  ASSUME NEW m \in Nat, NEW n \in Nat, m <= n
  PROVE  Width(m) \in Nat /\ Width(n) \in Nat /\ Width(m) <= Width(n)
BY WidthIs

\* What to_semver makes of month a and of n behind it.
Digits(a, n) == a * Width(n) + n

LEMMA Written ==
  ASSUME NEW a \in Nat, NEW m \in Nat, NEW n \in Nat, m < n
  PROVE  Digits(a, m) \in Nat /\ Digits(a, n) \in Nat /\ Digits(a, m) < Digits(a, n)
<1>1. \A p, q \in Nat : p <= q => a * p \in Nat /\ a * q \in Nat /\ a * p <= a * q
  OBVIOUS
<1>2. Width(m) \in Nat /\ Width(n) \in Nat /\ Width(m) <= Width(n)
  BY WidthFacts
<1>3. a * Width(m) \in Nat /\ a * Width(n) \in Nat /\ a * Width(m) <= a * Width(n)
  BY <1>1, <1>2
<1>. QED
  BY <1>3 DEF Digits

LEMMA LaterMonth ==
  ASSUME NEW a \in Nat, NEW b \in Nat, a < b, NEW m \in Nat, NEW n \in Nat, m <= 9999,
         Width(m) <= Width(n)
  PROVE  Digits(a, m) < Digits(b, n)
<1>1. m \in Nat /\ m < Width(m) /\ Width(m) \in {10, 100, 1000, 10000}
  <2>1. m < 10 \/ (m >= 10 /\ m < 100) \/ (m >= 100 /\ m < 1000) \/ m >= 1000
    OBVIOUS
  <2>. QED
    BY <2>1, WidthIs
<1>2. Width(n) \in {10, 100, 1000, 10000}
  BY WidthIs
<1>3. ASSUME NEW p \in {10, 100, 1000, 10000}, NEW q \in {10, 100, 1000, 10000}, p <= q, m < p
      PROVE  a * p + m < b * q + n
  <2>1. a * p + m < b * p + n
    <3>1. CASE p = 10
      BY <1>1, <1>3, <3>1
    <3>2. CASE p = 100
      BY <1>1, <1>3, <3>2
    <3>3. CASE p = 1000
      BY <1>1, <1>3, <3>3
    <3>4. CASE p = 10000
      BY <1>1, <1>3, <3>4
    <3>. QED
      BY <1>3, <3>1, <3>2, <3>3, <3>4
  <2>2. b * p <= b * q /\ b * p \in Nat /\ b * q \in Nat /\ a * p \in Nat
    <3>1. \A c, d \in Nat : c <= d => b * c <= b * d /\ b * c \in Nat /\ b * d \in Nat
      OBVIOUS
    <3>2. p \in Nat /\ q \in Nat
      BY <1>3
    <3>3. a * p \in Nat
      BY <3>2
    <3>. QED
      BY <1>3, <3>1, <3>2, <3>3
  <2>. QED
    BY <1>1, <2>1, <2>2
<1>. QED
  BY <1>1, <1>2, <1>3 DEF Digits

LEMMA DigitsInNat ==
  ASSUME NEW a \in Nat, NEW n \in Nat
  PROVE  Digits(a, n) \in Nat
<1>1. n < n + 1 /\ n + 1 \in Nat
  OBVIOUS
<1>. QED
  BY <1>1, Written

LEMMA DigitsOrder ==
  ASSUME NEW a \in Nat, NEW b \in Nat, NEW m \in Nat, NEW n \in Nat, m <= 9999, n <= 9999,
         a < b => Width(m) <= Width(n), b < a => Width(n) <= Width(m)
  PROVE  (Digits(a, m) < Digits(b, n)) <=> (a < b \/ (a = b /\ m < n))
<1>1. Digits(a, m) \in Nat /\ Digits(b, n) \in Nat
  <2>1. Digits(a, m) \in Nat
    BY DigitsInNat
  <2>2. Digits(b, n) \in Nat
    BY DigitsInNat
  <2>. QED
    BY <2>1, <2>2
<1>2. a < b => Digits(a, m) < Digits(b, n)
  BY LaterMonth
<1>3. b < a => Digits(b, n) < Digits(a, m)
  BY LaterMonth
<1>4. a = b /\ m < n => Digits(a, m) < Digits(b, n)
  BY Written
<1>5. a = b /\ n < m => Digits(b, n) < Digits(a, m)
  BY Written
<1>6. a = b /\ n = m => Digits(b, n) = Digits(a, m)
  OBVIOUS
<1>7. a < b \/ b < a \/ a = b
  OBVIOUS
<1>8. m < n \/ n < m \/ m = n
  OBVIOUS
<1>. QED
  BY <1>1, <1>2, <1>3, <1>4, <1>5, <1>6, <1>7, <1>8

\* Service pack and patch in one number.
Packed(s, p) == s * 100 + p

LEMMA PackedIs ==
  ASSUME NEW a \in Nat, NEW b \in Nat, a <= 99, b <= 99
  PROVE  Packed(a, b) \in Nat /\ Packed(a, b) <= 9999
BY DEF Packed

LEMMA PackedOrder ==
  ASSUME NEW a \in Nat, NEW b \in Nat, NEW c \in Nat, NEW d \in Nat, b <= 99, d <= 99
  PROVE  (Packed(a, b) < Packed(c, d)) <=> (a < c \/ (a = c /\ b < d))
BY DEF Packed

LEMMA TwoDigits == \A a \in 0..99 : a \in Nat /\ a <= 99
OBVIOUS

LEMMA OlderIs ==
  \A x, y : Older(x, y) <=>
     \/ At(x, 1) < At(y, 1)
     \/ At(x, 2) < At(y, 2) /\ At(x, 1) = At(y, 1)
     \/ At(x, 3) < At(y, 3) /\ At(x, 1) = At(y, 1) /\ At(x, 2) = At(y, 2)
     \/ At(x, 4) < At(y, 4) /\ At(x, 1) = At(y, 1) /\ At(x, 2) = At(y, 2) /\ At(x, 3) = At(y, 3)
<1>1. 1..4 = {1, 2, 3, 4} /\ 1..(1 - 1) = {} /\ 1..(2 - 1) = {1} /\ 1..(3 - 1) = {1, 2}
        /\ 1..(4 - 1) = {1, 2, 3}
  OBVIOUS
<1>. QED
  BY <1>1 DEF Older

LEMMA OlderPair ==
  ASSUME NEW y \in Nat, NEW z \in Nat, NEW m \in Nat, NEW n \in Nat
  PROVE  Older(<<y, m>>, <<z, n>>) <=> y < z \/ (y = z /\ m < n)
<1>1. \A a, b \in Nat : At(<<a, b>>, 1) = a /\ At(<<a, b>>, 2) = b
                          /\ At(<<a, b>>, 3) = 0 /\ At(<<a, b>>, 4) = 0
  BY DEF At
<1>. QED
  BY <1>1, OlderIs

\* What is written behind the month of a VCS version orders it as its service pack and
\* its patch do; a longer number behind a month hides the month.
LEMMA VcsOrder ==
  ASSUME NEW v \in VersionsOf("vcs"), NEW w \in VersionsOf("vcs"), Comparable("vcs", v, w)
  PROVE  Older(to_semver("vcs", v), to_semver("vcs", w)) <=> Older(v, w)
<1>1. /\ v \in [1..4 -> Nat] /\ w \in [1..4 -> Nat]
      /\ v[3] \in 0..99 /\ v[4] \in 0..99 /\ w[3] \in 0..99 /\ w[4] \in 0..99
      /\ v # Unreadable /\ w # Unreadable /\ v # Absent /\ w # Absent
  BY VersionFacts
<1>2. PICK y1, m1, s1, p1 : y1 = v[1] /\ m1 = v[2] /\ s1 = v[3] /\ p1 = v[4]
  OBVIOUS
<1>3. PICK y2, m2, s2, p2 : y2 = w[1] /\ m2 = w[2] /\ s2 = w[3] /\ p2 = w[4]
  OBVIOUS
<1>4. /\ y1 \in Nat /\ m1 \in Nat /\ s1 \in Nat /\ p1 \in Nat /\ s1 <= 99 /\ p1 <= 99
      /\ y2 \in Nat /\ m2 \in Nat /\ s2 \in Nat /\ p2 \in Nat /\ s2 <= 99 /\ p2 <= 99
  BY <1>1, <1>2, <1>3, TwoDigits
<1> DEFINE b1 == Packed(s1, p1)
           b2 == Packed(s2, p2)
<1>5. Behind(v) = b1 /\ Behind(w) = b2
  BY <1>2, <1>3 DEF Behind, Packed
<1>6. /\ to_semver("vcs", v) = <<y1, Digits(m1, b1)>>
      /\ to_semver("vcs", w) = <<y2, Digits(m2, b2)>>
  BY <1>1, <1>2, <1>3 DEF to_semver, Digits, Packed
<1>7. /\ y1 = y2 /\ m1 < m2 => Width(b1) <= Width(b2)
      /\ y1 = y2 /\ m2 < m1 => Width(b2) <= Width(b1)
  BY <1>1, <1>2, <1>3, <1>5 DEF Comparable
<1>8. /\ b1 \in Nat /\ b1 <= 9999 /\ b2 \in Nat /\ b2 <= 9999
      /\ (b1 < b2) <=> (s1 < s2 \/ (s1 = s2 /\ p1 < p2))
  <2>1. b1 \in Nat /\ b1 <= 9999
    BY <1>4, PackedIs
  <2>2. b2 \in Nat /\ b2 <= 9999
    BY <1>4, PackedIs
  <2>3. (b1 < b2) <=> (s1 < s2 \/ (s1 = s2 /\ p1 < p2))
    BY <1>4, PackedOrder
  <2>. QED
    BY <2>1, <2>2, <2>3
<1>9. Older(v, w) <=> y1 < y2 \/ (y1 = y2 /\ (m1 < m2 \/ (m1 = m2 /\ (s1 < s2
                        \/ (s1 = s2 /\ p1 < p2)))))
  <2>1. \A u \in [1..4 -> Nat] :
          At(u, 1) = u[1] /\ At(u, 2) = u[2] /\ At(u, 3) = u[3] /\ At(u, 4) = u[4]
    BY DEF At
  <2>2. /\ At(v, 1) = y1 /\ At(v, 2) = m1 /\ At(v, 3) = s1 /\ At(v, 4) = p1
        /\ At(w, 1) = y2 /\ At(w, 2) = m2 /\ At(w, 3) = s2 /\ At(w, 4) = p2
    BY <1>1, <1>2, <1>3, <2>1
  <2>. QED
    BY <1>4, <2>2, OlderIs
<1> HIDE DEF b1, b2
<1>10. CASE y1 = y2
  <2>1. Digits(m1, b1) \in Nat /\ Digits(m2, b2) \in Nat
    <3>1. Digits(m1, b1) \in Nat
      BY <1>4, <1>8, DigitsInNat
    <3>2. Digits(m2, b2) \in Nat
      BY <1>4, <1>8, DigitsInNat
    <3>. QED
      BY <3>1, <3>2
  <2>2. (Digits(m1, b1) < Digits(m2, b2)) <=> (m1 < m2 \/ (m1 = m2 /\ b1 < b2))
    <3>1. m1 < m2 => Width(b1) <= Width(b2)
      BY <1>7, <1>10
    <3>2. m2 < m1 => Width(b2) <= Width(b1)
      BY <1>7, <1>10
    <3>3. m1 \in Nat /\ m2 \in Nat /\ b1 \in Nat /\ b2 \in Nat /\ b1 <= 9999 /\ b2 <= 9999
      BY <1>4, <1>8
    <3>. QED
      BY <3>1, <3>2, <3>3, DigitsOrder
  <2>3. Older(<<y1, Digits(m1, b1)>>, <<y2, Digits(m2, b2)>>) <=> Digits(m1, b1) < Digits(m2, b2)
    BY <1>4, <1>10, <2>1, OlderPair
  <2>. QED
    BY <1>4, <1>6, <1>8, <1>9, <1>10, <2>2, <2>3
<1>11. CASE y1 # y2
  <2>1. Digits(m1, b1) \in Nat /\ Digits(m2, b2) \in Nat
    <3>1. Digits(m1, b1) \in Nat
      BY <1>4, <1>8, DigitsInNat
    <3>2. Digits(m2, b2) \in Nat
      BY <1>4, <1>8, DigitsInNat
    <3>. QED
      BY <3>1, <3>2
  <2>2. Older(<<y1, Digits(m1, b1)>>, <<y2, Digits(m2, b2)>>) <=> y1 < y2
    BY <1>4, <1>11, <2>1, OlderPair
  <2>. QED
    BY <1>6, <1>9, <1>11, <2>2
<1>. QED
  BY <1>10, <1>11

\* A version without its last number is one with a 0 there.
LEMMA PaddedOrder ==
  ASSUME NEW tool, tool # "vcs", NEW v \in VersionsOf(tool)
  PROVE  /\ to_semver(tool, v) # Unreadable
         /\ \A i \in 1..4 : At(to_semver(tool, v), i) = At(v, i)
<1>1. PICK n \in 1..3 : v \in [1..n -> Nat]
  BY VersionFacts
<1>2. v # Unreadable /\ v \in Seq(Nat) /\ Len(v) = n
  BY <1>1, VersionFacts
<1>3. CASE tool = "vivado" /\ Len(v) = 2
  <2>1. to_semver(tool, v) = v \o <<0>>
    BY <1>2, <1>3 DEF to_semver
  <2> DEFINE u == v \o <<0>>
  <2>2. u \in Seq(Nat) /\ Len(u) = 3 /\ u[1] = v[1] /\ u[2] = v[2] /\ u[3] = 0
    <3>1. \A s, r \in Seq(Nat) :
            /\ s \o r \in Seq(Nat) /\ Len(s \o r) = Len(s) + Len(r)
            /\ \A i \in 1..(Len(s) + Len(r)) :
                  (s \o r)[i] = IF i <= Len(s) THEN s[i] ELSE r[i - Len(s)]
      OBVIOUS
    <3>2. <<0>> \in Seq(Nat) /\ Len(<<0>>) = 1 /\ <<0>>[1] = 0
      OBVIOUS
    <3>3. Len(v) = 2 /\ v \in Seq(Nat)
      BY <1>2, <1>3
    <3>4. u \in Seq(Nat) /\ Len(u) = 2 + 1
      BY <3>1, <3>2, <3>3
    <3>5. \A i \in 1..3 : u[i] = IF i <= 2 THEN v[i] ELSE <<0>>[i - 2]
      <4>1. 1..(Len(v) + Len(<<0>>)) = 1..3
        BY <3>2, <3>3
      <4>2. \A i \in 1..(Len(v) + Len(<<0>>)) :
              u[i] = IF i <= Len(v) THEN v[i] ELSE <<0>>[i - Len(v)]
        BY <3>1, <3>2, <3>3, Zenon
      <4>. QED
        BY <3>3, <4>1, <4>2
    <3>. QED
      BY <3>2, <3>4, <3>5
  <2> HIDE DEF u
  <2>3. DOMAIN u = 1..3 /\ DOMAIN v = 1..2 /\ u # <<>>
    BY <1>2, <1>3, <2>2
  <2>4. \A i \in 1..4 : At(u, i) = At(v, i)
    BY <2>2, <2>3 DEF At
  <2>. QED
    BY <2>1, <2>3, <2>4 DEF u, Unreadable
<1>4. CASE ~(tool = "vivado" /\ Len(v) = 2)
  BY <1>2, <1>4 DEF to_semver
<1>. QED
  BY <1>3, <1>4

LEMMA CheckIsOrder ==
  ASSUME NEW tool,
         NEW min \in VersionsOf(tool) \cup {Unreadable},
         NEW found \in VersionsOf(tool) \cup {Unreadable, Absent},
         Comparable(tool, found, min)
  PROVE  check(tool, min, found) <=>
           /\ found \notin {Unreadable, Absent} /\ min # Unreadable
           /\ ~Older(found, min)
<1>1. to_semver(tool, Unreadable) = Unreadable
  BY DEF to_semver
<1>2. CASE found \in {Unreadable, Absent} \/ min = Unreadable
  BY <1>1, <1>2 DEF check
<1>3. CASE found \in VersionsOf(tool) /\ min \in VersionsOf(tool)
  <2>1. found \notin {Unreadable, Absent} /\ min # Unreadable
    BY <1>3, VersionFacts
  <2>2. to_semver(tool, found) # Unreadable /\ to_semver(tool, min) # Unreadable
    <3>1. CASE tool = "vcs"
      <4>1. \A a, b : <<a, b>> # <<>>
        OBVIOUS
      <4>. QED
        BY <2>1, <3>1, <4>1 DEF to_semver, Unreadable
    <3>. QED
      BY <1>3, <3>1, PaddedOrder
  <2>3. Older(to_semver(tool, found), to_semver(tool, min)) <=> Older(found, min)
    <3>1. CASE tool = "vcs"
      BY <1>3, <2>1, <3>1, VcsOrder
    <3>2. CASE tool # "vcs"
      <4>1. /\ \A i \in 1..4 : At(to_semver(tool, found), i) = At(found, i)
            /\ \A i \in 1..4 : At(to_semver(tool, min), i) = At(min, i)
        BY <1>3, <3>2, PaddedOrder
      <4>2. \A i \in 1..4 : \A j \in 1..(i - 1) : j \in 1..4
        OBVIOUS
      <4>. QED
        BY <4>1, <4>2 DEF Older
    <3>. QED
      BY <3>1, <3>2
  <2>. QED
    BY <2>1, <2>2, <2>3 DEF check
<1>. QED
  BY <1>2, <1>3

\* For any tools, requirements and versions found: the script exits with 0 exactly when
\* every tool in use is there and no older than required.  Excepted are VCS versions of
\* one year whose months have numbers of different length behind them, the longer one
\* behind the earlier month: there check_tool_requirements.py may be wrong.
THEOREM ToolsAreChecked ==
  ASSUME NEW reqs, NEW args, NEW installed, AreTools(reqs, installed)
  PROVE  ToolsChecked(reqs, args, installed)
<1> SUFFICES ASSUME \A t \in DOMAIN reqs : Comparable(t, installed[t], reqs[t].min_version)
    PROVE main(reqs, args, installed) = 0 <=>
            /\ args \subseteq DOMAIN reqs
            /\ \A t \in DOMAIN reqs : (t \in args \/ ~reqs[t].as_needed) =>
                  /\ installed[t] \notin {Unreadable, Absent}
                  /\ reqs[t].min_version # Unreadable
                  /\ ~Older(installed[t], reqs[t].min_version)
  BY DEF ToolsChecked
<1>1. \A t \in DOMAIN reqs :
        check(t, reqs[t].min_version, installed[t]) <=>
          /\ installed[t] \notin {Unreadable, Absent} /\ reqs[t].min_version # Unreadable
          /\ ~Older(installed[t], reqs[t].min_version)
  BY CheckIsOrder DEF AreTools
<1>2. main(reqs, args, installed) = 0 <=>
        /\ \A t \in InUse(reqs, args) : check(t, reqs[t].min_version, installed[t])
        /\ args \subseteq DOMAIN reqs
  BY DEF main
<1>3. \A t : t \in InUse(reqs, args) <=> t \in DOMAIN reqs /\ (t \in args \/ ~reqs[t].as_needed)
  BY DEF InUse
<1>. QED
  BY <1>1, <1>2, <1>3

-----------------------------------------------------------------------------
(* What the scripts promise, whatever they are called with.                *)

\* A behaviour is one call: what holds of the inputs holds always.
LEMMA OneCall ==
  ASSUME [FALSE]_script_vars
  PROVE  part' = part /\ input' = input
  BY DEF script_vars

\* For any log of any length: the loop of check_ibex_uvm_log, which stops at FAILED and
\* forgets an error for the next one, gives the verdict its docstring describes, unless
\* the log says FAILED with no error before: for these logs nothing is claimed.
THEOREM EveryVerdictIsRight == ScriptSpec => []VerdictsRight
<1>1. ScriptInit => VerdictsRight
  BY ScriptInputsAssumption, VerdictGiven DEF ScriptInit, VerdictsRight
<1>2. VerdictsRight /\ [FALSE]_script_vars => VerdictsRight'
  BY OneCall DEF VerdictsRight
<1>. QED
  BY <1>1, <1>2, PTL DEF ScriptSpec

\* For any two test lists whose names are distinct, any TEST and ITERATIONS and any
\* parameters of the core: while each entry has one parameter or no rtl_params, exactly
\* the tests asked for and supported are run, each iteration once, and a regression is
\* refused only for want of them or for an unknown parameter; in any other lists only an
\* entry with an empty rtl_params is left out although it is supported.
THEOREM EveryTestIsRunOnce == ScriptSpec => []TestsRight
<1>1. ScriptInit => TestsRight
  <2>. SUFFICES ASSUME ScriptInit, part = "selection"
                PROVE  EachTestOnce(input.cfg, input.riscvdv, input.directed, input.test,
                                    input.iterations, 1)
    BY DEF TestsRight
  <2>1. input.iterations \in Nat /\ AreTestLists(input.riscvdv, input.directed)
    BY ScriptInputsAssumption DEF ScriptInit
  <2>. QED
    BY <2>1, TestsSelected
<1>2. TestsRight /\ [FALSE]_script_vars => TestsRight'
  BY OneCall DEF TestsRight
<1>. QED
  BY <1>1, <1>2, PTL DEF ScriptSpec

\* For any configuration and any fields: each field reaches the simulator at exactly one
\* stage and with its value; and ibex_cmd.py names the instruction set that the design
\* reports.
THEOREM EveryFieldIsSet == ScriptSpec => []BuiltAsConfigured
<1>1. ScriptInit => BuiltAsConfigured
  <2>1. ASSUME ScriptInit, part = "config" PROVE OptionsMatchConfig(input)
    <3>1. \A fld \in DOMAIN input : input[fld].type = "bool" => input[fld].v \in {"0", "1"}
      BY <2>1, ScriptInputsAssumption DEF ScriptInit
    <3>. QED
      BY <3>1, SetAsConfigured
  <2>2. ASSUME ScriptInit, part = "isa" PROVE IsaInSync(input.rv32e, input.rv32m, input.rv32b)
    <3>1. input.rv32b \in DOMAIN bitmanip_mapping
      BY <2>2, ScriptInputsAssumption DEF ScriptInit
    <3>. QED
      BY <3>1, IsasInSync
  <2>. QED
    BY <2>1, <2>2 DEF BuiltAsConfigured
<1>2. BuiltAsConfigured /\ [FALSE]_script_vars => BuiltAsConfigured'
  BY OneCall DEF BuiltAsConfigured
<1>. QED
  BY <1>1, <1>2, PTL DEF ScriptSpec

\* For any template, options, values and environment: a command is given out without a
\* hole or not at all, and an option, the caller and the environment are asked in turn;
\* without one to fill, it is refused only while a listed variable is not set.
THEOREM EveryCommandIsFilled == ScriptSpec => []CommandsRight
<1>1. ScriptInit => CommandsRight
  BY ScriptInputsAssumption, CommandFilled DEF ScriptInit, CommandsRight
<1>2. CommandsRight /\ [FALSE]_script_vars => CommandsRight'
  BY OneCall DEF CommandsRight
<1>. QED
  BY <1>1, <1>2, PTL DEF ScriptSpec
=============================================================================
