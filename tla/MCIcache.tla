------------------------------ MODULE MCIcache ------------------------------
(***************************************************************************)
(* Instances of Icache for TLC.                                            *)
(***************************************************************************)
EXTENDS IcachePerf

CONSTANTS
    MaxBranches, MaxInvals, \* bounds on the branches and invalidations of a run
    Opt1In                  \* TRUE runs opt1_line_buffer.sv, FALSE the Variant

VARIABLES branches, invals  \* how many there have been
VARIABLE  opt1
Opt1 == INSTANCE Icache WITH Variant <- "opt1"

\* Branch targets: the middle of a line, and the start of another.
MidLine  == {[line |-> 0, beat |-> 1]}
TwoLines == MidLine \cup {[line |-> 1, beat |-> 0]}

\* Whether a lookup hits is decided by the RAM here, not by an input.
FromRam == {NoLine}

\* The instances are about memory and RAMs, not about stalls: the IF stage takes
\* every word in the cycle it is offered. The third and fourth conjuncts of MCNext
\* follow from CacheStep, and let TLC drop such inputs early.
MCInit == CacheInit /\ branches = 0 /\ invals = 0 /\ opt1 \in Opt1In
MCNext ==
    \E x \in CacheInputs :
        /\ branches < MaxBranches \/ x.addr = NoAddr
        /\ invals < MaxInvals \/ ~x.inval
        /\ x.rvalid => bus_q # <<>>
        /\ x.ecc # "none" => lookup_valid_ic1
        /\ IF opt1 THEN x.ready = Opt1!data_valid(Opt1!FillIn(x)) /\ Opt1!CacheStep(x)
                   ELSE x.ready = data_valid(FillIn(x)) /\ CacheStep(x)
        /\ opt1' = opt1
        /\ branches' = branches + (IF x.addr = NoAddr THEN 0 ELSE 1)
        /\ invals' = invals + (IF x.inval THEN 1 ELSE 0)
MCSpec == MCInit /\ [][MCNext]_<<cache_vars, branches, invals, opt1>>
=============================================================================
