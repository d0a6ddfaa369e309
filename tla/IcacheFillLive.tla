-------------------------- MODULE IcacheFillLive --------------------------
(***************************************************************************)
(* Liveness of IcacheFill on small instances.                              *)
(***************************************************************************)
EXTENDS IcacheFill

\* The instances for liveness branch at most MaxBranches times: a core that
\* redirects the fetch in every cycle never consumes a word.
CONSTANT MaxBranches
VARIABLE branches

\* Besides the variant of the configuration, an instance runs opt3, whose second
\* throttle stops lookups while the IF stage stalls.
VARIABLE opt3
Opt3 == INSTANCE IcacheFill WITH Variant <- "opt3"

LiveInit == Init /\ branches = 0 /\ opt3 \in BOOLEAN
LiveStep(in) ==
    /\ IF opt3 THEN Opt3!Step(in) ELSE Step(in)
    /\ opt3' = opt3
    /\ branches' = IF branch_i(in) THEN branches + 1 ELSE branches
    /\ branches' <= MaxBranches
LiveNext == \E in \in Inputs : LiveStep(in)
LiveVars == <<vars, branches, opt3>>

\* The clock runs; the bus grants a request that stays and answers what it
\* granted; the IF stage takes data that stays on offer; the core, once it has
\* been reset, branches to its boot address.
LiveSpec ==
    /\ LiveInit /\ [][LiveNext]_LiveVars
    /\ WF_LiveVars(LiveNext)
    /\ WF_LiveVars(\E in \in Inputs : in.gnt /\ LiveStep(in))
    /\ WF_LiveVars(\E in \in Inputs : in.rvalid /\ LiveStep(in))
    /\ WF_LiveVars(\E in \in Inputs : in.ready /\ LiveStep(in))
    /\ WF_LiveVars(prefetch_addr_q = NoAddr /\ \E in \in Inputs : branch_i(in) /\ LiveStep(in))

\* Every allocated buffer completes its requests, its output and its cache
\* write, and is released.
Released == \A i \in FB : (i \in fill_busy_q) ~> (i \notin fill_busy_q)

\* The stream never dries up: the arbiters, the throttle and the buffers that
\* wait for one another always let the word at out_addr through in the end.
KeepsFetching == []<>(fetched # Nothing)
=============================================================================
