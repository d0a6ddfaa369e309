------------------------------- MODULE MCUnits -------------------------------
(***************************************************************************)
(* Small units of the core for TLC, with the variables of each of its own: *)
(* the load/store unit with its pipeline control, the invalidation machine *)
(* of the cache, the output side of the cache, and the fill buffers where  *)
(* their liveness is at stake.  A behaviour is one of one unit; the others *)
(* stay in one of their initial states.                                    *)
(***************************************************************************)
EXTENDS MemPipeline, IcacheInval, IcacheOutput

VARIABLES unit, writeback   \* whether the core of this behaviour has the stage

NoWb == INSTANCE MemPipeline WITH WritebackStage <- FALSE

Load(size, addr)  == [we |-> FALSE, size |-> size, addr |-> addr]
Store(size, addr) == [we |-> TRUE,  size |-> size, addr |-> addr]

\* Split and aligned loads and stores of every size; the last word wraps to 0.
AllKinds == {Load(4, 1), Load(2, 2), Load(2, 7), Load(1, 3), Load(4, 4),
             Store(4, 3), Store(2, 3), Store(1, 6), Store(4, 6), Store(4, 0)}

AnyPmp == SUBSET Word

-----------------------------------------------------------------------------
(* The fill buffers: two of them, two lines of two beats, a lookup that hits *)
(* or misses, at most two branches, the baseline and opt3.                   *)
VARIABLES
    prefetch_addr_q, lookup_valid_ic1, lookup_line_ic1, fill_in_ic1, ecc_write_req,
    fill_busy_q, fill_older_q, fill_stale_q, fill_cache_q, fill_hit_q,
    fill_ext_cnt_q, fill_ext_hold_q, fill_ext_done_q, fill_rvd_cnt_q,
    fill_ram_done_q, fill_out_cnt_q, fill_addr_q, fill_err_q, fill_data_q,
    out_addr, fetched, bus_wait_q, instr_bus_q, branches, opt3

fill_side == <<prefetch_addr_q, lookup_valid_ic1, lookup_line_ic1, fill_in_ic1, ecc_write_req,
    fill_busy_q, fill_older_q, fill_stale_q, fill_cache_q, fill_hit_q,
    fill_ext_cnt_q, fill_ext_hold_q, fill_ext_done_q, fill_rvd_cnt_q,
    fill_ram_done_q, fill_out_cnt_q, fill_addr_q, fill_err_q, fill_data_q,
    out_addr, fetched, bus_wait_q, instr_bus_q, branches, opt3>>

LineData(l) == [b \in 0..1 |-> [line |-> l, beat |-> b, ver |-> 0, bad |-> FALSE]]
Fill == INSTANCE IcacheFillLive WITH
    NUM_FB <- 2, IC_LINE_BEATS <- 2, NUM_LINES <- 2, FB_THRESHOLD <- 0,
    Variant <- "baseline", Versions <- {0}, MaxBranches <- 2,
    ReqIn <- {TRUE}, EnableIn <- {TRUE}, ErrIn <- {FALSE}, EccIn <- {"none"},
    LineBufIn <- {FALSE}, InvalIn <- {"idle"},
    BranchIn <- {[line |-> 0, beat |-> 1]},
    HitIn <- {[b \in 0..1 |-> [line |-> -1, beat |-> 0, ver |-> 0, bad |-> FALSE]],
              LineData(0), LineData(1)},
    bus_wait <- bus_wait_q, bus_q <- instr_bus_q

-----------------------------------------------------------------------------
lsu_side == <<vars, writeback>>
MCVars == <<unit, lsu_side, inval_vars, output_vars, fill_side>>

MCInit ==
    /\ unit \in {"lsu", "inval", "output", "fill"}
    /\ Init /\ writeback \in BOOLEAN
    /\ unit # "lsu" => denied = {} /\ ~writeback
    /\ InvalInit /\ OutputInit
    /\ Fill!LiveInit /\ (unit # "fill" => ~opt3)

LsuEdge(gnt, rvalid, err) ==
    /\ unit = "lsu"
    /\ IF writeback THEN Edge(gnt, rvalid, err) ELSE NoWb!Edge(gnt, rvalid, err)
    /\ UNCHANGED <<unit, writeback, inval_vars, output_vars, fill_side>>
InvalEdge(inval, answer) ==
    /\ unit = "inval" /\ InvalStep(inval, answer)
    /\ UNCHANGED <<unit, lsu_side, output_vars, fill_side>>
OutputEdge(in) ==
    /\ unit = "output" /\ OutputStep(in)
    /\ UNCHANGED <<unit, lsu_side, inval_vars, fill_side>>
FillEdge(in) ==
    /\ unit = "fill" /\ Fill!LiveStep(in)
    /\ UNCHANGED <<unit, lsu_side, inval_vars, output_vars>>

LsuGranted  == \E rvalid, err \in BOOLEAN : LsuEdge(TRUE, rvalid, err)
LsuAnswered == \E gnt, err \in BOOLEAN : LsuEdge(gnt, TRUE, err)
LsuNext     == \E gnt, rvalid, err \in BOOLEAN : LsuEdge(gnt, rvalid, err)
KeyAnswered == \E inval \in BOOLEAN : InvalEdge(inval, TRUE)
SweepNext   == \E inval, answer \in BOOLEAN : InvalEdge(inval, answer)
FillNext    == \E in \in Fill!Inputs : FillEdge(in)

MCNext == LsuNext \/ SweepNext \/ FillNext \/ \E in \in Inputs : OutputEdge(in)

\* The clock runs; a standing data request is granted and a granted one answered, and
\* so is the request for a key.
MCSpec ==
    /\ MCInit /\ [][MCNext]_MCVars
    /\ WF_MCVars(LsuNext) /\ WF_MCVars(LsuGranted) /\ WF_MCVars(LsuAnswered)
    /\ WF_MCVars(SweepNext) /\ WF_MCVars(KeyAnswered)
    /\ WF_MCVars(FillNext)
    /\ WF_MCVars(\E in \in Fill!Inputs : in.gnt /\ FillEdge(in))
    /\ WF_MCVars(\E in \in Fill!Inputs : in.rvalid /\ FillEdge(in))
    /\ WF_MCVars(\E in \in Fill!Inputs : in.ready /\ FillEdge(in))
    /\ WF_MCVars(/\ unit = "fill" /\ prefetch_addr_q = Fill!NoAddr
                 /\ \E in \in Fill!Inputs : Fill!branch_i(in) /\ FillEdge(in))

\* Every invalidation ends: the requests that interrupt one another, the key handshake
\* and the counter leave no state in which the cache stays blocked.
InvalEnds == unit = "inval" => SweepEnds

Released == unit = "fill" => Fill!Released
KeepsFetching == unit = "fill" => Fill!KeepsFetching
=============================================================================
